----------------------- MODULE ProviderRuntimeProofs ------------------------
(***************************************************************************)
(* What the runtimes of the providers and the workers that run them        *)
(* promise, proved for every value of the constants of MCProviders.  The   *)
(* parts share no variable, so each has its own inductive invariant over   *)
(* its own part of the state, and a step of another part leaves it as it   *)
(* is.  A lemma <Part><Action>Keeps says that an action keeps the part's   *)
(* invariant, <Part>InvIsSafe that the invariant implies the property the  *)
(* runs check.                                                             *)
(*                                                                         *)
(*   RuntimeInv    what the registry's file says of a preparation is what  *)
(*                 some job does, and the job has the system's lock;       *)
(*   ClaudeInv     the processes, the verdict, the work space and the lock *)
(*                 of each call agree with its thread;                     *)
(*   CodexInv      a turn is told as the supervisor knows it, and what the *)
(*                 watchdog left running has cost failures.                *)
(***************************************************************************)
EXTENDS MCProviders, FiniteSetTheorems, TLAPS

-----------------------------------------------------------------------------
(* The preparation of a runtime (RuntimePreparation)                        *)

(* The parts of the state that TypeOK leaves out. *)
RuntimeTypes ==
  /\ serving \in {"up", "closing", "draining", "down"} /\ server \in 1 .. MaxServers
  /\ serving = "down" => server < MaxServers
  /\ preparer \in [pc : {"idle", "accepted", "submitted", "abort", "release"},
                   request : Runtime!Setup \cup {Runtime!NoSetup}]
  /\ gate \in [Runtime!Setup -> {"shut", "accepted", "refused"}]
  /\ target \in [Runtime!Setup -> Version \cup {NoVersion}]
  /\ flagged \subseteq Runtime!Setup

(* A job that is queued or running. *)
RuntimeBusy == runtime.step \in {"queued", "running"}

(* The steps at which a job may write, and those it reaches only through *)
(* the gate.                                                              *)
WritingSteps == {"inspect", "copy", "verify", "check", "finish succeeded"}
AdmittedSteps == WritingSteps \cup {"begin", "finish failed", "finish cancelled", "succeeded"}

(* A prepare call has the lock of its request until it passes it on. *)
PrepareInv ==
  LET r == preparer.request
  IN /\ preparer.pc = "idle" <=> r = Runtime!NoSetup
     /\ preparer.pc # "idle" => Runtime!Alive /\ flock = r /\ r \notin held /\ gate[r] # "accepted"
     /\ Runtime!Locked => /\ runtime.pending = r /\ runtime.server = server
                          /\ acceptance[r] = "pending"
                          /\ job[r] = "none" <=> preparer.pc = "accepted"
     /\ preparer.pc = "abort" /\ runtime.pending = r => slips >= 1

(* What the registry's file says of a preparation under way. *)
RuntimeFileInv ==
  /\ ~Runtime!Idle => runtime.state # "ready" /\ (Runtime!Alive => runtime.server = server)
  /\ runtime.pending # Runtime!NoSetup =>
       /\ ~RuntimeBusy /\ runtime.revision = target[runtime.pending]
       /\ Runtime!Alive /\ slips < 2 => /\ preparer.pc \in {"accepted", "submitted", "abort"}
                                        /\ preparer.request = runtime.pending
  /\ RuntimeBusy => /\ runtime.active # Runtime!NoSetup /\ runtime.revision = target[runtime.active]
                    /\ job[runtime.active] \notin {"none", "succeeded"}

(* A request that has a job, or passed the gate, was written down. *)
SetupsInv ==
  \A r \in Runtime!Setup :
    /\ job[r] # "none" \/ gate[r] = "accepted" => acceptance[r] # "none"
    /\ acceptance[r] = "failed" => job[r] = "none"
    /\ job[r] \in AdmittedSteps => gate[r] = "accepted"

(* One job works. *)
OneAtWork == \A q, r \in Runtime!Setup : job[q] \in Runtime!AtWork /\ job[r] \in Runtime!AtWork =>
  q = r

(* What writes is the registry's, and has the lock. *)
WriterInv ==
  \A r \in Runtime!Setup : Runtime!Alive =>
    /\ job[r] \in WritingSteps => runtime.active = r /\ runtime.step = "running" /\ r \in held
    /\ /\ job[r] \in {"queued", "gated", "begin"} /\ gate[r] = "accepted"
       /\ runtime.active = r /\ runtime.step = "queued"
       => r \in held

(* What was copied is what was accepted. *)
CopyInv ==
  \A r \in Runtime!Setup :
    /\ job[r] \in WritingSteps \ {"inspect"} => target[r] # NoVersion
    /\ job[r] \in {"verify", "check", "finish succeeded"} => binary = target[r]
    /\ job[r] \in {"check", "finish succeeded"} => verification = target[r]

(* The lock and its lease. *)
RuntimeLockInv ==
  /\ flock # Runtime!NoSetup => flock \in held \/ preparer.request = flock
  /\ ~Runtime!Alive => flock = Runtime!NoSetup /\ preparer.pc = "idle"
  /\ \A r \in held :
       /\ flock = r
       /\ \/ job[r] \in Runtime!AtWork
          \/ /\ job[r] \in {"queued", "cancelled", "failed"}
             /\ runtime.active = r /\ runtime.step = "queued"

(* The inductive invariant of the preparation. *)
RuntimeInv ==
  /\ Runtime!TypeOK /\ RuntimeTypes /\ PrepareInv /\ RuntimeFileInv /\ SetupsInv /\ OneAtWork
  /\ WriterInv
  /\ CopyInv /\ RuntimeLockInv /\ Runtime!ReadyIsVerified

(* Where the setups that the state names are. *)
RuntimeShape ==
  /\ preparer.pc \in {"idle", "accepted", "submitted", "abort", "release"}
  /\ preparer.request \in Runtime!Setup \cup {Runtime!NoSetup}
  /\ preparer.pc # "idle" => preparer.request \in Runtime!Setup
  /\ runtime.active \in Runtime!Setup \cup {Runtime!NoSetup}
  /\ runtime.pending \in Runtime!Setup \cup {Runtime!NoSetup}
  /\ flock \in Runtime!Setup \cup {Runtime!NoSetup} /\ held \subseteq Runtime!Setup
  /\ Runtime!NoSetup \notin Runtime!Setup

\* The setups that the state names are setups.
LEMMA RuntimeShapeHolds ==
  ASSUME Runtime!TypeOK, RuntimeTypes, PrepareInv, Runtime!PreparationAssumption
  PROVE  RuntimeShape
<1>1. Runtime!NoSetup \notin Runtime!Setup
  BY DEF Runtime!NoSetup, Runtime!Setup
<1> QED
  BY <1>1 DEF RuntimeShape, Runtime!TypeOK, RuntimeTypes, PrepareInv

\* Runtime!Install keeps RuntimeInv.
LEMMA RuntimeInstallKeeps ==
  ASSUME RuntimeInv, Runtime!PreparationAssumption, NEW v \in Version \cup {NoVersion},
         Runtime!Install(v)
  PROVE  RuntimeInv'
<1>1. /\ Runtime!TypeOK /\ RuntimeTypes /\ PrepareInv /\ RuntimeFileInv /\ SetupsInv /\ OneAtWork
      /\ WriterInv /\ CopyInv /\ RuntimeLockInv /\ Runtime!ReadyIsVerified /\ RuntimeShape
  BY RuntimeShapeHolds DEF RuntimeInv
<1>2. Runtime!TypeOK'
  BY <1>1
    DEF Runtime!Install, Runtime!Setup, Runtime!Preparing, Runtime!TypeOK, RuntimeShape,
        Runtime!AtWork, Runtime!Ended, Runtime!document, Runtime!files, Runtime!jobs,
        Runtime!PreparationAssumption
<1>3. RuntimeTypes'
  BY <1>1
    DEF Runtime!Install, RuntimeTypes, RuntimeShape, Runtime!document, Runtime!files,
        Runtime!jobs, Runtime!PreparationAssumption
<1>4. UNCHANGED <<runtime, acceptance, binary, verification, serving, server, preparer, gate,
                  job, target, flagged, flock, held, slips>>
  BY DEF Runtime!Install, Runtime!document, Runtime!jobs, RuntimeShape
<1>5. /\ PrepareInv' /\ RuntimeFileInv' /\ SetupsInv' /\ OneAtWork' /\ WriterInv' /\ CopyInv'
      /\ RuntimeLockInv' /\ Runtime!ReadyIsVerified'
  BY <1>1, <1>4
    DEF PrepareInv, Runtime!Locked, Runtime!Alive, RuntimeFileInv, Runtime!Idle, RuntimeBusy,
        SetupsInv, OneAtWork, WriterInv, CopyInv, RuntimeLockInv, Runtime!ReadyIsVerified
<1> QED
  BY <1>2, <1>3, <1>5 DEF RuntimeInv

\* Runtime!Take keeps RuntimeInv.
LEMMA RuntimeTakeKeeps ==
  ASSUME RuntimeInv, Runtime!PreparationAssumption, NEW r \in Runtime!Setup, Runtime!Take(r)
  PROVE  RuntimeInv'
<1>1. /\ Runtime!TypeOK /\ RuntimeTypes /\ PrepareInv /\ RuntimeFileInv /\ SetupsInv /\ OneAtWork
      /\ WriterInv /\ CopyInv /\ RuntimeLockInv /\ Runtime!ReadyIsVerified /\ RuntimeShape
  BY RuntimeShapeHolds DEF RuntimeInv
<1>2. Runtime!TypeOK'
  BY <1>1
    DEF Runtime!Take, Runtime!Move, Runtime!Preparing, Runtime!TypeOK, RuntimeShape,
        Runtime!AtWork, Runtime!Ended, Runtime!document, Runtime!files, Runtime!jobs,
        Runtime!Setup, Runtime!PreparationAssumption, Runtime!NoSetup
<1>3. RuntimeTypes'
  BY <1>1 DEF Runtime!Take, Runtime!Move, Runtime!Preparing, RuntimeTypes, RuntimeShape
<1>4. job'[r] = "gated" /\ job[r] = "queued" /\ \A q \in Runtime!Setup \ {r} : job'[q] = job[q]
  BY <1>1 DEF Runtime!Take, Runtime!Move, Runtime!TypeOK
<1>5. \A q \in Runtime!Setup : job[q] \notin Runtime!AtWork
  BY DEF Runtime!Take
<1>6. UNCHANGED <<runtime, acceptance, installed, binary, verification, serving, server,
                  preparer, gate, target, flagged, flock, held, slips>>
  BY <1>5 DEF Runtime!Take, Runtime!document, Runtime!files
<1>7. PrepareInv'
  BY <1>1, <1>4, <1>5, <1>6 DEF PrepareInv, Runtime!Locked, Runtime!Alive, RuntimeShape
<1>8. RuntimeFileInv'
  BY <1>1, <1>4, <1>5, <1>6
    DEF RuntimeFileInv, Runtime!Idle, RuntimeBusy, Runtime!Alive, RuntimeShape
<1>9. SetupsInv'
  BY <1>1, <1>4, <1>5, <1>6 DEF SetupsInv, AdmittedSteps, WritingSteps, RuntimeShape
<1>10. OneAtWork'
  BY <1>4, <1>5 DEF OneAtWork, RuntimeShape
<1>11. WriterInv'
  BY <1>1, <1>4, <1>5, <1>6 DEF WriterInv, SetupsInv, WritingSteps, Runtime!Alive
<1>12. CopyInv'
  BY <1>1, <1>4, <1>6 DEF CopyInv, WritingSteps
<1>13. RuntimeLockInv'
  BY <1>1, <1>4, <1>5, <1>6 DEF RuntimeLockInv, Runtime!Alive, Runtime!AtWork, RuntimeShape
<1>14. Runtime!ReadyIsVerified'
  BY <1>1, <1>6 DEF Runtime!ReadyIsVerified
<1> QED
  BY <1>2, <1>3, <1>7, <1>8, <1>9, <1>10, <1>11, <1>12, <1>13, <1>14 DEF RuntimeInv

\* Runtime!PassGate keeps RuntimeInv.
LEMMA RuntimePassGateKeeps ==
  ASSUME RuntimeInv, Runtime!PreparationAssumption, NEW r \in Runtime!Setup, Runtime!Alive,
         Runtime!PassGate(r)
  PROVE  RuntimeInv'
<1>1. /\ Runtime!TypeOK /\ RuntimeTypes /\ PrepareInv /\ RuntimeFileInv /\ SetupsInv /\ OneAtWork
      /\ WriterInv /\ CopyInv /\ RuntimeLockInv /\ Runtime!ReadyIsVerified /\ RuntimeShape
  BY RuntimeShapeHolds DEF RuntimeInv
<1>2. Runtime!TypeOK'
  BY <1>1
    DEF Runtime!PassGate, Runtime!Move, Runtime!Preparing, Runtime!TypeOK, RuntimeShape,
        Runtime!AtWork, Runtime!Ended, Runtime!document, Runtime!files, Runtime!jobs,
        Runtime!Setup, Runtime!PreparationAssumption, Runtime!NoSetup
<1>3. RuntimeTypes'
  BY <1>1 DEF Runtime!PassGate, Runtime!Move, Runtime!Preparing, RuntimeTypes, RuntimeShape
<1>4. /\ job'[r] = (IF gate[r] = "accepted" THEN "begin" ELSE "abandon") /\ job[r] = "gated"
      /\ \A q \in Runtime!Setup \ {r} : job'[q] = job[q]
  BY <1>1 DEF Runtime!PassGate, Runtime!Move, Runtime!TypeOK
<1>5. /\ job[r] \in Runtime!AtWork
      /\ \A q \in Runtime!Setup \ {r} :
           /\ job[q] \notin Runtime!AtWork \cup WritingSteps
           /\ job'[q] \notin Runtime!AtWork \cup WritingSteps
  BY <1>1, <1>4
    DEF OneAtWork, Runtime!AtWork, WritingSteps, Runtime!document, Runtime!files, Runtime!jobs
<1>6. UNCHANGED <<runtime, acceptance, installed, binary, verification, serving, server,
                  preparer, gate, target, flagged, flock, held, slips>>
  BY <1>5 DEF Runtime!PassGate, Runtime!document, Runtime!files
<1>7. PrepareInv'
  BY <1>1, <1>4, <1>5, <1>6 DEF PrepareInv, Runtime!Locked, Runtime!Alive, RuntimeShape
<1>8. RuntimeFileInv'
  BY <1>1, <1>4, <1>5, <1>6
    DEF RuntimeFileInv, Runtime!Idle, RuntimeBusy, Runtime!Alive, RuntimeShape
<1>9. SetupsInv'
  BY <1>1, <1>4, <1>5, <1>6 DEF SetupsInv, AdmittedSteps, WritingSteps, RuntimeShape
<1>10. OneAtWork'
  BY <1>5 DEF OneAtWork, RuntimeShape
<1>11. WriterInv'
  BY <1>1, <1>4, <1>5, <1>6 DEF WriterInv, SetupsInv, WritingSteps, Runtime!Alive
<1>12. CopyInv'
  BY <1>4, <1>5, <1>6 DEF CopyInv, WritingSteps
<1>13. RuntimeLockInv'
  BY <1>1, <1>4, <1>5, <1>6 DEF RuntimeLockInv, Runtime!Alive, Runtime!AtWork, RuntimeShape
<1>14. Runtime!ReadyIsVerified'
  BY <1>1, <1>6 DEF Runtime!ReadyIsVerified
<1> QED
  BY <1>2, <1>3, <1>7, <1>8, <1>9, <1>10, <1>11, <1>12, <1>13, <1>14 DEF RuntimeInv

\* Runtime!Inspect keeps RuntimeInv.
LEMMA RuntimeInspectKeeps ==
  ASSUME RuntimeInv, Runtime!PreparationAssumption, NEW r \in Runtime!Setup, Runtime!Alive,
         Runtime!Inspect(r)
  PROVE  RuntimeInv'
<1>1. /\ Runtime!TypeOK /\ RuntimeTypes /\ PrepareInv /\ RuntimeFileInv /\ SetupsInv /\ OneAtWork
      /\ WriterInv /\ CopyInv /\ RuntimeLockInv /\ Runtime!ReadyIsVerified /\ RuntimeShape
  BY RuntimeShapeHolds DEF RuntimeInv
<1>2. Runtime!TypeOK'
  BY <1>1
    DEF Runtime!Inspect, Runtime!Move, Runtime!Preparing, Runtime!TypeOK, RuntimeShape,
        Runtime!AtWork, Runtime!Ended, Runtime!document, Runtime!files, Runtime!jobs,
        Runtime!Setup, Runtime!PreparationAssumption, Runtime!NoSetup
<1>3. RuntimeTypes'
  BY <1>1 DEF Runtime!Inspect, Runtime!Move, Runtime!Preparing, RuntimeTypes, RuntimeShape
<1>4. job'[r] = job'[r] /\ job[r] = "inspect" /\ \A q \in Runtime!Setup \ {r} : job'[q] = job[q]
  BY <1>1 DEF Runtime!Inspect, Runtime!Move, Runtime!TypeOK
<1>5. /\ job'[r] \in {"copy", "finish cancelled", "finish failed"}
      /\ (job'[r] = "copy" => target[r] # NoVersion)
  BY <1>1, <1>4
    DEF Runtime!Inspect, Runtime!Move, Runtime!TypeOK, Runtime!document, Runtime!files,
        Runtime!jobs
<1>6. /\ job[r] \in Runtime!AtWork
      /\ \A q \in Runtime!Setup \ {r} :
           /\ job[q] \notin Runtime!AtWork \cup WritingSteps
           /\ job'[q] \notin Runtime!AtWork \cup WritingSteps
  BY <1>1, <1>4, <1>5 DEF OneAtWork, Runtime!AtWork, WritingSteps, Runtime!jobs, RuntimeShape
<1>7. UNCHANGED <<runtime, acceptance, installed, binary, verification, serving, server,
                  preparer, gate, target, flagged, flock, held, slips>>
  BY DEF Runtime!Inspect, Runtime!document, Runtime!files, Runtime!jobs
<1>8. PrepareInv'
  BY <1>1, <1>4, <1>5, <1>6, <1>7 DEF PrepareInv, Runtime!Locked, Runtime!Alive, RuntimeShape
<1>9. RuntimeFileInv'
  BY <1>1, <1>4, <1>5, <1>6, <1>7
    DEF RuntimeFileInv, Runtime!Idle, RuntimeBusy, Runtime!Alive, RuntimeShape
<1>10. SetupsInv'
  BY <1>1, <1>4, <1>7 DEF SetupsInv, AdmittedSteps, WritingSteps
<1>11. OneAtWork'
  BY <1>6 DEF OneAtWork
<1>12. WriterInv'
  BY <1>1, <1>4, <1>7 DEF WriterInv, SetupsInv, WritingSteps, Runtime!Alive, RuntimeShape
<1>13. CopyInv'
  BY <1>5, <1>6, <1>7 DEF CopyInv, WritingSteps, RuntimeShape
<1>14. RuntimeLockInv'
  BY <1>1, <1>4, <1>5, <1>6, <1>7 DEF RuntimeLockInv, Runtime!Alive, Runtime!AtWork, RuntimeShape
<1>15. Runtime!ReadyIsVerified'
  BY <1>1, <1>7 DEF Runtime!ReadyIsVerified
<1> QED
  BY <1>2, <1>3, <1>8, <1>9, <1>10, <1>11, <1>12, <1>13, <1>14, <1>15 DEF RuntimeInv

\* Runtime!Check keeps RuntimeInv.
LEMMA RuntimeCheckKeeps ==
  ASSUME RuntimeInv, Runtime!PreparationAssumption, NEW r \in Runtime!Setup, Runtime!Alive,
         Runtime!Check(r)
  PROVE  RuntimeInv'
<1>1. /\ Runtime!TypeOK /\ RuntimeTypes /\ PrepareInv /\ RuntimeFileInv /\ SetupsInv /\ OneAtWork
      /\ WriterInv /\ CopyInv /\ RuntimeLockInv /\ Runtime!ReadyIsVerified /\ RuntimeShape
  BY RuntimeShapeHolds DEF RuntimeInv
<1>2. Runtime!TypeOK'
  BY <1>1
    DEF Runtime!Check, Runtime!Move, Runtime!Preparing, Runtime!TypeOK, RuntimeShape,
        Runtime!AtWork, Runtime!Ended, Runtime!document, Runtime!files, Runtime!jobs,
        Runtime!Setup, Runtime!PreparationAssumption, Runtime!NoSetup
<1>3. RuntimeTypes'
  BY <1>1 DEF Runtime!Check, Runtime!Move, Runtime!Preparing, RuntimeTypes, RuntimeShape
<1>4. job'[r] = job'[r] /\ job[r] = "check" /\ \A q \in Runtime!Setup \ {r} : job'[q] = job[q]
  BY <1>1 DEF Runtime!Check, Runtime!Move, Runtime!TypeOK
<1>5. job'[r] \in {"finish cancelled", "finish succeeded"}
  BY <1>1, <1>4
    DEF Runtime!Check, Runtime!Move, Runtime!TypeOK, Runtime!document, Runtime!files,
        Runtime!jobs
<1>6. /\ job[r] \in Runtime!AtWork
      /\ \A q \in Runtime!Setup \ {r} :
           /\ job[q] \notin Runtime!AtWork \cup WritingSteps
           /\ job'[q] \notin Runtime!AtWork \cup WritingSteps
  BY <1>1, <1>4, <1>5 DEF OneAtWork, Runtime!AtWork, WritingSteps, Runtime!jobs, RuntimeShape
<1>7. UNCHANGED <<runtime, acceptance, installed, binary, verification, serving, server,
                  preparer, gate, target, flagged, flock, held, slips>>
  BY DEF Runtime!Check, Runtime!document, Runtime!files, Runtime!jobs
<1>8. PrepareInv'
  BY <1>1, <1>4, <1>5, <1>6, <1>7 DEF PrepareInv, Runtime!Locked, Runtime!Alive, RuntimeShape
<1>9. RuntimeFileInv'
  BY <1>1, <1>4, <1>5, <1>6, <1>7
    DEF RuntimeFileInv, Runtime!Idle, RuntimeBusy, Runtime!Alive, RuntimeShape
<1>10. SetupsInv'
  BY <1>1, <1>4, <1>7 DEF SetupsInv, AdmittedSteps, WritingSteps
<1>11. OneAtWork'
  BY <1>6 DEF OneAtWork
<1>12. WriterInv'
  BY <1>1, <1>4, <1>7 DEF WriterInv, SetupsInv, WritingSteps, Runtime!Alive, RuntimeShape
<1>13. CopyInv'
  BY <1>1, <1>4, <1>7 DEF CopyInv, WritingSteps, RuntimeShape
<1>14. RuntimeLockInv'
  BY <1>1, <1>4, <1>5, <1>6, <1>7 DEF RuntimeLockInv, Runtime!Alive, Runtime!AtWork, RuntimeShape
<1>15. Runtime!ReadyIsVerified'
  BY <1>1, <1>7 DEF Runtime!ReadyIsVerified
<1> QED
  BY <1>2, <1>3, <1>8, <1>9, <1>10, <1>11, <1>12, <1>13, <1>14, <1>15 DEF RuntimeInv

\* Runtime!Copy keeps RuntimeInv.
LEMMA RuntimeCopyKeeps ==
  ASSUME RuntimeInv, Runtime!PreparationAssumption, NEW r \in Runtime!Setup,
         NEW whole \in BOOLEAN, Runtime!Alive, Runtime!Copy(r, whole)
  PROVE  RuntimeInv'
<1>1. /\ Runtime!TypeOK /\ RuntimeTypes /\ PrepareInv /\ RuntimeFileInv /\ SetupsInv /\ OneAtWork
      /\ WriterInv /\ CopyInv /\ RuntimeLockInv /\ Runtime!ReadyIsVerified /\ RuntimeShape
  BY RuntimeShapeHolds DEF RuntimeInv
<1>2. Runtime!TypeOK'
  <2>1. runtime' \in [state : {"not_prepared", "preparing", "ready", "failed", "unknown"},
                     revision : Version \cup {NoVersion},
                     pending : Runtime!Setup \cup {Runtime!NoSetup},
                     active : Runtime!Setup \cup {Runtime!NoSetup},
                     step : {"none", "queued", "running", "unknown"},
                     server : 1 .. MaxServers]
    BY <1>1
      DEF Runtime!Copy, Runtime!Move, Runtime!Preparing, RuntimeShape, Runtime!TypeOK,
          Runtime!document, Runtime!files, Runtime!jobs, Runtime!Setup,
          Runtime!PreparationAssumption
  <2>2. acceptance' \in [Runtime!Setup -> {"none", "pending", "job", "failed", "unknown"}]
    BY <1>1
      DEF Runtime!Copy, Runtime!Move, Runtime!Preparing, RuntimeShape, Runtime!TypeOK,
          Runtime!document, Runtime!files, Runtime!jobs, Runtime!Setup,
          Runtime!PreparationAssumption
  <2>3. {installed', binary', verification'} \subseteq Version \cup {NoVersion}
    <3>1. target[r] \in Version \cup {NoVersion}
      BY <1>1 DEF RuntimeTypes
    <3>2. /\ binary' \in {binary, target[r]} /\ installed' = installed
          /\ verification' = verification
      BY DEF Runtime!Copy
    <3> QED
      BY <1>1, <3>1, <3>2 DEF Runtime!TypeOK
  <2>4. job' \in [Runtime!Setup -> {"none", "queued"} \cup Runtime!AtWork \cup Runtime!Ended]
    <3>1. PICK x \in {"verify", "finish failed", "finish cancelled"} : job' = [job EXCEPT ![r] = x]
      BY DEF Runtime!Copy, Runtime!Move
    <3> QED
      BY <1>1, <3>1 DEF Runtime!TypeOK, Runtime!AtWork
  <2>5. flock' \in Runtime!Setup \cup {Runtime!NoSetup} /\ held' \subseteq Runtime!Setup
    BY <1>1 DEF Runtime!Copy, Runtime!Move, Runtime!Preparing, RuntimeShape, Runtime!TypeOK
  <2>6. slips' \in 0 .. MaxSlips
    BY <1>1 DEF Runtime!Copy, Runtime!Move, Runtime!Preparing, RuntimeShape, Runtime!TypeOK
  <2> QED
    BY <2>1, <2>2, <2>3, <2>4, <2>5, <2>6 DEF Runtime!TypeOK
<1>3. RuntimeTypes'
  BY <1>1 DEF Runtime!Copy, Runtime!Move, Runtime!Preparing, RuntimeTypes, RuntimeShape
<1>4. job'[r] = job'[r] /\ job[r] = "copy" /\ \A q \in Runtime!Setup \ {r} : job'[q] = job[q]
  BY <1>1 DEF Runtime!Copy, Runtime!Move, Runtime!TypeOK
<1>5. \/ job'[r] \in {"finish failed", "finish cancelled"} /\ binary' = binary
      \/ job'[r] = "verify" /\ binary' = target[r]
  BY <1>1, <1>4
    DEF Runtime!Copy, Runtime!Move, Runtime!TypeOK, Runtime!document, Runtime!files,
        Runtime!jobs
<1>6. /\ job[r] \in Runtime!AtWork
      /\ \A q \in Runtime!Setup \ {r} :
           /\ job[q] \notin Runtime!AtWork \cup WritingSteps
           /\ job'[q] \notin Runtime!AtWork \cup WritingSteps
  BY <1>1, <1>4, <1>5 DEF OneAtWork, Runtime!AtWork, WritingSteps, Runtime!jobs, RuntimeShape
<1>7. UNCHANGED <<runtime, acceptance, installed, verification, serving, server, preparer, gate,
                  target, flagged, flock, held, slips>>
  BY DEF Runtime!Copy, Runtime!document
<1>8. PrepareInv'
  BY <1>1, <1>4, <1>5, <1>6, <1>7 DEF PrepareInv, Runtime!Locked, Runtime!Alive, RuntimeShape
<1>9. RuntimeFileInv'
  BY <1>1, <1>4, <1>5, <1>6, <1>7
    DEF RuntimeFileInv, Runtime!Idle, RuntimeBusy, Runtime!Alive, RuntimeShape
<1>10. SetupsInv'
  BY <1>1, <1>4, <1>7 DEF SetupsInv, AdmittedSteps, WritingSteps
<1>11. OneAtWork'
  BY <1>6 DEF OneAtWork
<1>12. WriterInv'
  BY <1>1, <1>4, <1>7 DEF WriterInv, SetupsInv, WritingSteps, Runtime!Alive, RuntimeShape
<1>13. CopyInv'
  BY <1>1, <1>4, <1>5, <1>6, <1>7 DEF CopyInv, Runtime!AtWork, WritingSteps
<1>14. RuntimeLockInv'
  BY <1>1, <1>4, <1>5, <1>6, <1>7 DEF RuntimeLockInv, Runtime!Alive, Runtime!AtWork, RuntimeShape
<1>15. Runtime!ReadyIsVerified'
  BY <1>1, <1>4, <1>5, <1>6, <1>7
    DEF Runtime!ReadyIsVerified, WriterInv, WritingSteps, Runtime!Alive, RuntimeFileInv,
        Runtime!Idle, RuntimeShape
<1> QED
  BY <1>2, <1>3, <1>8, <1>9, <1>10, <1>11, <1>12, <1>13, <1>14, <1>15 DEF RuntimeInv

\* Runtime!Verify keeps RuntimeInv.
LEMMA RuntimeVerifyKeeps ==
  ASSUME RuntimeInv, Runtime!PreparationAssumption, NEW r \in Runtime!Setup,
         NEW whole \in BOOLEAN, Runtime!Alive, Runtime!Verify(r, whole)
  PROVE  RuntimeInv'
<1>1. /\ Runtime!TypeOK /\ RuntimeTypes /\ PrepareInv /\ RuntimeFileInv /\ SetupsInv /\ OneAtWork
      /\ WriterInv /\ CopyInv /\ RuntimeLockInv /\ Runtime!ReadyIsVerified /\ RuntimeShape
  BY RuntimeShapeHolds DEF RuntimeInv
<1>2. Runtime!TypeOK'
  <2>1. runtime' \in [state : {"not_prepared", "preparing", "ready", "failed", "unknown"},
                     revision : Version \cup {NoVersion},
                     pending : Runtime!Setup \cup {Runtime!NoSetup},
                     active : Runtime!Setup \cup {Runtime!NoSetup},
                     step : {"none", "queued", "running", "unknown"},
                     server : 1 .. MaxServers]
    BY <1>1
      DEF Runtime!Verify, Runtime!Move, Runtime!Preparing, RuntimeShape, Runtime!TypeOK,
          Runtime!document, Runtime!files, Runtime!jobs, Runtime!Setup,
          Runtime!PreparationAssumption
  <2>2. acceptance' \in [Runtime!Setup -> {"none", "pending", "job", "failed", "unknown"}]
    BY <1>1
      DEF Runtime!Verify, Runtime!Move, Runtime!Preparing, RuntimeShape, Runtime!TypeOK,
          Runtime!document, Runtime!files, Runtime!jobs, Runtime!Setup,
          Runtime!PreparationAssumption
  <2>3. {installed', binary', verification'} \subseteq Version \cup {NoVersion}
    <3>1. target[r] \in Version \cup {NoVersion}
      BY <1>1 DEF RuntimeTypes
    <3>2. /\ verification' \in {verification, target[r]} /\ installed' = installed
          /\ binary' = binary
      BY DEF Runtime!Verify
    <3> QED
      BY <1>1, <3>1, <3>2 DEF Runtime!TypeOK
  <2>4. job' \in [Runtime!Setup -> {"none", "queued"} \cup Runtime!AtWork \cup Runtime!Ended]
    <3>1. PICK x \in {"check", "finish failed"} : job' = [job EXCEPT ![r] = x]
      BY DEF Runtime!Verify, Runtime!Move
    <3> QED
      BY <1>1, <3>1 DEF Runtime!TypeOK, Runtime!AtWork
  <2>5. flock' \in Runtime!Setup \cup {Runtime!NoSetup} /\ held' \subseteq Runtime!Setup
    BY <1>1 DEF Runtime!Verify, Runtime!Move, Runtime!Preparing, RuntimeShape, Runtime!TypeOK
  <2>6. slips' \in 0 .. MaxSlips
    BY <1>1 DEF Runtime!Verify, Runtime!Move, Runtime!Preparing, RuntimeShape, Runtime!TypeOK
  <2> QED
    BY <2>1, <2>2, <2>3, <2>4, <2>5, <2>6 DEF Runtime!TypeOK
<1>3. RuntimeTypes'
  BY <1>1 DEF Runtime!Verify, Runtime!Move, Runtime!Preparing, RuntimeTypes, RuntimeShape
<1>4. job'[r] = job'[r] /\ job[r] = "verify" /\ \A q \in Runtime!Setup \ {r} : job'[q] = job[q]
  BY <1>1 DEF Runtime!Verify, Runtime!Move, Runtime!TypeOK
<1>5. \/ job'[r] = "finish failed" /\ verification' = verification
      \/ job'[r] = "check" /\ verification' = target[r]
  BY <1>1, <1>4
    DEF Runtime!Verify, Runtime!Move, Runtime!TypeOK, Runtime!document, Runtime!files,
        Runtime!jobs
<1>6. /\ job[r] \in Runtime!AtWork
      /\ \A q \in Runtime!Setup \ {r} :
           /\ job[q] \notin Runtime!AtWork \cup WritingSteps
           /\ job'[q] \notin Runtime!AtWork \cup WritingSteps
  BY <1>1, <1>4, <1>5 DEF OneAtWork, Runtime!AtWork, WritingSteps, Runtime!jobs, RuntimeShape
<1>7. UNCHANGED <<runtime, acceptance, installed, binary, serving, server, preparer, gate,
                  target, flagged, flock, held, slips>>
  BY DEF Runtime!Verify, Runtime!document
<1>8. PrepareInv'
  BY <1>1, <1>4, <1>5, <1>6, <1>7 DEF PrepareInv, Runtime!Locked, Runtime!Alive, RuntimeShape
<1>9. RuntimeFileInv'
  BY <1>1, <1>4, <1>5, <1>6, <1>7
    DEF RuntimeFileInv, Runtime!Idle, RuntimeBusy, Runtime!Alive, RuntimeShape
<1>10. SetupsInv'
  BY <1>1, <1>4, <1>7 DEF SetupsInv, AdmittedSteps, WritingSteps
<1>11. OneAtWork'
  BY <1>6 DEF OneAtWork
<1>12. WriterInv'
  BY <1>1, <1>4, <1>7 DEF WriterInv, SetupsInv, WritingSteps, Runtime!Alive, RuntimeShape
<1>13. CopyInv'
  BY <1>1, <1>4, <1>5, <1>6, <1>7 DEF CopyInv, Runtime!AtWork, WritingSteps
<1>14. RuntimeLockInv'
  BY <1>1, <1>4, <1>5, <1>6, <1>7 DEF RuntimeLockInv, Runtime!Alive, Runtime!AtWork, RuntimeShape
<1>15. Runtime!ReadyIsVerified'
  BY <1>1, <1>4, <1>5, <1>6, <1>7
    DEF Runtime!ReadyIsVerified, WriterInv, WritingSteps, Runtime!Alive, RuntimeFileInv,
        Runtime!Idle, RuntimeShape
<1> QED
  BY <1>2, <1>3, <1>8, <1>9, <1>10, <1>11, <1>12, <1>13, <1>14, <1>15 DEF RuntimeInv

\* Runtime!Submit keeps RuntimeInv.
LEMMA RuntimeSubmitKeeps ==
  ASSUME RuntimeInv, Runtime!PreparationAssumption, Runtime!Submit
  PROVE  RuntimeInv'
<1>1. /\ Runtime!TypeOK /\ RuntimeTypes /\ PrepareInv /\ RuntimeFileInv /\ SetupsInv /\ OneAtWork
      /\ WriterInv /\ CopyInv /\ RuntimeLockInv /\ Runtime!ReadyIsVerified /\ RuntimeShape
  BY RuntimeShapeHolds DEF RuntimeInv
<1>2. Runtime!TypeOK'
  BY <1>1
    DEF Runtime!Submit, Runtime!Preparing, RuntimeShape, Runtime!TypeOK, Runtime!AtWork,
        Runtime!Ended, Runtime!document, Runtime!files, Runtime!jobs, Runtime!Setup,
        Runtime!PreparationAssumption
<1>3. RuntimeTypes'
  BY <1>1 DEF Runtime!Submit, Runtime!Preparing, RuntimeShape, RuntimeTypes
<1>4. /\ job'[preparer.request] = "queued" /\ job[preparer.request] = "none"
      /\ \A q \in Runtime!Setup \ {preparer.request} : job'[q] = job[q]
  BY <1>1
    DEF Runtime!Submit, Runtime!TypeOK, PrepareInv, Runtime!Locked, Runtime!document,
        Runtime!files, Runtime!jobs
<1>5. preparer'.pc = "submitted" /\ preparer'.request = preparer.request
  BY DEF Runtime!Submit, Runtime!Preparing
<1>6. preparer.pc = "accepted"
  BY DEF Runtime!Submit
<1>7. \A q \in Runtime!Setup : job'[q] \in Runtime!AtWork => job[q] \in Runtime!AtWork
  BY <1>1, <1>4 DEF Runtime!AtWork, Runtime!document, Runtime!files, Runtime!jobs
<1>8. UNCHANGED <<runtime, acceptance, installed, binary, verification, serving, server, gate,
                  target, flagged, flock, held, slips>>
  BY DEF Runtime!Submit, Runtime!document, Runtime!files, Runtime!jobs
<1>9. PrepareInv'
  BY <1>1, <1>4, <1>5, <1>6, <1>7, <1>8
    DEF PrepareInv, Runtime!Locked, Runtime!Alive, RuntimeShape
<1>10. RuntimeFileInv'
  BY <1>1, <1>4, <1>5, <1>6, <1>7, <1>8
    DEF RuntimeFileInv, Runtime!Idle, RuntimeBusy, Runtime!Alive, RuntimeShape
<1>11. SetupsInv'
  BY <1>1, <1>4, <1>5, <1>6, <1>7, <1>8
    DEF SetupsInv, PrepareInv, Runtime!Locked, AdmittedSteps, WritingSteps, RuntimeShape
<1>12. OneAtWork'
  BY <1>1, <1>4, <1>7, <1>8 DEF OneAtWork, RuntimeShape
<1>13. WriterInv'
  BY <1>1, <1>4, <1>5, <1>6, <1>7, <1>8
    DEF WriterInv, PrepareInv, Runtime!Locked, WritingSteps, Runtime!Alive, RuntimeShape
<1>14. CopyInv'
  BY <1>1, <1>4, <1>7, <1>8 DEF CopyInv, WritingSteps
<1>15. RuntimeLockInv'
  BY <1>1, <1>4, <1>5, <1>6, <1>7, <1>8
    DEF RuntimeLockInv, Runtime!Alive, Runtime!AtWork, RuntimeShape
<1>16. Runtime!ReadyIsVerified'
  BY <1>1, <1>8 DEF Runtime!ReadyIsVerified
<1> QED
  BY <1>2, <1>3, <1>9, <1>10, <1>11, <1>12, <1>13, <1>14, <1>15, <1>16 DEF RuntimeInv

\* Runtime!SubmitRefused keeps RuntimeInv.
LEMMA RuntimeSubmitRefusedKeeps ==
  ASSUME RuntimeInv, Runtime!PreparationAssumption, Runtime!SubmitRefused
  PROVE  RuntimeInv'
<1>1. /\ Runtime!TypeOK /\ RuntimeTypes /\ PrepareInv /\ RuntimeFileInv /\ SetupsInv /\ OneAtWork
      /\ WriterInv /\ CopyInv /\ RuntimeLockInv /\ Runtime!ReadyIsVerified /\ RuntimeShape
  BY RuntimeShapeHolds DEF RuntimeInv
<1>2. Runtime!TypeOK'
  BY <1>1
    DEF Runtime!SubmitRefused, Runtime!Preparing, RuntimeShape, Runtime!TypeOK, Runtime!AtWork,
        Runtime!Ended, Runtime!document, Runtime!files, Runtime!jobs, Runtime!Setup,
        Runtime!PreparationAssumption
<1>3. RuntimeTypes'
  BY <1>1
    DEF Runtime!SubmitRefused, Runtime!Preparing, RuntimeShape, RuntimeTypes, Runtime!document,
        Runtime!files, Runtime!jobs, Runtime!Setup, Runtime!PreparationAssumption
<1>4. /\ runtime'.state = "failed" /\ runtime'.revision = runtime.revision
      /\ runtime'.pending = Runtime!NoSetup /\ runtime'.active = runtime.active
      /\ runtime'.step = runtime.step /\ runtime'.server = runtime.server
      /\ runtime.pending = preparer.request
  BY <1>1 DEF Runtime!SubmitRefused, Runtime!TypeOK, PrepareInv, Runtime!Locked
<1>5. /\ acceptance'[preparer.request] = "failed" /\ job[preparer.request] = "none"
      /\ \A q \in Runtime!Setup \ {preparer.request} : acceptance'[q] = acceptance[q]
  BY <1>1, <1>4
    DEF Runtime!SubmitRefused, Runtime!TypeOK, PrepareInv, Runtime!Locked, Runtime!jobs,
        RuntimeShape
<1>6. preparer'.pc = "abort" /\ preparer'.request = preparer.request
  BY <1>5
    DEF Runtime!SubmitRefused, Runtime!Preparing, Runtime!document, Runtime!files, Runtime!jobs
<1>7. preparer.pc = "accepted"
  BY DEF Runtime!SubmitRefused, Runtime!document
<1>8. UNCHANGED <<installed, binary, verification, serving, server, gate, job, target, flagged,
                  flock, held, slips>>
  BY DEF Runtime!SubmitRefused, Runtime!document, Runtime!files, Runtime!jobs
<1>9. PrepareInv'
  BY <1>1, <1>4, <1>5, <1>6, <1>7, <1>8
    DEF PrepareInv, Runtime!Locked, Runtime!Alive, RuntimeShape
<1>10. RuntimeFileInv'
  BY <1>1, <1>4, <1>7, <1>8 DEF RuntimeFileInv, Runtime!Idle, RuntimeBusy, Runtime!Alive
<1>11. SetupsInv'
  BY <1>1, <1>4, <1>5, <1>6, <1>7, <1>8
    DEF SetupsInv, PrepareInv, Runtime!Locked, AdmittedSteps, WritingSteps, RuntimeShape
<1>12. WriterInv'
  BY <1>1, <1>4, <1>8 DEF WriterInv, Runtime!Alive
<1>13. RuntimeLockInv'
  BY <1>1, <1>4, <1>5, <1>6, <1>7, <1>8
    DEF RuntimeLockInv, Runtime!Alive, Runtime!AtWork, RuntimeShape
<1>14. Runtime!ReadyIsVerified'
  BY <1>1, <1>4 DEF Runtime!ReadyIsVerified, RuntimeShape
<1>15. OneAtWork' /\ CopyInv'
  BY <1>1, <1>8 DEF OneAtWork, CopyInv
<1> QED
  BY <1>2, <1>3, <1>9, <1>10, <1>11, <1>15, <1>12, <1>13, <1>14 DEF RuntimeInv

\* Runtime!Release keeps RuntimeInv.
LEMMA RuntimeReleaseKeeps ==
  ASSUME RuntimeInv, Runtime!PreparationAssumption, Runtime!Release
  PROVE  RuntimeInv'
<1>1. /\ Runtime!TypeOK /\ RuntimeTypes /\ PrepareInv /\ RuntimeFileInv /\ SetupsInv /\ OneAtWork
      /\ WriterInv /\ CopyInv /\ RuntimeLockInv /\ Runtime!ReadyIsVerified /\ RuntimeShape
  BY RuntimeShapeHolds DEF RuntimeInv
<1>2. Runtime!TypeOK'
  BY <1>1
    DEF Runtime!Release, Runtime!Preparing, RuntimeShape, Runtime!TypeOK, Runtime!AtWork,
        Runtime!Ended, Runtime!document, Runtime!files, Runtime!jobs, Runtime!Setup,
        Runtime!PreparationAssumption
<1>3. RuntimeTypes'
  BY <1>1 DEF Runtime!Release, Runtime!Preparing, RuntimeShape, RuntimeTypes
<1>4. preparer'.pc = "idle" /\ preparer'.request = Runtime!NoSetup
  BY DEF Runtime!Release, Runtime!Preparing
<1>5. /\ preparer.pc = "release" /\ flock = preparer.request /\ preparer.request \notin held
      /\ gate[preparer.request] # "accepted"
  BY <1>1 DEF Runtime!Release, PrepareInv
<1>6. /\ flock' = Runtime!NoSetup /\ gate'[preparer.request] = "refused"
      /\ \A q \in Runtime!Setup \ {preparer.request} : gate'[q] = gate[q]
  BY <1>1, <1>4, <1>5
    DEF Runtime!Release, RuntimeTypes, Runtime!document, Runtime!files, Runtime!jobs,
        RuntimeShape
<1>7. held = {}
  BY <1>1, <1>4, <1>5, <1>6 DEF RuntimeLockInv, Runtime!document, Runtime!files, Runtime!jobs
<1>8. UNCHANGED <<runtime, acceptance, installed, binary, verification, serving, server, job,
                  target, flagged, held, slips>>
  BY DEF Runtime!Release, Runtime!document, Runtime!files, Runtime!jobs
<1>9. PrepareInv'
  BY <1>1, <1>4 DEF PrepareInv, Runtime!Locked, Runtime!Alive, RuntimeShape
<1>10. RuntimeFileInv'
  BY <1>1, <1>4, <1>5, <1>6, <1>7, <1>8
    DEF RuntimeFileInv, PrepareInv, Runtime!Idle, RuntimeBusy, Runtime!Alive, RuntimeShape
<1>11. SetupsInv'
  BY <1>1, <1>4, <1>5, <1>6, <1>7, <1>8 DEF SetupsInv, AdmittedSteps, WritingSteps, RuntimeShape
<1>12. WriterInv'
  BY <1>1, <1>4, <1>5, <1>6, <1>7, <1>8 DEF WriterInv, SetupsInv, WritingSteps, Runtime!Alive
<1>13. RuntimeLockInv'
  BY <1>1, <1>4, <1>5, <1>6, <1>7, <1>8
    DEF RuntimeLockInv, Runtime!Alive, Runtime!AtWork, RuntimeShape
<1>14. OneAtWork' /\ CopyInv' /\ Runtime!ReadyIsVerified'
  BY <1>1, <1>8 DEF OneAtWork, CopyInv, Runtime!ReadyIsVerified
<1> QED
  BY <1>2, <1>3, <1>9, <1>10, <1>11, <1>14, <1>12, <1>13 DEF RuntimeInv

\* Runtime!Accept keeps RuntimeInv.
LEMMA RuntimeAcceptKeeps ==
  ASSUME RuntimeInv, Runtime!PreparationAssumption, NEW saved \in BOOLEAN,
         NEW written \in BOOLEAN, Runtime!Accept(saved, written)
  PROVE  RuntimeInv'
<1>1. /\ Runtime!TypeOK /\ RuntimeTypes /\ PrepareInv /\ RuntimeFileInv /\ SetupsInv /\ OneAtWork
      /\ WriterInv /\ CopyInv /\ RuntimeLockInv /\ Runtime!ReadyIsVerified /\ RuntimeShape
  BY RuntimeShapeHolds DEF RuntimeInv
<1>2. Runtime!TypeOK'
  <2>1. runtime' \in [state : {"not_prepared", "preparing", "ready", "failed", "unknown"},
                     revision : Version \cup {NoVersion},
                     pending : Runtime!Setup \cup {Runtime!NoSetup},
                     active : Runtime!Setup \cup {Runtime!NoSetup},
                     step : {"none", "queued", "running", "unknown"},
                     server : 1 .. MaxServers]
    BY <1>1 DEF Runtime!Accept, Runtime!Preparing, Runtime!Slip, RuntimeShape, Runtime!TypeOK
  <2>2. acceptance' \in [Runtime!Setup -> {"none", "pending", "job", "failed", "unknown"}]
    BY <1>1 DEF Runtime!Accept, Runtime!Preparing, Runtime!Slip, RuntimeShape, Runtime!TypeOK
  <2>3. {installed', binary', verification'} \subseteq Version \cup {NoVersion}
    BY <1>1
      DEF Runtime!Accept, Runtime!Preparing, Runtime!Slip, RuntimeShape, Runtime!TypeOK,
          Runtime!document, Runtime!files, Runtime!jobs, Runtime!Setup,
          Runtime!PreparationAssumption
  <2>4. job' \in [Runtime!Setup -> {"none", "queued"} \cup Runtime!AtWork \cup Runtime!Ended]
    BY <1>1 DEF Runtime!Accept, Runtime!Preparing, Runtime!Slip, RuntimeShape, Runtime!TypeOK
  <2>5. flock' \in Runtime!Setup \cup {Runtime!NoSetup} /\ held' \subseteq Runtime!Setup
    <3>1. held' \in {held, held \cup {preparer.request}} /\ flock' = flock
      BY DEF Runtime!Accept
    <3>2. preparer.request \in Runtime!Setup
      BY <1>1 DEF Runtime!Accept, RuntimeShape
    <3> QED
      BY <1>1, <3>1, <3>2 DEF Runtime!TypeOK
  <2>6. slips' \in 0 .. MaxSlips
    <3>1. slips' = slips \/ (slips < MaxSlips /\ slips' = slips + 1)
      BY DEF Runtime!Accept, Runtime!Slip
    <3> QED
      BY <1>1, <3>1 DEF Runtime!TypeOK, Runtime!PreparationAssumption
  <2> QED
    BY <2>1, <2>2, <2>3, <2>4, <2>5, <2>6 DEF Runtime!TypeOK
<1>3. RuntimeTypes'
  BY <1>1 DEF Runtime!Accept, Runtime!Preparing, Runtime!Slip, RuntimeShape, RuntimeTypes
<1>4. /\ preparer.pc = "submitted" /\ runtime.pending = preparer.request
      /\ runtime.server = server /\ acceptance[preparer.request] = "pending"
      /\ job[preparer.request] # "none" /\ Runtime!Alive /\ flock = preparer.request
      /\ preparer.request \notin held /\ gate[preparer.request] # "accepted"
      /\ preparer.request # Runtime!NoSetup
  BY <1>1 DEF Runtime!Accept, PrepareInv, Runtime!Locked
<1>5. held = {}
  BY <1>1, <1>4 DEF RuntimeLockInv
<1>6. preparer.request \in Runtime!Setup
  BY <1>1, <1>4 DEF RuntimeShape
<1>7. job[preparer.request] \in {"none", "queued"} \cup Runtime!AtWork \cup Runtime!Ended
  BY <1>1, <1>6 DEF RuntimeShape, Runtime!TypeOK
<1>8. job[preparer.request] \notin AdmittedSteps
  BY <1>1, <1>4, <1>6, <1>7 DEF RuntimeShape, SetupsInv
<1>9. job[preparer.request] \in {"queued", "gated", "abandon", "cancelled", "failed"}
  BY <1>1, <1>4, <1>7, <1>8
    DEF RuntimeShape, AdmittedSteps, WritingSteps, Runtime!AtWork, Runtime!Ended
<1>10. CASE saved
  <2>1. /\ runtime'.state = runtime.state /\ runtime'.revision = runtime.revision
        /\ runtime'.pending = Runtime!NoSetup /\ runtime'.active = preparer.request
        /\ runtime'.step = "queued" /\ runtime'.server = runtime.server
    BY <1>1, <1>10, <1>4, <1>8, <1>9 DEF Runtime!Accept, Runtime!jobs, RuntimeShape
  <2>2. /\ acceptance'[preparer.request] = "job"
        /\ \A q \in Runtime!Setup \ {preparer.request} : acceptance'[q] = acceptance[q]
    BY <1>1, <1>10, <1>4
      DEF Runtime!Accept, Runtime!TypeOK, Runtime!document, Runtime!files, Runtime!jobs
  <2>3. preparer'.pc = "idle" /\ preparer'.request = Runtime!NoSetup
    BY <1>1, <1>10, <1>4, <1>5, <2>1, <2>2 DEF Runtime!Accept, Runtime!Preparing
  <2>4. /\ held' = {preparer.request} /\ gate'[preparer.request] = "accepted"
        /\ \A q \in Runtime!Setup \ {preparer.request} : gate'[q] = gate[q]
    BY <1>1, <1>10, <1>4, <1>5, <2>1, <2>2, <2>3
      DEF Runtime!Accept, RuntimeTypes, Runtime!document, Runtime!files, Runtime!jobs
  <2>5. UNCHANGED <<installed, binary, verification, serving, server, job, target, flagged,
                    flock, slips>>
    BY <1>1, <1>10, <1>4, <1>5
      DEF Runtime!Accept, Runtime!Slip, Runtime!document, Runtime!files, Runtime!jobs,
          RuntimeShape
  <2>6. PrepareInv'
    BY <2>3, <2>4, <2>5 DEF PrepareInv, Runtime!Locked, Runtime!Alive
  <2>7. RuntimeFileInv'
    BY <1>1, <1>10, <1>4, <1>5, <1>6, <1>7, <1>8, <1>9, <2>1, <2>2, <2>3, <2>4, <2>5
      DEF RuntimeFileInv, PrepareInv, Runtime!Idle, RuntimeBusy, Runtime!Alive
  <2>8. SetupsInv'
    BY <1>1, <1>10, <1>4, <2>2, <2>3, <2>4, <2>5 DEF SetupsInv
  <2>9. WriterInv'
    BY <1>1, <1>10, <1>4, <1>5, <2>1, <2>2, <2>3, <2>4, <2>5
      DEF WriterInv, SetupsInv, WritingSteps, Runtime!Alive, RuntimeShape
  <2>10. RuntimeLockInv'
    BY <1>1, <1>10, <1>4, <1>5, <1>6, <1>7, <1>8, <1>9, <2>1, <2>2, <2>3, <2>4, <2>5
      DEF RuntimeLockInv, Runtime!Alive, Runtime!AtWork
  <2>11. Runtime!ReadyIsVerified'
    BY <1>1, <1>10, <1>4, <1>8, <1>9, <2>1, <2>2, <2>3, <2>4, <2>5 DEF Runtime!ReadyIsVerified
  <2>12. OneAtWork' /\ CopyInv'
    BY <1>1, <2>5 DEF OneAtWork, CopyInv
  <2> QED
    BY <1>2, <1>3, <2>6, <2>7, <2>8, <2>12, <2>9, <2>10, <2>11 DEF RuntimeInv
<1>11. CASE ~saved /\ written
  <2>1. /\ runtime'.state = runtime.state /\ runtime'.revision = runtime.revision
        /\ runtime'.pending = Runtime!NoSetup /\ runtime'.active = preparer.request
        /\ runtime'.step = "queued" /\ runtime'.server = runtime.server
    BY <1>1, <1>11, <1>4, <1>8, <1>9 DEF Runtime!Accept, Runtime!jobs, RuntimeShape
  <2>2. /\ acceptance'[preparer.request] = "job"
        /\ \A q \in Runtime!Setup \ {preparer.request} : acceptance'[q] = acceptance[q]
    BY <1>1, <1>11, <1>4
      DEF Runtime!Accept, Runtime!TypeOK, Runtime!document, Runtime!files, Runtime!jobs
  <2>3. preparer'.pc = "abort" /\ preparer'.request = preparer.request
    BY <1>1, <1>11, <1>4, <1>5, <2>1, <2>2 DEF Runtime!Accept, Runtime!Preparing
  <2>4. slips' = slips + 1
    BY <1>1, <1>11, <1>4, <1>5, <2>1, <2>2, <2>3
      DEF Runtime!Accept, Runtime!Slip, Runtime!document, Runtime!files, Runtime!jobs
  <2>5. UNCHANGED <<installed, binary, verification, serving, server, gate, job, target, flagged,
                    flock, held>>
    BY <1>1, <1>11, <1>4, <1>5 DEF Runtime!Accept, Runtime!document, Runtime!files, Runtime!jobs
  <2>6. PrepareInv'
    BY <1>1, <1>11, <1>4, <1>5, <2>1, <2>2, <2>3, <2>4, <2>5
      DEF PrepareInv, Runtime!Locked, Runtime!Alive
  <2>7. RuntimeFileInv'
    BY <1>1, <1>11, <1>4, <1>5, <1>6, <1>7, <1>8, <1>9, <2>1, <2>2, <2>3, <2>4, <2>5
      DEF RuntimeFileInv, Runtime!Idle, RuntimeBusy, Runtime!Alive, RuntimeShape
  <2>8. SetupsInv'
    BY <1>1, <1>11, <1>4, <1>5, <1>6, <1>7, <1>8, <1>9, <2>1, <2>2, <2>3, <2>4, <2>5
      DEF SetupsInv, AdmittedSteps, WritingSteps, RuntimeShape
  <2>9. WriterInv'
    BY <1>1, <1>11, <1>4, <1>5, <1>6, <1>7, <1>8, <1>9, <2>1, <2>2, <2>3, <2>4, <2>5
      DEF WriterInv, SetupsInv, WritingSteps, Runtime!Alive, RuntimeShape
  <2>10. RuntimeLockInv'
    BY <1>1, <1>11, <1>4, <1>5, <2>1, <2>2, <2>3, <2>4, <2>5
      DEF RuntimeLockInv, Runtime!Alive, Runtime!AtWork
  <2>11. Runtime!ReadyIsVerified'
    BY <1>1, <1>11, <1>4, <1>8, <1>9, <2>1, <2>2, <2>3, <2>4, <2>5 DEF Runtime!ReadyIsVerified
  <2>12. OneAtWork' /\ CopyInv'
    BY <1>1, <2>5 DEF OneAtWork, CopyInv
  <2> QED
    BY <1>2, <1>3, <2>6, <2>7, <2>8, <2>12, <2>9, <2>10, <2>11 DEF RuntimeInv
<1>12. CASE ~saved /\ ~written
  <2>1. preparer'.pc = "abort" /\ preparer'.request = preparer.request
    BY <1>1, <1>12, <1>4, <1>8, <1>9
      DEF Runtime!Accept, Runtime!Preparing, Runtime!document, Runtime!files, Runtime!jobs,
          RuntimeShape
  <2>2. slips' = slips + 1 /\ slips \in Nat
    BY <1>1, <1>12, <1>4, <1>5, <2>1
      DEF Runtime!Accept, Runtime!Slip, Runtime!TypeOK, Runtime!PreparationAssumption,
          Runtime!document, Runtime!files, Runtime!jobs
  <2>3. UNCHANGED <<runtime, acceptance, installed, binary, verification, serving, server, gate,
                    job, target, flagged, flock, held>>
    BY <1>1, <1>12, <1>4, <2>2 DEF Runtime!Accept, Runtime!document, Runtime!files, Runtime!jobs
  <2>4. PrepareInv'
    BY <1>1, <1>12, <1>4, <1>8, <1>9, <2>1, <2>2, <2>3
      DEF PrepareInv, Runtime!Locked, Runtime!Alive
  <2>5. RuntimeFileInv'
    BY <1>1, <1>12, <1>4, <1>5, <2>1, <2>2, <2>3
      DEF RuntimeFileInv, Runtime!Idle, RuntimeBusy, Runtime!Alive, RuntimeShape
  <2>6. RuntimeLockInv'
    BY <1>1, <1>12, <1>4, <1>8, <1>9, <2>1, <2>2, <2>3
      DEF RuntimeLockInv, Runtime!Alive, Runtime!AtWork
  <2>7. SetupsInv' /\ OneAtWork' /\ WriterInv' /\ CopyInv' /\ Runtime!ReadyIsVerified'
    BY <1>1, <2>3
      DEF SetupsInv, OneAtWork, WriterInv, Runtime!Alive, CopyInv, Runtime!ReadyIsVerified
  <2> QED
    BY <1>2, <1>3, <2>4, <2>5, <2>7, <2>6 DEF RuntimeInv
<1> QED
  BY <1>10, <1>11, <1>12, <1>4

\* Runtime!Prepare keeps RuntimeInv.
LEMMA RuntimePrepareKeeps ==
  ASSUME RuntimeInv, Runtime!PreparationAssumption, NEW r \in Runtime!Setup,
         NEW saved \in BOOLEAN, NEW written \in BOOLEAN, Runtime!Prepare(r, saved, written)
  PROVE  RuntimeInv'
<1>1. /\ Runtime!TypeOK /\ RuntimeTypes /\ PrepareInv /\ RuntimeFileInv /\ SetupsInv /\ OneAtWork
      /\ WriterInv /\ CopyInv /\ RuntimeLockInv /\ Runtime!ReadyIsVerified /\ RuntimeShape
  BY RuntimeShapeHolds DEF RuntimeInv
<1>2. Runtime!TypeOK'
  <2>1. runtime' \in [state : {"not_prepared", "preparing", "ready", "failed", "unknown"},
                     revision : Version \cup {NoVersion},
                     pending : Runtime!Setup \cup {Runtime!NoSetup},
                     active : Runtime!Setup \cup {Runtime!NoSetup},
                     step : {"none", "queued", "running", "unknown"},
                     server : 1 .. MaxServers]
    <3>1. Runtime!Candidate \in Version \cup {NoVersion}
      BY <1>1 DEF Runtime!Candidate, Runtime!TypeOK
    <3> QED
      BY <1>1, <3>1 DEF Runtime!Prepare, Runtime!TypeOK, RuntimeTypes
  <2>2. acceptance' \in [Runtime!Setup -> {"none", "pending", "job", "failed", "unknown"}]
    BY <1>1 DEF Runtime!Prepare, Runtime!Preparing, RuntimeShape, Runtime!TypeOK, RuntimeTypes
  <2>3. {installed', binary', verification'} \subseteq Version \cup {NoVersion}
    BY <1>1
      DEF Runtime!Prepare, Runtime!Slip, Runtime!Candidate, Runtime!Preparing, RuntimeShape,
          Runtime!TypeOK, RuntimeTypes, Runtime!AtWork, Runtime!Ended, Runtime!document,
          Runtime!files
  <2>4. job' \in [Runtime!Setup -> {"none", "queued"} \cup Runtime!AtWork \cup Runtime!Ended]
    BY <1>1 DEF Runtime!Prepare, Runtime!Preparing, RuntimeShape, Runtime!TypeOK, RuntimeTypes
  <2>5. flock' \in Runtime!Setup \cup {Runtime!NoSetup} /\ held' \subseteq Runtime!Setup
    BY <1>1 DEF Runtime!Prepare, Runtime!Preparing, RuntimeShape, Runtime!TypeOK, RuntimeTypes
  <2>6. slips' \in 0 .. MaxSlips
    <3>1. slips' = slips \/ (slips < MaxSlips /\ slips' = slips + 1)
      BY DEF Runtime!Prepare, Runtime!Slip
    <3> QED
      BY <1>1, <3>1 DEF Runtime!TypeOK, Runtime!PreparationAssumption
  <2> QED
    BY <2>1, <2>2, <2>3, <2>4, <2>5, <2>6 DEF Runtime!TypeOK
<1>3. RuntimeTypes'
  <2>1. Runtime!Candidate \in Version \cup {NoVersion}
    BY <1>1 DEF Runtime!Candidate, Runtime!TypeOK
  <2>2. target' \in [Runtime!Setup -> Version \cup {NoVersion}]
    BY <1>1, <2>1 DEF Runtime!Prepare, RuntimeTypes
  <2>3. preparer' \in [pc : {"idle", "accepted", "submitted", "abort", "release"},
                     request : Runtime!Setup \cup {Runtime!NoSetup}]
    BY DEF Runtime!Prepare, Runtime!Preparing
  <2> QED
    BY <1>1, <2>2, <2>3 DEF Runtime!Prepare, RuntimeTypes, Runtime!files
<1>4. /\ runtime.pending = Runtime!NoSetup /\ ~RuntimeBusy /\ flock = Runtime!NoSetup /\ held = {}
      /\ Runtime!Alive
      /\ preparer.pc = "idle"
  BY <1>1 DEF RuntimeShape, Runtime!Prepare, Runtime!Idle, RuntimeBusy, RuntimeLockInv
<1>5. acceptance[r] = "none" /\ target[r] = NoVersion
  BY DEF Runtime!Prepare, Runtime!Setup
<1>6. job[r] = "none" /\ gate[r] # "accepted"
  BY <1>1, <1>5 DEF RuntimeShape, SetupsInv
<1>7. preparer'.request = r /\ preparer'.pc = (IF saved THEN "accepted" ELSE "abort")
  BY DEF Runtime!Prepare, Runtime!Preparing
<1>8. target'[r] = Runtime!Candidate /\ \A q \in Runtime!Setup \ {r} : target'[q] = target[q]
  BY <1>1, <1>4 DEF Runtime!Prepare, RuntimeTypes
<1>9. CASE saved
  <2>1. /\ runtime'.state = "preparing" /\ runtime'.revision = Runtime!Candidate
        /\ runtime'.pending = r
        /\ runtime'.active = runtime.active /\ runtime'.step = runtime.step
        /\ runtime'.server = server
    BY <1>1, <1>9, <1>4, <1>8
      DEF Runtime!Prepare, Runtime!TypeOK, Runtime!document, Runtime!files, Runtime!jobs
  <2>2. acceptance'[r] = "pending" /\ \A q \in Runtime!Setup \ {r} : acceptance'[q] = acceptance[q]
    BY <1>1, <1>9, <1>4, <1>8, <2>1
      DEF Runtime!Prepare, Runtime!TypeOK, Runtime!document, Runtime!files, Runtime!jobs,
          RuntimeShape
  <2>3. flock' = r
    BY <2>2 DEF Runtime!Prepare
  <2>4. UNCHANGED <<installed, binary, verification, serving, server, gate, job, flagged, held,
                    slips>>
    BY <1>1, <1>9, <1>4, <2>3 DEF Runtime!Prepare, Runtime!document, Runtime!files, Runtime!jobs
  <2>5. PrepareInv'
    BY <1>1, <1>9, <1>4, <1>5, <1>6, <1>7, <1>8, <2>1, <2>2, <2>3, <2>4
      DEF PrepareInv, Runtime!Locked, Runtime!Alive, RuntimeShape
  <2>6. RuntimeFileInv'
    BY <1>1, <1>9, <1>4, <1>5, <1>6, <1>7, <1>8, <2>1, <2>2, <2>3, <2>4
      DEF RuntimeFileInv, Runtime!Idle, RuntimeBusy, Runtime!Alive, RuntimeShape
  <2>7. SetupsInv'
    BY <1>1, <1>9, <1>4, <1>5, <1>6, <1>7, <1>8, <2>1, <2>2, <2>3, <2>4
      DEF SetupsInv, AdmittedSteps, WritingSteps
  <2>8. WriterInv'
    BY <1>1, <1>9, <1>4, <1>5, <1>6, <1>7, <1>8, <2>1, <2>2, <2>3, <2>4
      DEF WriterInv, SetupsInv, WritingSteps, Runtime!Alive, RuntimeShape
  <2>9. CopyInv'
    BY <1>1, <1>9, <1>4, <1>5, <1>6, <1>7, <1>8, <2>1, <2>2, <2>3, <2>4
      DEF CopyInv, WritingSteps, RuntimeShape
  <2>10. RuntimeLockInv'
    BY <1>1, <1>9, <1>4, <1>5, <1>6, <1>7, <2>3, <2>4
      DEF RuntimeLockInv, Runtime!Alive, Runtime!AtWork
  <2>11. Runtime!ReadyIsVerified'
    BY <2>1, <2>2, <2>3, <2>4 DEF Runtime!ReadyIsVerified
  <2>12. OneAtWork'
    BY <1>1, <2>4 DEF OneAtWork
  <2> QED
    BY <1>2, <1>3, <2>5, <2>6, <2>7, <2>12, <2>8, <2>9, <2>10, <2>11 DEF RuntimeInv
<1>10. CASE ~saved /\ written
  <2>1. /\ runtime'.state = "preparing" /\ runtime'.revision = Runtime!Candidate
        /\ runtime'.pending = r
        /\ runtime'.active = runtime.active /\ runtime'.step = runtime.step
        /\ runtime'.server = server
    BY <1>1, <1>10, <1>4, <1>8
      DEF Runtime!Prepare, Runtime!TypeOK, Runtime!document, Runtime!files, Runtime!jobs
  <2>2. acceptance'[r] = "pending" /\ \A q \in Runtime!Setup \ {r} : acceptance'[q] = acceptance[q]
    BY <1>1, <1>10, <1>4, <1>8, <2>1
      DEF Runtime!Prepare, Runtime!TypeOK, Runtime!document, Runtime!files, Runtime!jobs,
          RuntimeShape
  <2>3. flock' = r /\ slips' = slips + 1 /\ slips \in Nat
    BY <1>1, <1>10, <1>4, <1>5, <2>2
      DEF Runtime!Prepare, Runtime!Slip, Runtime!TypeOK, Runtime!PreparationAssumption,
          Runtime!document, Runtime!files, Runtime!jobs
  <2>4. UNCHANGED <<installed, binary, verification, serving, server, gate, job, flagged, held>>
    BY DEF Runtime!Prepare, Runtime!document, Runtime!files
  <2>5. PrepareInv'
    BY <1>1, <1>10, <1>4, <1>5, <1>6, <1>7, <2>3, <2>4
      DEF PrepareInv, Runtime!Locked, Runtime!Alive, RuntimeShape
  <2>6. RuntimeFileInv'
    BY <1>1, <1>10, <1>4, <1>5, <1>6, <1>7, <1>8, <2>1, <2>2, <2>3, <2>4
      DEF RuntimeFileInv, Runtime!Idle, RuntimeBusy, Runtime!Alive, RuntimeShape
  <2>7. SetupsInv'
    BY <1>1, <1>10, <1>4, <1>5, <1>6, <1>7, <1>8, <2>1, <2>2, <2>3, <2>4
      DEF SetupsInv, AdmittedSteps, WritingSteps
  <2>8. WriterInv'
    BY <1>1, <1>10, <1>4, <1>5, <1>6, <1>7, <1>8, <2>1, <2>2, <2>3, <2>4
      DEF WriterInv, SetupsInv, WritingSteps, Runtime!Alive, RuntimeShape
  <2>9. CopyInv'
    BY <1>1, <1>10, <1>4, <1>5, <1>6, <1>7, <1>8, <2>1, <2>2, <2>3, <2>4
      DEF CopyInv, WritingSteps, RuntimeShape
  <2>10. RuntimeLockInv'
    BY <1>1, <1>10, <1>4, <1>5, <1>6, <1>7, <2>3, <2>4
      DEF RuntimeLockInv, Runtime!Alive, Runtime!AtWork
  <2>11. Runtime!ReadyIsVerified'
    BY <2>1, <2>2, <2>3, <2>4 DEF Runtime!ReadyIsVerified
  <2>12. OneAtWork'
    BY <1>1, <2>4 DEF OneAtWork
  <2> QED
    BY <1>2, <1>3, <2>5, <2>6, <2>7, <2>12, <2>8, <2>9, <2>10, <2>11 DEF RuntimeInv
<1>11. CASE ~saved /\ ~written
  <2>1. flock' = r /\ slips' = slips + 1 /\ slips \in Nat
    BY <1>1, <1>11, <1>4, <1>8
      DEF Runtime!Prepare, Runtime!Slip, Runtime!TypeOK, Runtime!PreparationAssumption,
          Runtime!document, Runtime!files, Runtime!jobs
  <2>2. UNCHANGED <<runtime, acceptance, installed, binary, verification, serving, server, gate,
                    job, flagged, held>>
    BY <1>1, <1>11, <1>4, <1>8, <2>1
      DEF Runtime!Prepare, Runtime!document, Runtime!files, Runtime!jobs
  <2>3. PrepareInv'
    BY <1>1, <1>11, <1>4, <1>5, <1>6, <1>7, <1>8, <2>1, <2>2
      DEF PrepareInv, Runtime!Locked, Runtime!Alive, RuntimeShape
  <2>4. RuntimeFileInv'
    BY <1>1, <1>11, <1>4, <1>8, <2>1, <2>2
      DEF RuntimeFileInv, Runtime!Idle, RuntimeBusy, Runtime!Alive, RuntimeShape
  <2>5. CopyInv'
    BY <1>1, <1>11, <1>4, <1>5, <1>6, <1>7, <1>8, <2>1, <2>2
      DEF CopyInv, WritingSteps, RuntimeShape
  <2>6. RuntimeLockInv'
    BY <1>1, <1>11, <1>4, <1>5, <1>6, <1>7, <1>8, <2>1, <2>2
      DEF RuntimeLockInv, Runtime!Alive, Runtime!AtWork
  <2>7. SetupsInv' /\ OneAtWork' /\ WriterInv' /\ Runtime!ReadyIsVerified'
    BY <1>1, <2>2 DEF SetupsInv, OneAtWork, WriterInv, Runtime!Alive, Runtime!ReadyIsVerified
  <2> QED
    BY <1>2, <1>3, <2>3, <2>4, <2>7, <2>5, <2>6 DEF RuntimeInv
<1> QED
  BY <1>9, <1>10, <1>11, <1>4

\* Runtime!Abort keeps RuntimeInv.
LEMMA RuntimeAbortKeeps ==
  ASSUME RuntimeInv, Runtime!PreparationAssumption, NEW saved \in BOOLEAN, Runtime!Abort(saved)
  PROVE  RuntimeInv'
<1>1. /\ Runtime!TypeOK /\ RuntimeTypes /\ PrepareInv /\ RuntimeFileInv /\ SetupsInv /\ OneAtWork
      /\ WriterInv /\ CopyInv /\ RuntimeLockInv /\ Runtime!ReadyIsVerified /\ RuntimeShape
  BY RuntimeShapeHolds DEF RuntimeInv
<1>2. Runtime!TypeOK'
  <2>1. runtime' \in [state : {"not_prepared", "preparing", "ready", "failed", "unknown"},
                     revision : Version \cup {NoVersion},
                     pending : Runtime!Setup \cup {Runtime!NoSetup},
                     active : Runtime!Setup \cup {Runtime!NoSetup},
                     step : {"none", "queued", "running", "unknown"},
                     server : 1 .. MaxServers]
    <3>1. CASE runtime' = runtime
      BY <1>1, <3>1 DEF Runtime!TypeOK
    <3>2. CASE /\ runtime' = [runtime EXCEPT !.pending = Runtime!NoSetup,
                              !.active = Runtime!NoSetup, !.step = "none",
                                       !.state = "failed"]
      BY <1>1, <3>2 DEF Runtime!TypeOK
    <3> QED
      BY <3>1, <3>2 DEF Runtime!Abort, Runtime!Aborted, Runtime!document
  <2>2. acceptance' \in [Runtime!Setup -> {"none", "pending", "job", "failed", "unknown"}]
    <3>1. PICK x \in {"failed", "job"} : acceptance' = [acceptance EXCEPT ![preparer.request] = x]
                                       \/ acceptance' = acceptance
      BY DEF Runtime!Abort, Runtime!Aborted, Runtime!document
    <3> QED
      BY <1>1, <3>1 DEF Runtime!TypeOK
  <2>3. {installed', binary', verification'} \subseteq Version \cup {NoVersion}
    BY <1>1
      DEF Runtime!Abort, Runtime!Slip, Runtime!Aborted, Runtime!Preparing, RuntimeShape,
          Runtime!TypeOK, RuntimeTypes, Runtime!AtWork, Runtime!Ended, Runtime!document,
          Runtime!files
  <2>4. job' \in [Runtime!Setup -> {"none", "queued"} \cup Runtime!AtWork \cup Runtime!Ended]
    BY <1>1
      DEF Runtime!Abort, Runtime!Slip, Runtime!Aborted, Runtime!Preparing, RuntimeShape,
          Runtime!TypeOK, RuntimeTypes, Runtime!jobs, Runtime!Setup,
          Runtime!PreparationAssumption, Runtime!NoSetup
  <2>5. flock' \in Runtime!Setup \cup {Runtime!NoSetup} /\ held' \subseteq Runtime!Setup
    BY <1>1 DEF Runtime!Abort, Runtime!Preparing, RuntimeShape, Runtime!TypeOK, RuntimeTypes
  <2>6. slips' \in 0 .. MaxSlips
    <3>1. slips' = slips \/ (slips < MaxSlips /\ slips' = slips + 1)
      BY DEF Runtime!Abort, Runtime!Slip
    <3> QED
      BY <1>1, <3>1 DEF Runtime!TypeOK, Runtime!PreparationAssumption
  <2> QED
    BY <2>1, <2>2, <2>3, <2>4, <2>5, <2>6 DEF Runtime!TypeOK
<1>3. RuntimeTypes'
  BY <1>1
    DEF Runtime!Abort, Runtime!Slip, Runtime!Aborted, Runtime!Preparing, RuntimeTypes,
        Runtime!jobs, Runtime!Setup, Runtime!PreparationAssumption
<1>4. /\ preparer.pc = "abort" /\ preparer.request \in Runtime!Setup /\ Runtime!Alive
      /\ flock = preparer.request
      /\ preparer.request \notin held /\ gate[preparer.request] # "accepted"
  BY <1>1 DEF RuntimeShape, Runtime!Abort, PrepareInv
<1>5. held = {}
  BY <1>1, <1>4 DEF RuntimeLockInv
<1>6. preparer'.pc = "release" /\ preparer'.request = preparer.request
  BY DEF Runtime!Abort, Runtime!Preparing
<1>7. CASE /\ saved /\ runtime.server = server
           /\ (runtime.pending = preparer.request \/ runtime.active = preparer.request)
  <2>1. /\ runtime'.state = "failed" /\ runtime'.revision = runtime.revision
        /\ runtime'.pending = Runtime!NoSetup /\ runtime'.active = Runtime!NoSetup
        /\ runtime'.step = "none"
        /\ runtime'.server = runtime.server
    BY <1>1, <1>7, <1>4, <1>5, <1>6
      DEF Runtime!Abort, Runtime!Aborted, Runtime!TypeOK, Runtime!document
  <2>2. /\ acceptance'[preparer.request] =
             (IF job[preparer.request] = "none" THEN "failed" ELSE "job")
        /\ \A q \in Runtime!Setup \ {preparer.request} : acceptance'[q] = acceptance[q]
    BY <1>1, <1>7, <1>4
      DEF Runtime!Abort, Runtime!Aborted, Runtime!TypeOK, Runtime!document, Runtime!files,
          Runtime!jobs
  <2>3. UNCHANGED <<installed, binary, verification, serving, server, gate, job, target, flagged,
                    flock, held, slips>>
    BY <1>1, <1>7, <1>4, <2>2
      DEF Runtime!Abort, Runtime!document, Runtime!files, Runtime!jobs, RuntimeShape
  <2>4. PrepareInv'
    BY <1>1, <1>7, <1>4, <1>5, <1>6, <2>1, <2>2, <2>3
      DEF PrepareInv, Runtime!Locked, Runtime!Alive, RuntimeShape
  <2>5. RuntimeFileInv'
    BY <1>5, <1>6, <2>1, <2>2, <2>3 DEF RuntimeFileInv, Runtime!Idle, RuntimeBusy, Runtime!Alive
  <2>6. SetupsInv'
    BY <1>1, <1>7, <1>4, <2>2, <2>3 DEF SetupsInv
  <2>7. WriterInv'
    BY <1>1, <1>7, <1>4, <1>5, <1>6, <2>1, <2>2, <2>3
      DEF WriterInv, SetupsInv, WritingSteps, Runtime!Alive
  <2>8. RuntimeLockInv'
    BY <1>1, <1>7, <1>4, <1>5, <1>6, <2>1, <2>2, <2>3
      DEF RuntimeLockInv, Runtime!Alive, Runtime!AtWork, RuntimeShape
  <2>9. Runtime!ReadyIsVerified'
    BY <2>1, <2>2, <2>3 DEF Runtime!ReadyIsVerified
  <2>10. OneAtWork' /\ CopyInv'
    BY <1>1, <2>3 DEF OneAtWork, CopyInv
  <2> QED
    BY <1>2, <1>3, <2>4, <2>5, <2>6, <2>10, <2>7, <2>8, <2>9 DEF RuntimeInv
<1>8. CASE /\ saved
           /\ ~(/\ runtime.server = server
                /\ (runtime.pending = preparer.request \/ runtime.active = preparer.request))
  <2>1. runtime.pending # preparer.request
    BY <1>1, <1>8, <1>4
      DEF RuntimeFileInv, Runtime!Idle, Runtime!document, Runtime!files, Runtime!jobs,
          RuntimeShape
  <2>2. UNCHANGED <<runtime, acceptance, installed, binary, verification, serving, server, gate,
                    job, target, flagged, flock, held, slips>>
    BY <1>1, <1>8, <1>4
      DEF Runtime!Abort, Runtime!Aborted, Runtime!document, Runtime!files, Runtime!jobs,
          RuntimeShape
  <2>3. PrepareInv'
    BY <1>1, <1>8, <1>4, <1>5, <1>6, <2>1, <2>2 DEF PrepareInv, Runtime!Locked, Runtime!Alive
  <2>4. RuntimeFileInv'
    BY <1>1, <1>8, <1>4, <2>2
      DEF RuntimeFileInv, PrepareInv, Runtime!Idle, RuntimeBusy, Runtime!Alive
  <2>5. RuntimeLockInv'
    BY <1>4, <1>5, <1>6, <2>1, <2>2 DEF RuntimeLockInv, Runtime!Alive, Runtime!AtWork
  <2>6. SetupsInv' /\ OneAtWork' /\ WriterInv' /\ CopyInv' /\ Runtime!ReadyIsVerified'
    BY <1>1, <2>2
      DEF SetupsInv, OneAtWork, WriterInv, Runtime!Alive, CopyInv, Runtime!ReadyIsVerified
  <2> QED
    BY <1>2, <1>3, <2>3, <2>4, <2>6, <2>5 DEF RuntimeInv
<1>9. CASE ~saved
  <2>1. slips' = slips + 1 /\ slips \in Nat
    BY <1>1, <1>9, <1>4, <1>5, <1>6
      DEF Runtime!Abort, Runtime!Slip, Runtime!TypeOK, Runtime!PreparationAssumption,
          Runtime!document, Runtime!files, Runtime!jobs
  <2>2. runtime.pending = preparer.request => slips >= 1
    BY <1>1, <1>9, <1>4, <1>5 DEF PrepareInv, Runtime!document, Runtime!files, Runtime!jobs
  <2>3. UNCHANGED <<runtime, acceptance, installed, binary, verification, serving, server, gate,
                    job, target, flagged, flock, held>>
    BY <1>5, <1>6, <2>1, <2>2
      DEF Runtime!Abort, Runtime!document, Runtime!files, Runtime!jobs, RuntimeShape
  <2>4. PrepareInv'
    BY <1>1, <1>9, <1>4, <1>5, <1>6, <2>1, <2>2, <2>3
      DEF PrepareInv, Runtime!Locked, Runtime!Alive, RuntimeShape
  <2>5. RuntimeFileInv'
    BY <1>1, <1>9, <1>4, <1>5, <1>6, <2>1, <2>2, <2>3
      DEF RuntimeFileInv, PrepareInv, Runtime!Idle, RuntimeBusy, Runtime!Alive, RuntimeShape
  <2>6. RuntimeLockInv'
    BY <1>1, <1>9, <1>4, <1>5, <1>6, <2>1, <2>2, <2>3
      DEF RuntimeLockInv, Runtime!Alive, Runtime!AtWork, RuntimeShape
  <2>7. SetupsInv' /\ OneAtWork' /\ WriterInv' /\ CopyInv' /\ Runtime!ReadyIsVerified'
    BY <1>1, <2>3
      DEF SetupsInv, OneAtWork, WriterInv, Runtime!Alive, CopyInv, Runtime!ReadyIsVerified
  <2> QED
    BY <1>2, <1>3, <2>4, <2>5, <2>7, <2>6 DEF RuntimeInv
<1> QED
  BY <1>7, <1>8, <1>9

\* Runtime!Abandon keeps RuntimeInv.
LEMMA RuntimeAbandonKeeps ==
  ASSUME RuntimeInv, Runtime!PreparationAssumption, NEW r \in Runtime!Setup,
         NEW saved \in BOOLEAN, Runtime!Alive, Runtime!Abandon(r, saved)
  PROVE  RuntimeInv'
<1>1. /\ Runtime!TypeOK /\ RuntimeTypes /\ PrepareInv /\ RuntimeFileInv /\ SetupsInv /\ OneAtWork
      /\ WriterInv /\ CopyInv /\ RuntimeLockInv /\ Runtime!ReadyIsVerified /\ RuntimeShape
  BY RuntimeShapeHolds DEF RuntimeInv
<1>2. Runtime!TypeOK'
  <2>1. runtime' \in [state : {"not_prepared", "preparing", "ready", "failed", "unknown"},
                     revision : Version \cup {NoVersion},
                     pending : Runtime!Setup \cup {Runtime!NoSetup},
                     active : Runtime!Setup \cup {Runtime!NoSetup},
                     step : {"none", "queued", "running", "unknown"},
                     server : 1 .. MaxServers]
    <3>1. CASE runtime' = runtime
      BY <1>1, <3>1 DEF Runtime!TypeOK
    <3>2. CASE /\ runtime' = [runtime EXCEPT !.pending = Runtime!NoSetup,
                              !.active = Runtime!NoSetup, !.step = "none",
                                       !.state = "failed"]
      BY <1>1, <3>2 DEF Runtime!TypeOK
    <3> QED
      BY <3>1, <3>2 DEF Runtime!Abandon, Runtime!Aborted, Runtime!document
  <2>2. acceptance' \in [Runtime!Setup -> {"none", "pending", "job", "failed", "unknown"}]
    BY <1>1
      DEF Runtime!Abandon, Runtime!Move, Runtime!Drop, Runtime!Slip, Runtime!Aborted,
          Runtime!Preparing, RuntimeShape, Runtime!TypeOK, RuntimeTypes, Runtime!AtWork,
          Runtime!Ended, Runtime!document, Runtime!files, Runtime!jobs, Runtime!Setup,
          Runtime!PreparationAssumption, Runtime!NoSetup
  <2>3. {installed', binary', verification'} \subseteq Version \cup {NoVersion}
    BY <1>1
      DEF Runtime!Abandon, Runtime!Move, Runtime!Drop, Runtime!TypeOK, RuntimeTypes,
          Runtime!AtWork, Runtime!Ended, Runtime!document, Runtime!files, Runtime!jobs,
          Runtime!Setup, Runtime!PreparationAssumption, Runtime!NoSetup
  <2>4. job' \in [Runtime!Setup -> {"none", "queued"} \cup Runtime!AtWork \cup Runtime!Ended]
    BY <1>1
      DEF Runtime!Abandon, Runtime!Move, Runtime!Drop, Runtime!TypeOK, RuntimeTypes,
          Runtime!AtWork, Runtime!Ended, Runtime!PreparationAssumption, Runtime!NoSetup
  <2>5. flock' \in Runtime!Setup \cup {Runtime!NoSetup} /\ held' \subseteq Runtime!Setup
    BY <1>1 DEF Runtime!Abandon, Runtime!Move, Runtime!Drop, Runtime!TypeOK
  <2>6. slips' \in 0 .. MaxSlips
    <3>1. slips' = slips \/ (slips < MaxSlips /\ slips' = slips + 1)
      BY DEF Runtime!Abandon, Runtime!Slip
    <3> QED
      BY <1>1, <3>1 DEF Runtime!TypeOK, Runtime!PreparationAssumption
  <2> QED
    BY <2>1, <2>2, <2>3, <2>4, <2>5, <2>6 DEF Runtime!TypeOK
<1>3. RuntimeTypes'
  BY <1>1
    DEF Runtime!Abandon, Runtime!Move, Runtime!Preparing, RuntimeTypes, RuntimeShape,
        Runtime!document, Runtime!files, Runtime!jobs, Runtime!Setup,
        Runtime!PreparationAssumption
<1>4. ~Runtime!Locked
  BY DEF Runtime!Abandon
<1>5. job'[r] = "failed" /\ job[r] = "abandon" /\ \A q \in Runtime!Setup \ {r} : job'[q] = job[q]
  BY <1>1 DEF Runtime!Abandon, Runtime!Move, Runtime!TypeOK
<1>6. /\ job[r] \in Runtime!AtWork
      /\ \A q \in Runtime!Setup \ {r} :
           /\ job[q] \notin Runtime!AtWork \cup WritingSteps
           /\ job'[q] \notin Runtime!AtWork \cup WritingSteps
  BY <1>1, <1>5 DEF RuntimeShape, OneAtWork, Runtime!AtWork, WritingSteps
<1>7. held' = held \ {r} /\ flock' = (IF r \in held /\ flock = r THEN Runtime!NoSetup ELSE flock)
  BY DEF Runtime!Abandon, Runtime!Drop
<1>8. CASE saved /\ runtime.server = server /\ (runtime.pending = r \/ runtime.active = r)
  <2>1. /\ runtime'.state = "failed" /\ runtime'.revision = runtime.revision
        /\ runtime'.pending = Runtime!NoSetup /\ runtime'.active = Runtime!NoSetup
        /\ runtime'.step = "none"
        /\ runtime'.server = runtime.server
    BY <1>1, <1>8 DEF Runtime!Abandon, Runtime!Aborted, Runtime!TypeOK, Runtime!document
  <2>2. /\ acceptance'[r] = (IF job[r] = "none" THEN "failed" ELSE "job")
        /\ \A q \in Runtime!Setup \ {r} : acceptance'[q] = acceptance[q]
    BY <1>1, <1>8, <1>4, <2>1
      DEF Runtime!Abandon, Runtime!Aborted, Runtime!TypeOK, Runtime!document, Runtime!files,
          Runtime!jobs, RuntimeShape
  <2>3. held' = {} /\ flock' \in {Runtime!NoSetup, preparer.request}
    BY <1>1, <1>8, <1>4, <1>5, <1>6, <1>7, <2>1, <2>2
      DEF RuntimeLockInv, RuntimeFileInv, RuntimeBusy, Runtime!AtWork, Runtime!document,
          Runtime!files, Runtime!jobs, RuntimeShape
  <2>4. UNCHANGED <<installed, binary, verification, serving, server, preparer, gate, target,
                    flagged, slips>>
    BY <1>1, <1>8, <1>4
      DEF Runtime!Abandon, Runtime!document, Runtime!files, Runtime!jobs, RuntimeShape
  <2>5. PrepareInv'
    BY <1>1, <1>8, <1>4, <1>5, <1>6, <1>7, <2>1, <2>2, <2>3, <2>4
      DEF PrepareInv, Runtime!Locked, Runtime!Alive, RuntimeShape
  <2>6. RuntimeFileInv'
    BY <2>1, <2>2, <2>3, <2>4 DEF RuntimeFileInv, Runtime!Idle, RuntimeBusy, Runtime!Alive
  <2>7. SetupsInv'
    BY <1>1, <1>8, <1>4, <1>5, <1>6, <1>7, <2>1, <2>2, <2>3, <2>4
      DEF SetupsInv, AdmittedSteps, WritingSteps, RuntimeShape
  <2>8. OneAtWork'
    BY <1>5, <1>6, <1>7, <2>4 DEF OneAtWork, RuntimeShape
  <2>9. WriterInv'
    BY <1>5, <1>6, <1>7, <2>1, <2>2, <2>3, <2>4
      DEF WriterInv, SetupsInv, WritingSteps, Runtime!Alive
  <2>10. CopyInv'
    BY <1>5, <1>6, <1>7, <2>4 DEF CopyInv, WritingSteps
  <2>11. RuntimeLockInv'
    BY <2>3, <2>4 DEF RuntimeLockInv, Runtime!Alive, Runtime!AtWork
  <2>12. Runtime!ReadyIsVerified'
    BY <2>1, <2>3, <2>4 DEF Runtime!ReadyIsVerified, RuntimeShape
  <2> QED
    BY <1>2, <1>3, <2>5, <2>6, <2>7, <2>8, <2>9, <2>10, <2>11, <2>12 DEF RuntimeInv
<1>9. CASE ~(saved /\ runtime.server = server /\ (runtime.pending = r \/ runtime.active = r))
  <2>1. slips' \in {slips, slips + 1} /\ slips \in Nat
    BY <1>1, <1>9, <1>4
      DEF Runtime!Abandon, Runtime!Slip, Runtime!TypeOK, Runtime!jobs, RuntimeShape
  <2>2. UNCHANGED <<runtime, acceptance, installed, binary, verification, serving, server,
                    preparer, gate, target, flagged>>
    BY <1>1, <1>9, <1>4, <2>1
      DEF Runtime!Abandon, Runtime!Aborted, Runtime!Slip, Runtime!document, Runtime!files,
          Runtime!jobs, RuntimeShape
  <2>3. PrepareInv'
    BY <1>1, <1>9, <1>4, <1>5, <1>6, <1>7, <2>1, <2>2
      DEF PrepareInv, Runtime!Locked, Runtime!Alive, RuntimeShape
  <2>4. RuntimeFileInv'
    BY <1>1, <1>9, <1>4, <1>5, <1>6, <1>7, <2>1, <2>2
      DEF RuntimeFileInv, Runtime!Idle, RuntimeBusy, Runtime!Alive, RuntimeShape
  <2>5. SetupsInv'
    BY <1>1, <1>9, <1>4, <1>5, <1>6, <1>7, <2>1, <2>2
      DEF SetupsInv, AdmittedSteps, WritingSteps, RuntimeShape
  <2>6. OneAtWork'
    BY <1>6, <1>7 DEF OneAtWork, RuntimeShape
  <2>7. WriterInv'
    BY <1>1, <1>9, <1>4, <1>5, <1>6, <1>7, <2>1, <2>2
      DEF WriterInv, SetupsInv, WritingSteps, Runtime!Alive
  <2>8. CopyInv'
    BY <1>4, <1>5, <1>6, <1>7, <2>1, <2>2 DEF CopyInv, WritingSteps
  <2>9. RuntimeLockInv'
    BY <1>1, <1>9, <1>4, <1>5, <1>6, <1>7, <2>1, <2>2
      DEF RuntimeLockInv, Runtime!Alive, Runtime!AtWork, RuntimeShape
  <2>10. Runtime!ReadyIsVerified'
    BY <1>1, <2>2 DEF Runtime!ReadyIsVerified
  <2> QED
    BY <1>2, <1>3, <2>3, <2>4, <2>5, <2>6, <2>7, <2>8, <2>9, <2>10 DEF RuntimeInv
<1> QED
  BY <1>8, <1>9

\* Runtime!Begin keeps RuntimeInv.
LEMMA RuntimeBeginKeeps ==
  ASSUME RuntimeInv, Runtime!PreparationAssumption, NEW r \in Runtime!Setup,
         NEW saved \in BOOLEAN, Runtime!Alive, Runtime!Begin(r, saved)
  PROVE  RuntimeInv'
<1>1. /\ Runtime!TypeOK /\ RuntimeTypes /\ PrepareInv /\ RuntimeFileInv /\ SetupsInv /\ OneAtWork
      /\ WriterInv /\ CopyInv /\ RuntimeLockInv /\ Runtime!ReadyIsVerified /\ RuntimeShape
  BY RuntimeShapeHolds DEF RuntimeInv
<1>2. Runtime!TypeOK'
  <2>1. runtime' \in [state : {"not_prepared", "preparing", "ready", "failed", "unknown"},
                     revision : Version \cup {NoVersion},
                     pending : Runtime!Setup \cup {Runtime!NoSetup},
                     active : Runtime!Setup \cup {Runtime!NoSetup},
                     step : {"none", "queued", "running", "unknown"},
                     server : 1 .. MaxServers]
    <3>1. CASE runtime' = runtime
      BY <1>1, <3>1 DEF Runtime!TypeOK
    <3>2. CASE runtime' = [runtime EXCEPT !.step = "running"]
      BY <1>1, <3>2 DEF Runtime!TypeOK
    <3> QED
      BY <3>1, <3>2 DEF Runtime!Begin
  <2>2. acceptance' \in [Runtime!Setup -> {"none", "pending", "job", "failed", "unknown"}]
    BY <1>1
      DEF Runtime!Begin, Runtime!Move, Runtime!Slip, Runtime!Live, Runtime!Preparing,
          RuntimeShape, Runtime!TypeOK
  <2>3. {installed', binary', verification'} \subseteq Version \cup {NoVersion}
    BY <1>1
      DEF Runtime!Begin, Runtime!Move, Runtime!Slip, Runtime!Live, Runtime!Preparing,
          RuntimeShape, Runtime!TypeOK, Runtime!files, Runtime!jobs, Runtime!Setup,
          Runtime!PreparationAssumption
  <2>4. job' \in [Runtime!Setup -> {"none", "queued"} \cup Runtime!AtWork \cup Runtime!Ended]
    <3>1. PICK x \in {"inspect", "finish cancelled", "finish failed"} : job' = [job EXCEPT ![r] = x]
      BY DEF Runtime!Begin, Runtime!Move
    <3> QED
      BY <1>1, <3>1 DEF Runtime!TypeOK, Runtime!AtWork
  <2>5. flock' \in Runtime!Setup \cup {Runtime!NoSetup} /\ held' \subseteq Runtime!Setup
    BY <1>1
      DEF Runtime!Begin, Runtime!Move, Runtime!Slip, Runtime!Live, Runtime!Preparing,
          RuntimeShape, Runtime!TypeOK
  <2>6. slips' \in 0 .. MaxSlips
    <3>1. slips' = slips \/ (slips < MaxSlips /\ slips' = slips + 1)
      BY DEF Runtime!Begin, Runtime!Slip
    <3> QED
      BY <1>1, <3>1 DEF Runtime!TypeOK, Runtime!PreparationAssumption
  <2> QED
    BY <2>1, <2>2, <2>3, <2>4, <2>5, <2>6 DEF Runtime!TypeOK
<1>3. RuntimeTypes'
  BY <1>1 DEF Runtime!Begin, Runtime!Move, RuntimeTypes
<1>4. ~Runtime!Locked /\ job[r] = "begin"
  BY DEF Runtime!Begin
<1>5. CASE ~saved
  <2>1. /\ job'[r] = "finish failed" /\ job[r] = "begin"
        /\ \A q \in Runtime!Setup \ {r} : job'[q] = job[q]
    BY <1>1, <1>5, <1>4
      DEF Runtime!Begin, Runtime!Move, Runtime!TypeOK, Runtime!jobs, RuntimeShape
  <2>2. /\ job[r] \in Runtime!AtWork
        /\ \A q \in Runtime!Setup \ {r} :
             /\ job[q] \notin Runtime!AtWork \cup WritingSteps
             /\ job'[q] \notin Runtime!AtWork \cup WritingSteps
    BY <1>1, <1>5, <1>4, <2>1
      DEF OneAtWork, Runtime!AtWork, WritingSteps, Runtime!document, Runtime!files, Runtime!jobs
  <2>3. slips \in Nat
    BY <1>1 DEF Runtime!TypeOK
  <2>4. slips' = slips + 1
    BY <1>5 DEF Runtime!Begin, Runtime!Slip, Runtime!document, Runtime!files
  <2>5. (slips >= 1 => slips' >= 1) /\ (slips' < 2 => slips < 2)
    BY <2>3, <2>4
  <2>6. UNCHANGED <<runtime, acceptance, installed, binary, verification, serving, server,
                    preparer, gate, target, flagged, flock, held>>
    BY <1>1, <1>5, <1>4, <2>4, <2>5
      DEF Runtime!Begin, Runtime!Slip, Runtime!document, Runtime!files, Runtime!jobs,
          RuntimeShape
  <2>7. PrepareInv'
    BY <1>1, <1>5, <1>4, <2>1, <2>5, <2>6
      DEF PrepareInv, Runtime!Locked, Runtime!Alive, RuntimeShape
  <2>8. RuntimeFileInv'
    BY <1>1, <1>5, <1>4, <2>1, <2>5, <2>6
      DEF RuntimeFileInv, Runtime!Idle, RuntimeBusy, Runtime!Alive, RuntimeShape
  <2>9. SetupsInv'
    BY <1>1, <1>5, <1>4, <2>1, <2>2, <2>3, <2>4, <2>5, <2>6
      DEF SetupsInv, AdmittedSteps, WritingSteps
  <2>10. OneAtWork'
    BY <2>2, <2>3, <2>4, <2>5, <2>6 DEF OneAtWork
  <2>11. WriterInv'
    BY <1>1, <1>5, <1>4, <2>1, <2>2, <2>3, <2>4, <2>5, <2>6
      DEF WriterInv, SetupsInv, WritingSteps, Runtime!Alive, RuntimeShape
  <2>12. CopyInv'
    BY <2>1, <2>2, <2>3 DEF CopyInv, WritingSteps, RuntimeShape
  <2>13. RuntimeLockInv'
    BY <1>1, <1>5, <1>4, <2>1, <2>2, <2>3, <2>4, <2>5, <2>6
      DEF RuntimeLockInv, Runtime!Alive, Runtime!AtWork, RuntimeShape
  <2>14. Runtime!ReadyIsVerified'
    BY <1>1, <2>6 DEF Runtime!ReadyIsVerified
  <2> QED
    BY <1>2, <1>3, <2>7, <2>8, <2>9, <2>10, <2>11, <2>12, <2>13, <2>14 DEF RuntimeInv
<1>6. CASE saved /\ serving = "up" /\ Runtime!Live(r) /\ runtime.step = "queued"
  <2>1. job'[r] = "inspect" /\ job[r] = "begin" /\ \A q \in Runtime!Setup \ {r} : job'[q] = job[q]
    BY <1>1, <1>6, <1>4
      DEF Runtime!Begin, Runtime!Move, Runtime!TypeOK, Runtime!jobs, RuntimeShape
  <2>2. /\ job[r] \in Runtime!AtWork
        /\ \A q \in Runtime!Setup \ {r} :
             /\ job[q] \notin Runtime!AtWork \cup WritingSteps
             /\ job'[q] \notin Runtime!AtWork \cup WritingSteps
    BY <1>1, <1>6, <1>4, <2>1
      DEF OneAtWork, Runtime!AtWork, WritingSteps, Runtime!document, Runtime!files, Runtime!jobs
  <2>3. /\ runtime'.state = runtime.state /\ runtime'.revision = runtime.revision
        /\ runtime'.pending = runtime.pending /\ runtime'.active = runtime.active
        /\ runtime'.step = "running" /\ runtime'.server = runtime.server
    BY <1>1, <1>6, <2>2
      DEF Runtime!Begin, Runtime!TypeOK, Runtime!document, Runtime!files, Runtime!jobs
  <2>4. runtime.active = r /\ gate[r] = "accepted" /\ r \in held
    BY <1>1, <1>6, <1>4
      DEF Runtime!Live, SetupsInv, AdmittedSteps, WriterInv, Runtime!document, Runtime!files,
          Runtime!jobs, RuntimeShape
  <2>5. UNCHANGED <<acceptance, installed, binary, verification, serving, server, preparer, gate,
                    target, flagged, flock, held, slips>>
    BY <1>1, <1>6, <1>4, <2>4
      DEF Runtime!Begin, Runtime!document, Runtime!files, Runtime!jobs, RuntimeShape
  <2>6. PrepareInv'
    BY <1>1, <1>6, <1>4, <2>1, <2>2, <2>3, <2>4, <2>5
      DEF PrepareInv, Runtime!Locked, Runtime!Alive, RuntimeShape
  <2>7. RuntimeFileInv'
    BY <1>1, <1>6, <1>4, <2>1, <2>2, <2>3, <2>4, <2>5
      DEF RuntimeFileInv, Runtime!Idle, RuntimeBusy, Runtime!Alive
  <2>8. SetupsInv'
    BY <1>1, <1>6, <1>4, <2>1, <2>2, <2>3, <2>4, <2>5
      DEF SetupsInv, AdmittedSteps, WritingSteps, RuntimeShape
  <2>9. OneAtWork'
    BY <2>2, <2>3 DEF OneAtWork, RuntimeShape
  <2>10. WriterInv'
    BY <2>1, <2>2, <2>3, <2>4, <2>5 DEF WriterInv, SetupsInv, WritingSteps, Runtime!Alive
  <2>11. CopyInv'
    BY <1>4, <2>1, <2>2, <2>3, <2>4, <2>5 DEF CopyInv, WritingSteps
  <2>12. RuntimeLockInv'
    BY <1>1, <1>6, <1>4, <2>1, <2>2, <2>3, <2>4, <2>5
      DEF RuntimeLockInv, Runtime!Alive, Runtime!AtWork, RuntimeShape
  <2>13. Runtime!ReadyIsVerified'
    BY <1>1, <1>6, <2>2, <2>3, <2>4, <2>5 DEF Runtime!ReadyIsVerified, RuntimeShape
  <2> QED
    BY <1>2, <1>3, <2>6, <2>7, <2>8, <2>9, <2>10, <2>11, <2>12, <2>13 DEF RuntimeInv
<1>7. CASE saved /\ ~(serving = "up" /\ Runtime!Live(r) /\ runtime.step = "queued")
  <2>1. /\ job'[r] = "finish cancelled" /\ job[r] = "begin"
        /\ \A q \in Runtime!Setup \ {r} : job'[q] = job[q]
    BY <1>1, <1>7, <1>4
      DEF Runtime!Begin, Runtime!Move, Runtime!TypeOK, Runtime!jobs, RuntimeShape
  <2>2. /\ job[r] \in Runtime!AtWork
        /\ \A q \in Runtime!Setup \ {r} :
             /\ job[q] \notin Runtime!AtWork \cup WritingSteps
             /\ job'[q] \notin Runtime!AtWork \cup WritingSteps
    BY <1>1, <1>7, <1>4, <2>1
      DEF OneAtWork, Runtime!AtWork, WritingSteps, Runtime!document, Runtime!files, Runtime!jobs
  <2>3. UNCHANGED <<runtime, acceptance, installed, binary, verification, serving, server,
                    preparer, gate, target, flagged, flock, held, slips>>
    BY <1>1, <1>7, <2>2
      DEF Runtime!Begin, Runtime!document, Runtime!files, Runtime!jobs, RuntimeShape
  <2>4. PrepareInv'
    BY <1>1, <1>7, <1>4, <2>1, <2>2, <2>3
      DEF PrepareInv, Runtime!Locked, Runtime!Alive, RuntimeShape
  <2>5. RuntimeFileInv'
    BY <1>1, <1>7, <1>4, <2>1, <2>2, <2>3
      DEF RuntimeFileInv, Runtime!Idle, RuntimeBusy, Runtime!Alive, RuntimeShape
  <2>6. SetupsInv'
    BY <1>1, <1>7, <1>4, <2>1, <2>2, <2>3 DEF SetupsInv, AdmittedSteps, WritingSteps, RuntimeShape
  <2>7. OneAtWork'
    BY <2>2 DEF OneAtWork, RuntimeShape
  <2>8. WriterInv'
    BY <1>1, <1>7, <1>4, <2>1, <2>2, <2>3 DEF WriterInv, SetupsInv, WritingSteps, Runtime!Alive
  <2>9. CopyInv'
    BY <1>4, <2>1, <2>2, <2>3 DEF CopyInv, WritingSteps
  <2>10. RuntimeLockInv'
    BY <1>1, <1>7, <1>4, <2>1, <2>2, <2>3
      DEF RuntimeLockInv, Runtime!Alive, Runtime!AtWork, RuntimeShape
  <2>11. Runtime!ReadyIsVerified'
    BY <1>1, <2>3 DEF Runtime!ReadyIsVerified
  <2> QED
    BY <1>2, <1>3, <2>4, <2>5, <2>6, <2>7, <2>8, <2>9, <2>10, <2>11 DEF RuntimeInv
<1> QED
  BY <1>5, <1>6, <1>7, <1>4

\* Runtime!Cancel keeps RuntimeInv.
LEMMA RuntimeCancelKeeps ==
  ASSUME RuntimeInv, Runtime!PreparationAssumption, NEW r \in Runtime!Setup, Runtime!Cancel(r)
  PROVE  RuntimeInv'
<1>1. /\ Runtime!TypeOK /\ RuntimeTypes /\ PrepareInv /\ RuntimeFileInv /\ SetupsInv /\ OneAtWork
      /\ WriterInv /\ CopyInv /\ RuntimeLockInv /\ Runtime!ReadyIsVerified /\ RuntimeShape
  BY RuntimeShapeHolds DEF RuntimeInv
<1>2. Runtime!TypeOK'
  BY <1>1
    DEF Runtime!Cancel, Runtime!Move, Runtime!Preparing, Runtime!TypeOK, RuntimeShape,
        Runtime!AtWork, Runtime!Ended, Runtime!document, Runtime!files, Runtime!jobs,
        Runtime!Setup, Runtime!PreparationAssumption, Runtime!NoSetup
<1>3. RuntimeTypes'
  BY <1>1 DEF Runtime!Cancel, Runtime!Move, Runtime!Preparing, RuntimeTypes, RuntimeShape
<1>4. CASE job[r] = "queued" /\ Runtime!Move(r, "cancelled") /\ UNCHANGED flagged
  <2>1. job'[r] = "cancelled" /\ \A q \in Runtime!Setup \ {r} : job'[q] = job[q]
    BY <1>1, <1>4 DEF Runtime!Move, Runtime!TypeOK
  <2>2. \A q \in Runtime!Setup : job'[q] \in Runtime!AtWork => job[q] \in Runtime!AtWork
    BY <2>1 DEF Runtime!AtWork
  <2>3. UNCHANGED <<runtime, acceptance, installed, binary, verification, serving, server,
                    preparer, gate, target, flagged, flock, held, slips>>
    BY <1>1, <1>4 DEF Runtime!Cancel, Runtime!document, Runtime!files, Runtime!jobs
  <2>4. PrepareInv'
    BY <1>1, <1>4, <2>1, <2>2, <2>3 DEF PrepareInv, Runtime!Locked, Runtime!Alive, RuntimeShape
  <2>5. RuntimeFileInv'
    BY <1>1, <1>4, <2>1, <2>2, <2>3
      DEF RuntimeFileInv, Runtime!Idle, RuntimeBusy, Runtime!Alive, RuntimeShape
  <2>6. SetupsInv'
    BY <1>1, <1>4, <2>1, <2>2, <2>3 DEF SetupsInv, AdmittedSteps, WritingSteps
  <2>7. OneAtWork'
    BY <1>1, <2>2, <2>3 DEF OneAtWork
  <2>8. WriterInv'
    BY <1>1, <1>4, <2>1, <2>2, <2>3
      DEF WriterInv, SetupsInv, WritingSteps, Runtime!Alive, RuntimeShape
  <2>9. CopyInv'
    BY <1>1, <1>4, <2>1, <2>2, <2>3 DEF CopyInv, WritingSteps, RuntimeShape
  <2>10. RuntimeLockInv'
    BY <1>1, <1>4, <2>1, <2>2, <2>3
      DEF RuntimeLockInv, Runtime!Alive, Runtime!AtWork, RuntimeShape
  <2>11. Runtime!ReadyIsVerified'
    BY <1>1, <2>3 DEF Runtime!ReadyIsVerified
  <2> QED
    BY <1>2, <1>3, <2>4, <2>5, <2>6, <2>7, <2>8, <2>9, <2>10, <2>11 DEF RuntimeInv
<1>5. CASE UNCHANGED job
  <2>1. UNCHANGED <<runtime, acceptance, installed, binary, verification, serving, server,
                    preparer, gate, job, target, flock, held, slips>>
    BY <1>5 DEF Runtime!Cancel, Runtime!document, Runtime!files, Runtime!jobs
  <2>2. /\ PrepareInv' /\ RuntimeFileInv' /\ SetupsInv' /\ OneAtWork' /\ WriterInv' /\ CopyInv'
        /\ RuntimeLockInv' /\ Runtime!ReadyIsVerified'
    BY <1>1, <2>1
      DEF PrepareInv, Runtime!Locked, Runtime!Alive, RuntimeFileInv, Runtime!Idle, RuntimeBusy,
          SetupsInv, OneAtWork, WriterInv, CopyInv, RuntimeLockInv, Runtime!ReadyIsVerified
  <2> QED
    BY <1>2, <1>3, <2>2 DEF RuntimeInv
<1> QED
  BY <1>4, <1>5 DEF Runtime!Cancel

\* Runtime!Observe keeps RuntimeInv.
LEMMA RuntimeObserveKeeps ==
  ASSUME RuntimeInv, Runtime!PreparationAssumption, NEW r \in Runtime!Setup, Runtime!Observe(r)
  PROVE  RuntimeInv'
<1>1. /\ Runtime!TypeOK /\ RuntimeTypes /\ PrepareInv /\ RuntimeFileInv /\ SetupsInv /\ OneAtWork
      /\ WriterInv /\ CopyInv /\ RuntimeLockInv /\ Runtime!ReadyIsVerified /\ RuntimeShape
  BY RuntimeShapeHolds DEF RuntimeInv
<1>2. Runtime!TypeOK'
  <2>1. runtime' \in [state : {"not_prepared", "preparing", "ready", "failed", "unknown"},
                     revision : Version \cup {NoVersion},
                     pending : Runtime!Setup \cup {Runtime!NoSetup},
                     active : Runtime!Setup \cup {Runtime!NoSetup},
                     step : {"none", "queued", "running", "unknown"},
                     server : 1 .. MaxServers]
    BY <1>1
      DEF Runtime!Observe, Runtime!Finished, Runtime!Drop, Runtime!Live, Runtime!Preparing,
          RuntimeShape, Runtime!TypeOK
  <2>2. acceptance' \in [Runtime!Setup -> {"none", "pending", "job", "failed", "unknown"}]
    BY <1>1
      DEF Runtime!Observe, Runtime!Finished, Runtime!Drop, Runtime!Live, Runtime!Preparing,
          RuntimeShape, Runtime!TypeOK
  <2>3. {installed', binary', verification'} \subseteq Version \cup {NoVersion}
    BY <1>1
      DEF Runtime!Observe, Runtime!Finished, Runtime!Drop, Runtime!Live, Runtime!Preparing,
          RuntimeShape, Runtime!TypeOK, Runtime!files, Runtime!jobs, Runtime!Setup,
          Runtime!PreparationAssumption
  <2>4. job' \in [Runtime!Setup -> {"none", "queued"} \cup Runtime!AtWork \cup Runtime!Ended]
    BY <1>1
      DEF Runtime!Observe, Runtime!Finished, Runtime!Drop, Runtime!Live, Runtime!Preparing,
          RuntimeShape, Runtime!TypeOK, Runtime!files, Runtime!jobs, Runtime!Setup,
          Runtime!PreparationAssumption
  <2>5. flock' \in Runtime!Setup \cup {Runtime!NoSetup} /\ held' \subseteq Runtime!Setup
    BY <1>1
      DEF Runtime!Observe, Runtime!Finished, Runtime!Drop, Runtime!Live, Runtime!Preparing,
          RuntimeShape, Runtime!TypeOK
  <2>6. slips' \in 0 .. MaxSlips
    BY <1>1
      DEF Runtime!Observe, Runtime!Finished, Runtime!Drop, Runtime!Live, Runtime!Preparing,
          RuntimeShape, Runtime!TypeOK
  <2> QED
    BY <2>1, <2>2, <2>3, <2>4, <2>5, <2>6 DEF Runtime!TypeOK
<1>3. RuntimeTypes'
  BY <1>1
    DEF Runtime!Observe, Runtime!Finished, RuntimeTypes, RuntimeShape, Runtime!document,
        Runtime!files, Runtime!jobs, Runtime!Setup, Runtime!PreparationAssumption,
        Runtime!NoSetup
<1>4. runtime.active = r /\ job[r] \in {"cancelled", "failed"} /\ Runtime!Alive /\ Runtime!Live(r)
  BY DEF Runtime!Observe, Runtime!Live
<1>5. /\ runtime'.state = "not_prepared" /\ runtime'.revision = runtime.revision
      /\ runtime'.pending = runtime.pending /\ runtime'.active = Runtime!NoSetup
      /\ runtime'.step = "none" /\ runtime'.server = runtime.server
  BY DEF Runtime!Observe, Runtime!Finished
<1>6. held' = held \ {r} /\ flock' = (IF r \in held /\ flock = r THEN Runtime!NoSetup ELSE flock)
  BY <1>5 DEF Runtime!Observe, Runtime!Drop, Runtime!document, Runtime!files, Runtime!jobs
<1>7. UNCHANGED <<acceptance, installed, binary, verification, serving, server, preparer, gate,
                  job, target, flagged, slips>>
  BY DEF Runtime!Observe, Runtime!document, Runtime!files, Runtime!jobs
<1>8. PrepareInv'
  BY <1>1, <1>4, <1>5, <1>6, <1>7 DEF PrepareInv, Runtime!Locked, Runtime!Alive
<1>9. RuntimeFileInv'
  BY <1>1, <1>4, <1>5, <1>6, <1>7
    DEF RuntimeFileInv, Runtime!Idle, RuntimeBusy, Runtime!Alive, RuntimeShape
<1>10. WriterInv'
  BY <1>1, <1>4, <1>5, <1>6, <1>7
    DEF WriterInv, SetupsInv, WritingSteps, Runtime!Alive, RuntimeShape
<1>11. RuntimeLockInv'
  BY <1>1, <1>4, <1>5, <1>6, <1>7 DEF RuntimeLockInv, Runtime!Alive, Runtime!AtWork
<1>12. Runtime!ReadyIsVerified'
  BY <1>5, <1>6, <1>7 DEF Runtime!ReadyIsVerified
<1>13. SetupsInv' /\ OneAtWork' /\ CopyInv'
  BY <1>1, <1>7 DEF SetupsInv, OneAtWork, CopyInv
<1> QED
  BY <1>2, <1>3, <1>8, <1>9, <1>13, <1>10, <1>11, <1>12 DEF RuntimeInv

\* Runtime!Close keeps RuntimeInv.
LEMMA RuntimeCloseKeeps ==
  ASSUME RuntimeInv, Runtime!PreparationAssumption, Runtime!Close
  PROVE  RuntimeInv'
<1>1. /\ Runtime!TypeOK /\ RuntimeTypes /\ PrepareInv /\ RuntimeFileInv /\ SetupsInv /\ OneAtWork
      /\ WriterInv /\ CopyInv /\ RuntimeLockInv /\ Runtime!ReadyIsVerified /\ RuntimeShape
  BY RuntimeShapeHolds DEF RuntimeInv
<1>2. Runtime!TypeOK'
  <2>1. runtime' \in [state : {"not_prepared", "preparing", "ready", "failed", "unknown"},
                     revision : Version \cup {NoVersion},
                     pending : Runtime!Setup \cup {Runtime!NoSetup},
                     active : Runtime!Setup \cup {Runtime!NoSetup},
                     step : {"none", "queued", "running", "unknown"},
                     server : 1 .. MaxServers]
    <3>1. CASE runtime' = runtime
      BY <1>1, <3>1 DEF Runtime!TypeOK
    <3>2. CASE /\ runtime' = [runtime EXCEPT !.active = Runtime!NoSetup, !.step = "none",
                              !.state = "not_prepared"]
      BY <1>1, <3>2 DEF Runtime!TypeOK
    <3> QED
      BY <3>1, <3>2 DEF Runtime!Close, Runtime!Finished
  <2>2. acceptance' \in [Runtime!Setup -> {"none", "pending", "job", "failed", "unknown"}]
    BY <1>1
      DEF Runtime!Close, Runtime!Finished, Runtime!Drop, Runtime!Live, Runtime!Preparing,
          RuntimeShape, Runtime!TypeOK
  <2>3. {installed', binary', verification'} \subseteq Version \cup {NoVersion}
    BY <1>1
      DEF Runtime!Close, Runtime!Finished, Runtime!Drop, Runtime!Live, Runtime!Preparing,
          RuntimeShape, Runtime!TypeOK, Runtime!files, Runtime!jobs, Runtime!Setup,
          Runtime!PreparationAssumption
  <2>4. job' \in [Runtime!Setup -> {"none", "queued"} \cup Runtime!AtWork \cup Runtime!Ended]
    BY <1>1
      DEF Runtime!Close, Runtime!Finished, Runtime!Drop, Runtime!Live, Runtime!Preparing,
          RuntimeShape, Runtime!TypeOK, Runtime!files, Runtime!jobs, Runtime!Setup,
          Runtime!PreparationAssumption
  <2>5. flock' \in Runtime!Setup \cup {Runtime!NoSetup} /\ held' \subseteq Runtime!Setup
    BY <1>1
      DEF Runtime!Close, Runtime!Finished, Runtime!Drop, Runtime!Live, Runtime!Preparing,
          RuntimeShape, Runtime!TypeOK
  <2>6. slips' \in 0 .. MaxSlips
    BY <1>1
      DEF Runtime!Close, Runtime!Finished, Runtime!Drop, Runtime!Live, Runtime!Preparing,
          RuntimeShape, Runtime!TypeOK
  <2> QED
    BY <2>1, <2>2, <2>3, <2>4, <2>5, <2>6 DEF Runtime!TypeOK
<1>3. RuntimeTypes'
  BY <1>1
    DEF Runtime!Close, Runtime!Finished, RuntimeTypes, RuntimeShape, Runtime!document,
        Runtime!files, Runtime!jobs, Runtime!Setup, Runtime!PreparationAssumption,
        Runtime!NoSetup
<1>4. serving = "up" /\ serving' = "closing" /\ ~Runtime!Locked
  BY DEF Runtime!Close
<1>5. CASE /\ runtime.active # Runtime!NoSetup /\ Runtime!Live(runtime.active)
           /\ runtime.step = "queued"
  <2>1. /\ runtime'.state = "not_prepared" /\ runtime'.revision = runtime.revision
        /\ runtime'.pending = runtime.pending /\ runtime'.active = Runtime!NoSetup
        /\ runtime'.step = "none" /\ runtime'.server = runtime.server
    BY <1>1, <1>5, <1>4
      DEF Runtime!Close, Runtime!Finished, Runtime!TypeOK, Runtime!jobs, RuntimeShape
  <2>2. /\ held' = held \ {runtime.active}
        /\ flock' =
             (IF runtime.active \in held /\ flock = runtime.active THEN Runtime!NoSetup ELSE flock)
    BY <1>1, <1>5 DEF Runtime!Close, Runtime!Drop, Runtime!jobs, RuntimeShape
  <2>3. UNCHANGED <<acceptance, installed, binary, verification, server, preparer, gate, job,
                    target, flagged, slips>>
    BY DEF Runtime!Close, Runtime!document, Runtime!files, Runtime!jobs
  <2>4. PrepareInv'
    BY <1>1, <1>5, <1>4, <2>1, <2>2, <2>3
      DEF PrepareInv, Runtime!Locked, Runtime!Alive, RuntimeShape
  <2>5. RuntimeFileInv'
    BY <1>1, <1>5, <1>4, <2>1 DEF RuntimeFileInv, Runtime!Idle, RuntimeBusy, Runtime!Alive
  <2>6. WriterInv'
    BY <1>1, <1>5, <1>4, <2>1, <2>2, <2>3 DEF WriterInv, SetupsInv, WritingSteps, Runtime!Alive
  <2>7. RuntimeLockInv'
    BY <1>1, <1>5, <1>4, <2>1, <2>2, <2>3
      DEF RuntimeLockInv, Runtime!Alive, Runtime!AtWork, RuntimeShape
  <2>8. Runtime!ReadyIsVerified'
    BY <1>4, <2>1 DEF Runtime!ReadyIsVerified, RuntimeShape
  <2>9. SetupsInv' /\ OneAtWork' /\ CopyInv'
    BY <1>1, <2>3 DEF SetupsInv, OneAtWork, CopyInv
  <2> QED
    BY <1>2, <1>3, <2>4, <2>5, <2>9, <2>6, <2>7, <2>8 DEF RuntimeInv
<1>6. CASE ~(/\ runtime.active # Runtime!NoSetup
             /\ Runtime!Live(runtime.active)
             /\ runtime.step = "queued")
  <2>1. UNCHANGED <<runtime, acceptance, installed, binary, verification, server, preparer, gate,
                    job, target, flagged, flock, held, slips>>
    BY <1>1, <1>6, <1>4
      DEF Runtime!Close, Runtime!document, Runtime!files, Runtime!jobs, RuntimeShape
  <2>2. PrepareInv'
    BY <1>1, <1>6, <1>4, <2>1 DEF PrepareInv, Runtime!Locked, Runtime!Alive, RuntimeShape
  <2>3. RuntimeFileInv'
    BY <1>1, <1>6, <1>4, <2>1 DEF RuntimeFileInv, Runtime!Idle, RuntimeBusy, Runtime!Alive
  <2>4. WriterInv'
    BY <1>1, <1>6, <1>4, <2>1 DEF WriterInv, SetupsInv, WritingSteps, Runtime!Alive
  <2>5. RuntimeLockInv'
    BY <1>1, <1>6, <1>4, <2>1 DEF RuntimeLockInv, Runtime!Alive
  <2>6. SetupsInv' /\ OneAtWork' /\ CopyInv' /\ Runtime!ReadyIsVerified'
    BY <1>1, <2>1 DEF SetupsInv, OneAtWork, CopyInv, Runtime!ReadyIsVerified
  <2> QED
    BY <1>2, <1>3, <2>2, <2>3, <2>6, <2>4, <2>5 DEF RuntimeInv
<1> QED
  BY <1>5, <1>6

\* Runtime!Shutdown keeps RuntimeInv.
LEMMA RuntimeShutdownKeeps ==
  ASSUME RuntimeInv, Runtime!PreparationAssumption, Runtime!Shutdown
  PROVE  RuntimeInv'
<1>1. /\ Runtime!TypeOK /\ RuntimeTypes /\ PrepareInv /\ RuntimeFileInv /\ SetupsInv /\ OneAtWork
      /\ WriterInv /\ CopyInv /\ RuntimeLockInv /\ Runtime!ReadyIsVerified /\ RuntimeShape
  BY RuntimeShapeHolds DEF RuntimeInv
<1>2. Runtime!TypeOK'
  BY <1>1
    DEF Runtime!Shutdown, Runtime!Setup, Runtime!Preparing, Runtime!TypeOK, RuntimeShape,
        Runtime!AtWork, Runtime!Ended, Runtime!document, Runtime!files, Runtime!jobs,
        Runtime!PreparationAssumption
<1>3. RuntimeTypes'
  BY <1>1 DEF Runtime!Shutdown, RuntimeTypes
<1>4. \A r \in Runtime!Setup : job'[r] = IF job[r] = "queued" THEN "failed" ELSE job[r]
  BY DEF Runtime!Shutdown
<1>5. \A r \in Runtime!Setup : job'[r] \in Runtime!AtWork => job[r] \in Runtime!AtWork
  BY <1>4 DEF Runtime!AtWork
<1>6. serving = "closing" /\ serving' = "draining"
  BY DEF Runtime!Shutdown
<1>7. UNCHANGED <<runtime, acceptance, installed, binary, verification, server, preparer, gate,
                  target, flagged, flock, held, slips>>
  BY DEF Runtime!Shutdown, Runtime!document, Runtime!files, Runtime!jobs
<1>8. PrepareInv'
  BY <1>1, <1>4, <1>5, <1>6, <1>7 DEF PrepareInv, Runtime!Locked, Runtime!Alive, RuntimeShape
<1>9. RuntimeFileInv'
  BY <1>1, <1>4, <1>5, <1>6, <1>7
    DEF RuntimeFileInv, Runtime!Idle, RuntimeBusy, Runtime!Alive, RuntimeShape
<1>10. SetupsInv'
  BY <1>1, <1>4, <1>7 DEF SetupsInv, AdmittedSteps, WritingSteps
<1>11. OneAtWork'
  BY <1>1, <1>5, <1>6, <1>7 DEF OneAtWork
<1>12. WriterInv'
  BY <1>1, <1>4, <1>5, <1>6, <1>7
    DEF WriterInv, SetupsInv, WritingSteps, Runtime!Alive, RuntimeShape
<1>13. CopyInv'
  BY <1>1, <1>4, <1>7 DEF CopyInv, WritingSteps, RuntimeShape
<1>14. RuntimeLockInv'
  BY <1>1, <1>4, <1>5, <1>6, <1>7 DEF RuntimeLockInv, Runtime!Alive, Runtime!AtWork, RuntimeShape
<1>15. Runtime!ReadyIsVerified'
  BY <1>1, <1>7 DEF Runtime!ReadyIsVerified
<1> QED
  BY <1>2, <1>3, <1>8, <1>9, <1>10, <1>11, <1>12, <1>13, <1>14, <1>15 DEF RuntimeInv

\* Runtime!Die keeps RuntimeInv.
LEMMA RuntimeDieKeeps ==
  ASSUME RuntimeInv, Runtime!PreparationAssumption, Runtime!Die
  PROVE  RuntimeInv'
<1>1. /\ Runtime!TypeOK /\ RuntimeTypes /\ PrepareInv /\ RuntimeFileInv /\ SetupsInv /\ OneAtWork
      /\ WriterInv /\ CopyInv /\ RuntimeLockInv /\ Runtime!ReadyIsVerified /\ RuntimeShape
  BY RuntimeShapeHolds DEF RuntimeInv
<1>2. Runtime!TypeOK'
  BY <1>1
    DEF Runtime!Die, Runtime!Setup, Runtime!Preparing, Runtime!TypeOK, RuntimeShape,
        Runtime!AtWork, Runtime!Ended, Runtime!document, Runtime!files, Runtime!jobs,
        Runtime!PreparationAssumption
<1>3. RuntimeTypes'
  BY <1>1 DEF Runtime!Die, RuntimeTypes
<1>4. /\ serving' = "down" /\ preparer'.pc = "idle" /\ preparer'.request = Runtime!NoSetup
      /\ flock' = Runtime!NoSetup /\ held' = {} /\ flagged' = {}
  BY DEF Runtime!Die
<1>5. UNCHANGED <<runtime, acceptance, installed, binary, verification, server, gate, job,
                  target, slips>>
  BY DEF Runtime!Die, Runtime!document, Runtime!files, Runtime!jobs
<1>6. PrepareInv'
  BY <1>4 DEF PrepareInv, Runtime!Locked, Runtime!Alive
<1>7. RuntimeFileInv'
  BY <1>1, <1>4, <1>5 DEF RuntimeFileInv, Runtime!Idle, RuntimeBusy, Runtime!Alive, RuntimeShape
<1>8. WriterInv'
  BY <1>1, <1>4, <1>5 DEF WriterInv, Runtime!Alive, RuntimeShape
<1>9. RuntimeLockInv'
  BY <1>4 DEF RuntimeLockInv, Runtime!Alive, Runtime!AtWork
<1>10. SetupsInv' /\ OneAtWork' /\ CopyInv' /\ Runtime!ReadyIsVerified'
  BY <1>1, <1>5 DEF SetupsInv, OneAtWork, CopyInv, Runtime!ReadyIsVerified
<1> QED
  BY <1>2, <1>3, <1>6, <1>7, <1>10, <1>8, <1>9 DEF RuntimeInv

\* Runtime!Start keeps RuntimeInv.
LEMMA RuntimeStartKeeps ==
  ASSUME RuntimeInv, Runtime!PreparationAssumption, Runtime!Start
  PROVE  RuntimeInv'
<1>1. /\ Runtime!TypeOK /\ RuntimeTypes /\ PrepareInv /\ RuntimeFileInv /\ SetupsInv /\ OneAtWork
      /\ WriterInv /\ CopyInv /\ RuntimeLockInv /\ Runtime!ReadyIsVerified /\ RuntimeShape
  BY RuntimeShapeHolds DEF RuntimeInv
<1>2. Runtime!TypeOK'
  <2>1. runtime' \in [state : {"not_prepared", "preparing", "ready", "failed", "unknown"},
                     revision : Version \cup {NoVersion},
                     pending : Runtime!Setup \cup {Runtime!NoSetup},
                     active : Runtime!Setup \cup {Runtime!NoSetup},
                     step : {"none", "queued", "running", "unknown"},
                     server : 1 .. MaxServers]
    BY <1>1 DEF Runtime!Start, Runtime!Setup, Runtime!Preparing, RuntimeShape, Runtime!TypeOK
  <2>2. acceptance' \in [Runtime!Setup -> {"none", "pending", "job", "failed", "unknown"}]
    BY <1>1 DEF Runtime!Start, Runtime!Setup, Runtime!Preparing, RuntimeShape, Runtime!TypeOK
  <2>3. {installed', binary', verification'} \subseteq Version \cup {NoVersion}
    BY <1>1
      DEF Runtime!Start, Runtime!Setup, Runtime!Preparing, RuntimeShape, Runtime!TypeOK,
          Runtime!document, Runtime!files, Runtime!jobs, Runtime!PreparationAssumption,
          Runtime!NoSetup
  <2>4. job' \in [Runtime!Setup -> {"none", "queued"} \cup Runtime!AtWork \cup Runtime!Ended]
    BY <1>1
      DEF Runtime!Start, Runtime!Setup, Runtime!Preparing, RuntimeShape, Runtime!TypeOK,
          RuntimeTypes, Runtime!AtWork, Runtime!Ended, Runtime!PreparationAssumption,
          Runtime!NoSetup
  <2>5. flock' \in Runtime!Setup \cup {Runtime!NoSetup} /\ held' \subseteq Runtime!Setup
    BY <1>1 DEF Runtime!Start, Runtime!Setup, Runtime!Preparing, RuntimeShape, Runtime!TypeOK
  <2>6. slips' \in 0 .. MaxSlips
    BY <1>1 DEF Runtime!Start, Runtime!Setup, Runtime!Preparing, RuntimeShape, Runtime!TypeOK
  <2> QED
    BY <2>1, <2>2, <2>3, <2>4, <2>5, <2>6 DEF Runtime!TypeOK
<1>3. RuntimeTypes'
  BY <1>1
    DEF Runtime!Start, RuntimeTypes, RuntimeShape, Runtime!document, Runtime!files,
        Runtime!jobs, Runtime!PreparationAssumption
<1>4. /\ serving = "down" /\ serving' = "up" /\ server' = server + 1 /\ preparer.pc = "idle"
      /\ flock = Runtime!NoSetup /\ held = {}
  BY <1>1 DEF Runtime!Start, RuntimeLockInv, Runtime!Alive, Runtime!jobs, RuntimeShape
<1>5. /\ \A r \in Runtime!Setup :
           job'[r] = IF job[r] = "queued" \/ job[r] \in Runtime!AtWork THEN "failed" ELSE job[r]
  BY DEF Runtime!Start
<1>6. \A r \in Runtime!Setup : job'[r] \notin Runtime!AtWork /\ job'[r] # "queued"
  BY <1>5 DEF Runtime!AtWork
<1>7. \A r \in Runtime!Setup : job[r] = "none" <=> job'[r] = "none"
  BY <1>5, <1>6 DEF Runtime!AtWork, Runtime!document, Runtime!files, Runtime!jobs
<1>8. \A r \in Runtime!Setup : job'[r] \notin AdmittedSteps \/ job'[r] = job[r]
  BY <1>5, <1>6, <1>7
    DEF AdmittedSteps, WritingSteps, Runtime!document, Runtime!files, Runtime!jobs
<1>9. \A r \in Runtime!Setup : job'[r] \notin WritingSteps \cup {"queued", "gated", "begin"}
  BY <1>6, <1>7, <1>8 DEF WritingSteps, Runtime!AtWork, Runtime!document
<1>10. runtime'.pending = Runtime!NoSetup /\ runtime'.step \notin {"queued", "running"}
  BY DEF Runtime!Start, Runtime!TypeOK, Runtime!Idle
<1>11. runtime'.state = "ready" => runtime.state = "ready"
  BY DEF Runtime!Start, Runtime!TypeOK
<1>12. runtime'.revision = runtime.revision
  BY <1>10, <1>11 DEF Runtime!Start
<1>13. /\ \A r \in Runtime!Setup :
            acceptance'[r] = (IF acceptance[r] = "pending" THEN "unknown" ELSE acceptance[r])
  BY DEF Runtime!Start, Runtime!document, Runtime!files
<1>14. UNCHANGED <<installed, binary, verification, preparer, gate, target, flagged, flock, held,
                   slips>>
  BY <1>13 DEF Runtime!Start, Runtime!document, Runtime!files, Runtime!jobs, RuntimeShape
<1>15. PrepareInv'
  BY <1>1, <1>4, <1>5, <1>6, <1>11, <1>12, <1>13, <1>14
    DEF PrepareInv, Runtime!Locked, Runtime!Alive, RuntimeShape
<1>16. RuntimeFileInv'
  BY <1>7, <1>8, <1>9, <1>10 DEF RuntimeFileInv, Runtime!Idle, RuntimeBusy, Runtime!Alive
<1>17. SetupsInv'
  BY <1>1, <1>4, <1>5, <1>6, <1>7, <1>8, <1>12, <1>13, <1>14 DEF SetupsInv
<1>18. OneAtWork'
  BY <1>6, <1>7, <1>8 DEF OneAtWork, RuntimeShape
<1>19. WriterInv'
  BY <1>9, <1>10, <1>11 DEF WriterInv
<1>20. CopyInv'
  BY <1>9, <1>10, <1>11, <1>12, <1>13, <1>14 DEF CopyInv, WritingSteps
<1>21. RuntimeLockInv'
  BY <1>1, <1>4, <1>5, <1>6, <1>11, <1>12, <1>13, <1>14
    DEF RuntimeLockInv, Runtime!Alive, Runtime!AtWork, RuntimeShape
<1>22. Runtime!ReadyIsVerified'
  BY <1>1, <1>4, <1>5, <1>9, <1>10, <1>11, <1>12, <1>13, <1>14
    DEF Runtime!ReadyIsVerified, RuntimeShape
<1> QED
  BY <1>2, <1>3, <1>15, <1>16, <1>17, <1>18, <1>19, <1>20, <1>21, <1>22 DEF RuntimeInv

\* Runtime!Finish keeps RuntimeInv.
LEMMA RuntimeFinishKeeps ==
  ASSUME RuntimeInv, Runtime!PreparationAssumption, NEW r \in Runtime!Setup,
         NEW ending \in Runtime!Ended, NEW saved \in BOOLEAN, Runtime!Alive,
         Runtime!Finish(r, ending, saved)
  PROVE  RuntimeInv'
<1>1. /\ Runtime!TypeOK /\ RuntimeTypes /\ PrepareInv /\ RuntimeFileInv /\ SetupsInv /\ OneAtWork
      /\ WriterInv /\ CopyInv /\ RuntimeLockInv /\ Runtime!ReadyIsVerified /\ RuntimeShape
  BY RuntimeShapeHolds DEF RuntimeInv
<1>2. Runtime!TypeOK'
  <2>1. runtime' \in [state : {"not_prepared", "preparing", "ready", "failed", "unknown"},
                     revision : Version \cup {NoVersion},
                     pending : Runtime!Setup \cup {Runtime!NoSetup},
                     active : Runtime!Setup \cup {Runtime!NoSetup},
                     step : {"none", "queued", "running", "unknown"},
                     server : 1 .. MaxServers]
    <3>1. CASE runtime' = runtime
      BY <1>1, <3>1 DEF Runtime!TypeOK
    <3>2. CASE \E state \in {"ready", "failed", "not_prepared"} :
                 runtime' =
                   [runtime EXCEPT !.active = Runtime!NoSetup, !.step = "none", !.state = state]
      BY <1>1, <3>2 DEF Runtime!TypeOK
    <3> QED
      BY <3>1, <3>2 DEF Runtime!Finish, Runtime!Finished
  <2>2. acceptance' \in [Runtime!Setup -> {"none", "pending", "job", "failed", "unknown"}]
    BY <1>1
      DEF Runtime!Finish, Runtime!Move, Runtime!Drop, Runtime!Preparing, RuntimeShape,
          Runtime!TypeOK, RuntimeTypes, Runtime!AtWork, Runtime!document, Runtime!files,
          Runtime!jobs, Runtime!Setup, Runtime!PreparationAssumption
  <2>3. {installed', binary', verification'} \subseteq Version \cup {NoVersion}
    BY <1>1
      DEF Runtime!Finish, Runtime!Move, Runtime!Drop, Runtime!Preparing, RuntimeShape,
          Runtime!TypeOK, RuntimeTypes, Runtime!AtWork, Runtime!document, Runtime!files,
          Runtime!jobs, Runtime!Setup, Runtime!PreparationAssumption
  <2>4. job' \in [Runtime!Setup -> {"none", "queued"} \cup Runtime!AtWork \cup Runtime!Ended]
    <3>1. PICK x \in {"finish failed"} \cup Runtime!Ended : job' = [job EXCEPT ![r] = x]
      BY DEF Runtime!Finish, Runtime!Move, Runtime!Ended
    <3> QED
      BY <1>1, <3>1 DEF Runtime!TypeOK, Runtime!AtWork
  <2>5. flock' \in Runtime!Setup \cup {Runtime!NoSetup} /\ held' \subseteq Runtime!Setup
    BY <1>1
      DEF Runtime!Finish, Runtime!Move, Runtime!Drop, Runtime!Preparing, RuntimeShape,
          Runtime!TypeOK, RuntimeTypes, Runtime!AtWork, Runtime!document, Runtime!files,
          Runtime!jobs, Runtime!Setup, Runtime!PreparationAssumption
  <2>6. slips' \in 0 .. MaxSlips
    <3>1. slips' = slips \/ (slips < MaxSlips /\ slips' = slips + 1)
      BY DEF Runtime!Finish, Runtime!Slip
    <3> QED
      BY <1>1, <3>1 DEF Runtime!TypeOK, Runtime!PreparationAssumption
  <2> QED
    BY <2>1, <2>2, <2>3, <2>4, <2>5, <2>6 DEF Runtime!TypeOK
<1>3. RuntimeTypes'
  BY <1>1
    DEF Runtime!Finish, Runtime!Move, Runtime!Drop, Runtime!Preparing, RuntimeTypes,
        RuntimeShape, Runtime!document, Runtime!files, Runtime!jobs, Runtime!Setup,
        Runtime!PreparationAssumption
<1>4. /\ job[r] \in {"finish succeeded", "finish failed", "finish cancelled"}
      /\ (job[r] = "finish succeeded" <=> ending = "succeeded")
  BY DEF Runtime!Finish
<1>5. ~Runtime!Locked
  BY DEF Runtime!Finish
<1>6. gate[r] = "accepted" /\ acceptance[r] \notin {"none", "failed"}
  BY <1>1, <1>4 DEF RuntimeShape, SetupsInv, AdmittedSteps, WritingSteps
<1>7. job[r] \in Runtime!AtWork
  BY <1>4 DEF Runtime!AtWork
<1>8. \A q \in Runtime!Setup \ {r} : job[q] \notin Runtime!AtWork \cup WritingSteps
  BY <1>1, <1>7 DEF OneAtWork, Runtime!AtWork, WritingSteps
<1>9. CASE saved /\ Runtime!Live(r)
  <2>1. job'[r] \in {ending} /\ \A q \in Runtime!Setup \ {r} : job'[q] = job[q]
    BY <1>1, <1>9
      DEF Runtime!Finish, Runtime!Move, Runtime!TypeOK, Runtime!Ended, Runtime!document,
          Runtime!files
  <2>2. \A q \in Runtime!Setup \ {r} : job'[q] \notin Runtime!AtWork \cup WritingSteps
    BY <1>8, <2>1
  <2>3. \A q \in Runtime!Setup :
            job'[q] \notin WritingSteps \cup {"verify", "check", "finish succeeded"}
    BY <1>6, <1>7, <1>8, <2>1, <2>2 DEF WritingSteps, Runtime!AtWork, Runtime!Ended
  <2>4. job'[r] \notin {"none", "queued", "gated", "begin"}
    BY <2>1, <2>2, <2>3 DEF Runtime!Ended, Runtime!document, Runtime!files
  <2>5. held' = held \ {r} /\ flock' = (IF r \in held /\ flock = r THEN Runtime!NoSetup ELSE flock)
    BY <1>1, <1>9, <1>4, <1>5, <2>2, <2>3, <2>4
      DEF Runtime!Finish, Runtime!Drop, Runtime!document, Runtime!files, Runtime!jobs
  <2>6. held' = {} /\ flock' \in {Runtime!NoSetup, preparer.request}
    BY <1>1, <1>9, <1>4, <1>5, <1>6, <1>7, <1>8, <2>1, <2>2, <2>3, <2>4, <2>5
      DEF RuntimeLockInv, RuntimeFileInv, RuntimeBusy, Runtime!AtWork, Runtime!Live,
          Runtime!document, Runtime!files, Runtime!jobs, RuntimeShape
  <2>7. /\ runtime'.revision = runtime.revision /\ runtime'.pending = runtime.pending
        /\ runtime'.active = Runtime!NoSetup /\ runtime'.step = "none"
        /\ runtime'.server = runtime.server
        /\ (runtime'.state = "ready" <=> ending = "succeeded")
    BY <1>1, <1>9
      DEF Runtime!Finish, Runtime!Finished, Runtime!TypeOK, Runtime!Ended, Runtime!document,
          Runtime!files
  <2>8. /\ runtime.active = r /\ runtime.step \in {"queued", "running"}
        /\ runtime.pending = Runtime!NoSetup
    BY <1>1, <1>9, <1>4, <1>5, <1>6, <2>4, <2>5, <2>6, <2>7
      DEF Runtime!Live, RuntimeFileInv, RuntimeBusy, Runtime!document, Runtime!files, Runtime!jobs
  <2>9. UNCHANGED <<acceptance, installed, binary, verification, serving, server, preparer, gate,
                    target, flagged, slips>>
    BY <2>6, <2>7, <2>8
      DEF Runtime!Finish, Runtime!document, Runtime!files, Runtime!jobs, RuntimeShape
  <2>10. PrepareInv'
    BY <1>1, <1>9, <1>4, <1>5, <1>6, <2>4, <2>5, <2>6, <2>7, <2>8, <2>9
      DEF PrepareInv, Runtime!Locked, Runtime!Alive, RuntimeShape
  <2>11. RuntimeFileInv'
    BY <2>6, <2>7, <2>8, <2>9 DEF RuntimeFileInv, Runtime!Idle, RuntimeBusy, Runtime!Alive
  <2>12. SetupsInv'
    BY <1>1, <1>9, <1>4, <1>5, <1>6, <1>7, <1>8, <2>1, <2>6, <2>7, <2>8, <2>9
      DEF SetupsInv
  <2>13. OneAtWork'
    BY <2>2, <2>3, <2>4, <2>5 DEF OneAtWork, RuntimeShape
  <2>14. WriterInv'
    BY <2>3, <2>4, <2>5, <2>6, <2>7, <2>8, <2>9 DEF WriterInv
  <2>15. CopyInv'
    BY <2>2, <2>3, <2>4, <2>5 DEF CopyInv
  <2>16. RuntimeLockInv'
    BY <2>6, <2>7, <2>8, <2>9 DEF RuntimeLockInv, Runtime!Alive, Runtime!AtWork, RuntimeShape
  <2>17. Runtime!ReadyIsVerified'
    BY <1>1, <1>9, <1>4, <1>5, <1>6, <1>7, <1>8, <2>1, <2>2, <2>3, <2>4, <2>5, <2>6, <2>7, <2>8,
       <2>9
      DEF Runtime!ReadyIsVerified, CopyInv, RuntimeFileInv, RuntimeBusy, WritingSteps,
          RuntimeShape
  <2> QED
    BY <1>2, <1>3, <2>10, <2>11, <2>12, <2>13, <2>14, <2>15, <2>16, <2>17 DEF RuntimeInv
<1>10. CASE saved /\ ~Runtime!Live(r)
  <2>1. job'[r] \in {ending} /\ \A q \in Runtime!Setup \ {r} : job'[q] = job[q]
    BY <1>1, <1>10
      DEF Runtime!Finish, Runtime!Move, Runtime!TypeOK, Runtime!Ended, Runtime!document,
          Runtime!files
  <2>2. \A q \in Runtime!Setup \ {r} : job'[q] \notin Runtime!AtWork \cup WritingSteps
    BY <1>8, <2>1
  <2>3. \A q \in Runtime!Setup :
            job'[q] \notin WritingSteps \cup {"verify", "check", "finish succeeded"}
    BY <1>6, <1>7, <1>8, <2>1, <2>2 DEF WritingSteps, Runtime!AtWork, Runtime!Ended
  <2>4. job'[r] \notin {"none", "queued", "gated", "begin"}
    BY <2>1, <2>2, <2>3 DEF Runtime!Ended, Runtime!document, Runtime!files
  <2>5. held' = held \ {r} /\ flock' = (IF r \in held /\ flock = r THEN Runtime!NoSetup ELSE flock)
    BY <1>1, <1>10, <1>4, <1>5, <2>2, <2>3, <2>4
      DEF Runtime!Finish, Runtime!Drop, Runtime!document, Runtime!files, Runtime!jobs
  <2>6. RuntimeBusy => runtime.active # r
    BY <1>1, <1>10, <1>4, <1>5, <1>6, <2>4, <2>5
      DEF Runtime!Live, RuntimeFileInv, Runtime!Idle, RuntimeBusy, Runtime!document,
          Runtime!files, Runtime!jobs, RuntimeShape
  <2>7. UNCHANGED <<runtime, acceptance, installed, binary, verification, serving, server,
                    preparer, gate, target, flagged, slips>>
    BY <1>1, <1>10, <1>4, <1>5, <2>6
      DEF Runtime!Finish, Runtime!Finished, Runtime!document, Runtime!files, Runtime!jobs
  <2>8. PrepareInv'
    BY <1>1, <1>10, <1>4, <1>5, <2>2, <2>3, <2>4, <2>5, <2>6, <2>7
      DEF PrepareInv, Runtime!Locked, Runtime!Alive, RuntimeShape
  <2>9. RuntimeFileInv'
    BY <1>1, <1>10, <1>4, <1>5, <1>6, <1>7, <1>8, <2>1, <2>6, <2>7
      DEF RuntimeFileInv, Runtime!Idle, RuntimeBusy, Runtime!Alive, RuntimeShape
  <2>10. SetupsInv'
    BY <1>1, <1>10, <1>4, <1>5, <1>6, <1>7, <1>8, <2>1, <2>6, <2>7
      DEF SetupsInv, AdmittedSteps, WritingSteps, RuntimeShape
  <2>11. OneAtWork'
    BY <2>2, <2>3, <2>6, <2>7 DEF OneAtWork, RuntimeShape
  <2>12. WriterInv'
    BY <1>1, <1>10, <1>4, <1>5, <1>6, <1>7, <1>8, <2>1, <2>2, <2>3, <2>4, <2>5, <2>6,
       <2>7
      DEF WriterInv, SetupsInv
  <2>13. CopyInv'
    BY <2>1, <2>2, <2>3, <2>7 DEF CopyInv
  <2>14. RuntimeLockInv'
    BY <1>1, <1>10, <1>4, <1>5, <1>6, <1>7, <1>8, <2>1, <2>2, <2>3, <2>4, <2>5, <2>6,
       <2>7
      DEF RuntimeLockInv, Runtime!Alive, Runtime!AtWork, RuntimeShape
  <2>15. Runtime!ReadyIsVerified'
    BY <1>1, <2>7 DEF Runtime!ReadyIsVerified
  <2> QED
    BY <1>2, <1>3, <2>8, <2>9, <2>10, <2>11, <2>12, <2>13, <2>14, <2>15 DEF RuntimeInv
<1>11. CASE ~saved /\ ending = "succeeded"
  <2>1. job'[r] \in {"finish failed"} /\ \A q \in Runtime!Setup \ {r} : job'[q] = job[q]
    BY <1>1, <1>11
      DEF Runtime!Finish, Runtime!Move, Runtime!TypeOK, Runtime!Ended, Runtime!document,
          Runtime!files
  <2>2. \A q \in Runtime!Setup \ {r} : job'[q] \notin Runtime!AtWork \cup WritingSteps
    BY <1>8, <2>1
  <2>3. \A q \in Runtime!Setup :
            job'[q] \notin WritingSteps \cup {"verify", "check", "finish succeeded"}
    BY <1>6, <1>7, <1>8, <2>1, <2>2 DEF WritingSteps, Runtime!AtWork, Runtime!Ended
  <2>4. job'[r] \notin {"none", "queued", "gated", "begin"}
    BY <2>1, <2>2, <2>3
  <2>5. slips \in Nat
    BY <1>1 DEF Runtime!TypeOK
  <2>6. slips' = slips + 1
    BY <1>11 DEF Runtime!Finish, Runtime!Slip, Runtime!document, Runtime!files
  <2>7. (slips >= 1 => slips' >= 1) /\ (slips' < 2 => slips < 2)
    BY <2>5, <2>6
  <2>8. UNCHANGED <<runtime, acceptance, installed, binary, verification, serving, server,
                    preparer, gate, target, flagged, flock, held>>
    BY <1>1, <1>11, <1>4, <1>5, <2>6, <2>7
      DEF Runtime!Finish, Runtime!document, Runtime!files, Runtime!jobs
  <2>9. PrepareInv'
    BY <1>1, <1>11, <1>4, <1>5, <2>6, <2>7, <2>8 DEF PrepareInv, Runtime!Locked, Runtime!Alive
  <2>10. RuntimeFileInv'
    BY <1>1, <1>11, <1>4, <1>5, <1>6, <1>7, <1>8, <2>1, <2>2, <2>3, <2>4, <2>5, <2>6,
       <2>7, <2>8
      DEF RuntimeFileInv, Runtime!Idle, RuntimeBusy, Runtime!Alive, RuntimeShape
  <2>11. SetupsInv'
    BY <1>1, <1>11, <1>4, <1>5, <1>6, <1>7, <1>8, <2>1, <2>6, <2>7, <2>8
      DEF SetupsInv, AdmittedSteps, WritingSteps
  <2>12. OneAtWork'
    BY <2>2, <2>3, <2>4, <2>5, <2>6, <2>7, <2>8 DEF OneAtWork
  <2>13. WriterInv'
    BY <1>1, <1>11, <1>4, <1>5, <1>6, <1>7, <1>8, <2>1, <2>2, <2>3, <2>4, <2>5, <2>6,
       <2>7, <2>8
      DEF WriterInv, SetupsInv, WritingSteps, Runtime!Alive, RuntimeShape
  <2>14. CopyInv'
    BY <2>3, <2>4, <2>5, <2>6, <2>7, <2>8 DEF CopyInv, WritingSteps
  <2>15. RuntimeLockInv'
    BY <1>1, <1>11, <1>4, <1>5, <1>6, <1>7, <1>8, <2>1, <2>6, <2>7, <2>8
      DEF RuntimeLockInv, Runtime!Alive, Runtime!AtWork, RuntimeShape
  <2>16. Runtime!ReadyIsVerified'
    BY <1>1, <2>8 DEF Runtime!ReadyIsVerified
  <2> QED
    BY <1>2, <1>3, <2>9, <2>10, <2>11, <2>12, <2>13, <2>14, <2>15, <2>16 DEF RuntimeInv
<1>12. CASE ~saved /\ ending # "succeeded"
  <2>1. job'[r] \in {"failed"} /\ \A q \in Runtime!Setup \ {r} : job'[q] = job[q]
    BY <1>1, <1>12
      DEF Runtime!Finish, Runtime!Move, Runtime!TypeOK, Runtime!Ended, Runtime!document,
          Runtime!files
  <2>2. \A q \in Runtime!Setup \ {r} : job'[q] \notin Runtime!AtWork \cup WritingSteps
    BY <1>8, <2>1
  <2>3. \A q \in Runtime!Setup :
            job'[q] \notin WritingSteps \cup {"verify", "check", "finish succeeded"}
    BY <1>6, <1>7, <1>8, <2>1, <2>2 DEF WritingSteps, Runtime!AtWork, Runtime!Ended
  <2>4. job'[r] \notin {"none", "queued", "gated", "begin"}
    BY <2>1, <2>2, <2>3
  <2>5. slips \in Nat
    BY <1>1 DEF Runtime!TypeOK
  <2>6. slips' = slips + 1
    BY <1>12 DEF Runtime!Finish, Runtime!Slip, Runtime!document, Runtime!files
  <2>7. (slips >= 1 => slips' >= 1) /\ (slips' < 2 => slips < 2)
    BY <2>5, <2>6
  <2>8. held' = held \ {r} /\ flock' = (IF r \in held /\ flock = r THEN Runtime!NoSetup ELSE flock)
    BY <1>1, <1>12, <1>4, <1>5, <1>6, <2>4, <2>5, <2>6, <2>7
      DEF Runtime!Finish, Runtime!Drop, Runtime!document, Runtime!files, Runtime!jobs,
          RuntimeShape
  <2>9. UNCHANGED <<runtime, acceptance, installed, binary, verification, serving, server,
                    preparer, gate, target, flagged>>
    BY <1>1, <1>12, <1>4, <1>5, <1>6
      DEF Runtime!Finish, Runtime!document, Runtime!files, Runtime!jobs, RuntimeShape
  <2>10. PrepareInv'
    BY <1>1, <1>12, <1>4, <1>5, <1>6, <2>4, <2>5, <2>6, <2>7, <2>8, <2>9
      DEF PrepareInv, Runtime!Locked, Runtime!Alive, RuntimeShape
  <2>11. RuntimeFileInv'
    BY <1>1, <1>12, <1>4, <1>5, <1>6, <1>7, <1>8, <2>1, <2>2, <2>3, <2>4, <2>5, <2>6,
       <2>7, <2>8, <2>9
      DEF RuntimeFileInv, Runtime!Idle, RuntimeBusy, Runtime!Alive, RuntimeShape
  <2>12. SetupsInv'
    BY <1>1, <1>12, <1>4, <1>5, <1>6, <1>7, <1>8, <2>1, <2>2, <2>3, <2>9
      DEF SetupsInv, AdmittedSteps, WritingSteps, RuntimeShape
  <2>13. OneAtWork'
    BY <2>2, <2>3, <2>4, <2>5 DEF OneAtWork, RuntimeShape
  <2>14. WriterInv'
    BY <1>1, <1>12, <1>4, <1>5, <1>6, <1>7, <1>8, <2>1, <2>2, <2>3, <2>4, <2>5, <2>6,
       <2>7, <2>8, <2>9
      DEF WriterInv, SetupsInv, WritingSteps, Runtime!Alive
  <2>15. CopyInv'
    BY <2>3, <2>4, <2>5, <2>6, <2>7, <2>8, <2>9 DEF CopyInv
  <2>16. RuntimeLockInv'
    BY <1>1, <1>12, <1>4, <1>5, <1>6, <1>7, <1>8, <2>1, <2>2, <2>3, <2>4, <2>5, <2>6,
       <2>7, <2>8, <2>9
      DEF RuntimeLockInv, Runtime!Alive, Runtime!AtWork, RuntimeShape
  <2>17. Runtime!ReadyIsVerified'
    BY <1>1, <2>9 DEF Runtime!ReadyIsVerified
  <2> QED
    BY <1>2, <1>3, <2>10, <2>11, <2>12, <2>13, <2>14, <2>15, <2>16, <2>17 DEF RuntimeInv
<1> QED
  BY <1>9, <1>10, <1>11, <1>12

\* RuntimeInv holds of the initial states.
LEMMA RuntimeInitKeeps ==
  ASSUME Runtime!Init, Runtime!PreparationAssumption
  PROVE  RuntimeInv
<1>1. Runtime!TypeOK /\ RuntimeTypes
  BY DEF Runtime!Init, Runtime!TypeOK, RuntimeTypes, Runtime!NoSetup,
         Runtime!PreparationAssumption
<1>2. PrepareInv /\ RuntimeFileInv
  BY DEF Runtime!Init, PrepareInv, RuntimeFileInv, Runtime!Locked, RuntimeBusy, Runtime!Setup
<1>3. SetupsInv /\ OneAtWork /\ WriterInv /\ CopyInv /\ RuntimeLockInv /\ Runtime!ReadyIsVerified
  BY DEF Runtime!Init, SetupsInv, OneAtWork, WriterInv, CopyInv, RuntimeLockInv,
         Runtime!ReadyIsVerified, AdmittedSteps, WritingSteps, Runtime!AtWork, Runtime!Alive,
         Runtime!NoSetup
<1> QED
  BY <1>1, <1>2, <1>3 DEF RuntimeInv

\* A step of another part keeps RuntimeInv.
LEMMA RuntimeStutterKeeps ==
  ASSUME RuntimeInv, UNCHANGED Runtime!pvars
  PROVE  RuntimeInv'
<1>1. /\ Runtime!TypeOK /\ RuntimeTypes /\ PrepareInv /\ RuntimeFileInv /\ SetupsInv /\ OneAtWork
      /\ WriterInv
      /\ CopyInv /\ RuntimeLockInv /\ Runtime!ReadyIsVerified
  BY DEF RuntimeInv
<1>2. UNCHANGED <<runtime, acceptance, installed, binary, verification, serving, server, preparer,
                  gate, job, target, flagged, flock, held, slips>>
  BY DEF Runtime!pvars, Runtime!document, Runtime!files, Runtime!jobs
<1>3. Runtime!TypeOK' /\ RuntimeTypes'
  BY <1>1, <1>2 DEF Runtime!TypeOK, RuntimeTypes
<1>4. PrepareInv' /\ RuntimeFileInv'
  BY <1>1, <1>2
    DEF PrepareInv, RuntimeFileInv, Runtime!Locked, Runtime!Alive, Runtime!Idle, RuntimeBusy
<1>5. /\ SetupsInv' /\ OneAtWork' /\ WriterInv' /\ CopyInv' /\ RuntimeLockInv'
      /\ Runtime!ReadyIsVerified'
  BY <1>1, <1>2
    DEF SetupsInv, OneAtWork, WriterInv, CopyInv, RuntimeLockInv, Runtime!ReadyIsVerified,
        Runtime!Alive
<1> QED
  BY <1>3, <1>4, <1>5 DEF RuntimeInv

\* Every step of the part keeps RuntimeInv.
LEMMA RuntimeNextKeeps ==
  ASSUME RuntimeInv, Runtime!PreparationAssumption, Runtime!Next \/ UNCHANGED Runtime!pvars
  PROVE  RuntimeInv'
<1>1. CASE \E v \in Version \cup {NoVersion} : Runtime!Install(v)
  BY <1>1, RuntimeInstallKeeps
<1>2. ASSUME NEW r \in Runtime!Setup, \E saved,
             written \in BOOLEAN : Runtime!Prepare(r, saved, written)
      PROVE  RuntimeInv'
  BY <1>2, RuntimePrepareKeeps
<1>3. ASSUME NEW r \in Runtime!Setup, Runtime!Work(r)
      PROVE  RuntimeInv'
  <2>1. Runtime!Alive
    BY <1>3 DEF Runtime!Work
  <2>2. CASE Runtime!Take(r) \/ Runtime!PassGate(r)
    BY <2>1, <2>2, RuntimeTakeKeeps, RuntimePassGateKeeps
  <2>3. CASE Runtime!Inspect(r) \/ Runtime!Check(r)
    BY <2>1, <2>3, RuntimeInspectKeeps, RuntimeCheckKeeps
  <2>4. ASSUME NEW saved \in BOOLEAN, Runtime!Abandon(r, saved) \/ Runtime!Begin(r, saved)
        PROVE  RuntimeInv'
    BY <2>1, <2>4, RuntimeAbandonKeeps, RuntimeBeginKeeps
  <2>5. ASSUME NEW saved \in BOOLEAN, Runtime!Copy(r, saved) \/ Runtime!Verify(r, saved)
        PROVE  RuntimeInv'
    BY <2>1, <2>5, RuntimeCopyKeeps, RuntimeVerifyKeeps
  <2>6. ASSUME NEW saved \in BOOLEAN, NEW ending \in Runtime!Ended,
               Runtime!Finish(r, ending, saved)
        PROVE  RuntimeInv'
    BY <2>1, <2>6, RuntimeFinishKeeps
  <2> QED
    BY <1>3, <2>2, <2>3, <2>4, <2>5, <2>6 DEF Runtime!Work
<1>4. ASSUME NEW r \in Runtime!Setup, Runtime!Cancel(r) \/ Runtime!Observe(r)
      PROVE  RuntimeInv'
  BY <1>4, RuntimeCancelKeeps, RuntimeObserveKeeps
<1>5. CASE Runtime!Submit \/ Runtime!SubmitRefused \/ Runtime!Release
  BY <1>5, RuntimeSubmitKeeps, RuntimeSubmitRefusedKeeps, RuntimeReleaseKeeps
<1>6. CASE \E saved \in BOOLEAN :
             Runtime!Abort(saved) \/ \E written \in BOOLEAN : Runtime!Accept(saved, written)
  BY <1>6, RuntimeAbortKeeps, RuntimeAcceptKeeps
<1>7. CASE Runtime!Close \/ Runtime!Shutdown
  BY <1>7, RuntimeCloseKeeps, RuntimeShutdownKeeps
<1>8. CASE Runtime!Die \/ Runtime!Start
  BY <1>8, RuntimeDieKeeps, RuntimeStartKeeps
<1>9. CASE UNCHANGED Runtime!pvars
  BY <1>9, RuntimeStutterKeeps
<1> QED
  BY <1>1, <1>2, <1>3, <1>4, <1>5, <1>6, <1>7, <1>8, <1>9 DEF Runtime!Next, Runtime!Accepting

\* The invariant of the preparation implies what the run checks of it.
LEMMA RuntimeInvIsSafe ==
  ASSUME RuntimeInv, Runtime!PreparationAssumption
  PROVE  Runtime!RuntimeSafe
<1>1. /\ Runtime!TypeOK /\ RuntimeTypes /\ PrepareInv /\ RuntimeFileInv /\ SetupsInv /\ OneAtWork
      /\ WriterInv
      /\ CopyInv /\ RuntimeLockInv /\ Runtime!ReadyIsVerified /\ RuntimeShape
  BY RuntimeShapeHolds DEF RuntimeInv
<1>2. Runtime!WriterHoldsLock
  BY <1>1 DEF Runtime!WriterHoldsLock, WriterInv, RuntimeLockInv, WritingSteps
<1>3. Runtime!LockIsOwned
  <2>1. SUFFICES ASSUME flock # Runtime!NoSetup, preparer.request # flock
                 PROVE  \/ job[flock] = "queued" \/ job[flock] \in Runtime!AtWork
                        \/ job[flock] \in {"cancelled", "failed"} /\ Runtime!Live(flock)
    BY DEF Runtime!LockIsOwned
  <2>2. flock \in held /\ flock \in Runtime!Setup /\ Runtime!Alive
    BY <1>1, <2>1 DEF RuntimeLockInv, RuntimeShape
  <2>3. CASE /\ job[flock] \in {"queued", "cancelled", "failed"}
             /\ runtime.active = flock /\ runtime.step = "queued"
    <3>1. ~Runtime!Locked
      BY <1>1, <2>1 DEF PrepareInv, Runtime!Locked
    <3>2. runtime.server = server
      BY <1>1, <2>2, <2>3 DEF RuntimeFileInv, Runtime!Idle
    <3> QED
      BY <2>2, <2>3, <3>1, <3>2 DEF Runtime!Live
  <2> QED
    BY <1>1, <2>2, <2>3 DEF RuntimeLockInv
<1>4. Runtime!BusyIsExplained
  <2>1. SUFFICES ASSUME Runtime!Alive, ~Runtime!Idle,
                        slips < 2, runtime.pending = Runtime!NoSetup
                 PROVE  \/ job[runtime.active] = "queued" \/ job[runtime.active] \in Runtime!AtWork
                        \/ job[runtime.active] \in {"cancelled", "failed"}
    BY <1>1 DEF Runtime!BusyIsExplained, RuntimeFileInv
  <2>2. RuntimeBusy
    BY <2>1 DEF Runtime!Idle, RuntimeBusy
  <2>3. runtime.active \in Runtime!Setup /\ job[runtime.active] \notin {"none", "succeeded"}
    BY <1>1, <2>2 DEF RuntimeFileInv, RuntimeShape
  <2>4. job[runtime.active] \in {"none", "queued"} \cup Runtime!AtWork \cup Runtime!Ended
    BY <1>1, <2>3 DEF Runtime!TypeOK
  <2> QED
    BY <2>3, <2>4 DEF Runtime!Ended
<1>5. Runtime!RefusedDidNothing
  BY <1>1 DEF Runtime!RefusedDidNothing, SetupsInv
<1> QED
  BY <1>1, <1>2, <1>3, <1>4, <1>5 DEF Runtime!RuntimeSafe

(* RuntimeInv is an invariant: the inductive invariant of the preparation.   *)
THEOREM RuntimeInvariant == Spec => []RuntimeInv
<1>1. Init => RuntimeInv
  BY RuntimeInitKeeps, ProvidersAssumption DEF Init
<1>2. RuntimeInv /\ [Next]_all => RuntimeInv'
  <2> SUFFICES ASSUME RuntimeInv, [Next]_all PROVE RuntimeInv'
    OBVIOUS
  <2>1. Runtime!Next \/ UNCHANGED pvars
    BY DEF Next, all
  <2> QED
    BY <2>1, RuntimeNextKeeps, ProvidersAssumption
      DEF pvars, Runtime!pvars, Runtime!document, Runtime!files, Runtime!jobs
<1> QED
  BY <1>1, <1>2, PTL DEF Spec

(* A runtime that is called ready is the one a job verified for that        *)
(* revision, only the owner of the system's lock writes its files, neither  *)
(* the lock nor the provider stays busy for nobody, and a refused call did  *)
(* nothing (runtime.py, codex/_runtime.py).                                 *)
THEOREM RuntimesAreSafe == Spec => []RuntimeSafe
<1>1. RuntimeInv => RuntimeSafe
  BY RuntimeInvIsSafe, ProvidersAssumption DEF RuntimeSafe
<1> QED
  BY <1>1, RuntimeInvariant, PTL

-----------------------------------------------------------------------------
(* The Claude worker (ClaudeWorker)                                         *)

(* The steps of a call in which its work space is there, and those in which *)
(* it is locked too.                                                         *)
WorkspaceSteps ==
  {"image", "start", "starting", "abandon", "exchange", "reap", "verify", "remove"}
LockedSteps == WorkspaceSteps \ {"image"}

(* A process of the call's tree still lives. *)
WorkerLives(c) == Claude!WatchdogLives(c) \/ Claude!LeaderLives(c)

(* What the thread has done by a step: before it starts a worker there is    *)
(* none, before it hears of the exchange there is no outcome.                *)
CallAtStep(c) ==
  /\ step[c] \in {"idle", "space", "image", "start"} => watchdog[c].at = "none"
  /\ step[c] \in {"idle", "space", "image", "start", "starting", "abandon", "exchange"} =>
       outcome[c] = "none"
  /\ step[c] \in {"idle", "space", "image", "start", "starting", "abandon"} =>
       wrote[c] = "nothing"
  /\ step[c] \in {"idle", "space"} => c \notin dirs
  /\ step[c] = "reap" => outcome[c] # "none"
  /\ ~running => step[c] \in {"idle", "done", "dead"}

(* What the processes have done: no leader before its watchdog watches,      *)
(* nothing is read or submitted before the request is whole, and a good end  *)
(* is one of a submitted request.                                            *)
CallProcesses(c) ==
  /\ watchdog[c].at \in {"none", "booting"} => leader[c] = "none"
  /\ \/ child[c] \/ c \in submitted
     \/ leader[c] \in {"loaded", "complete", "good"} \cup Claude!Listening
     => wrote[c] = "whole"
  /\ leader[c] \in {"result", "complete", "good"} \/ watchdog[c].code = "ok" =>
       c \in submitted

(* What the call may say: unsent when nothing was written, an answer when it *)
(* was submitted, and an answer is verified when no process of its group     *)
(* lives.                                                                    *)
CallVerdict(c) ==
  /\ outcome[c] = "unsent" => wrote[c] = "nothing"
  /\ outcome[c] = "answer" => c \in submitted /\ wrote[c] = "whole"
  /\ step[c] \in {"verify", "remove", "leave", "discard", "done"} =>
       \/ outcome[c] \in {"unsent", "unknown"}
       \/ outcome[c] = "answer" /\ ~Claude!GroupLives(c) /\ watchdog[c].at = "exited"

(* The call's work space: there while its steps need it, and left behind     *)
(* only by a backend that is poisoned.                                       *)
CallWorkspace(c) ==
  running =>
    /\ step[c] \in WorkspaceSteps => c \in dirs
    /\ step[c] \in {"leave", "discard", "done"} /\ c \in dirs => backend.poisoned

(* The lock of the work spaces: the call's server has it while the call      *)
(* works, and a worker that outlived its server has it instead of the next.  *)
CallLock(c) ==
  /\ running /\ step[c] \in WorkspaceSteps \cup {"space", "leave", "discard"} => c \in active
  /\ running /\ step[c] \in LockedSteps => backend.lease = "held"
  /\ running /\ step[c] \in LockedSteps /\ watchdog[c].at # "none" =>
       watchdog[c].born = epoch
  /\ step[c] = "dead" /\ WorkerLives(c) =>
       /\ watchdog[c].born = lock /\ lock # 0 /\ c \in dirs
       /\ running => lock < epoch

(* What holds of one call. *)
CallParts(c) ==
  /\ CallAtStep(c) /\ CallProcesses(c) /\ CallVerdict(c) /\ CallWorkspace(c) /\ CallLock(c)

(* A backend that has a lease has the lock of its own server. *)
ClaudeLockInv == lock <= epoch /\ (running /\ backend.lease # "none" => lock = epoch)

(* The inductive invariant of the workers. *)
ClaudeInv == Claude!TypeOK /\ ClaudeLockInv /\ \A c \in Call : CallParts(c)

(* The values of the variables that calls have one each of. *)
ClaudeSteps ==
  {"idle", "space", "image", "start", "starting", "abandon", "exchange",
   "reap", "verify", "remove", "leave", "discard", "done", "dead"}
ClaudeOutcomes == {"none", "unsent", "unknown", "answer"}
ClaudeBackends == [closed : BOOLEAN, poisoned : BOOLEAN, lease : {"held", "retained", "none"}]
ClaudeWatchdogs ==
  [at : {"none", "booting", "watching", "terming", "exited"},
   code : {"none", "ok", "fail", "gone", "unstarted", "unclean", "killed"},
   born : 0 .. MaxEpochs]
ClaudeLeaders ==
  {"none", "reading", "loaded", "complete", "good", "bad", "gone"} \cup Claude!Listening
ClaudeParts == {"nothing", "part", "whole"}

(* The state of one call. *)
OwnCall(c) == <<step[c], outcome[c], watchdog[c], leader[c], child[c], wrote[c]>>

\* A call whose own state stays keeps its parts of the invariant.
LEMMA ClaudeRestKeeps ==
  ASSUME NEW d, CallParts(d), UNCHANGED OwnCall(d), d \in submitted' <=> d \in submitted,
         d \in dirs' <=> d \in dirs, d \in active => d \in active',
         UNCHANGED <<epoch, running, lock>>, backend'.lease = backend.lease,
         backend.poisoned => backend'.poisoned
  PROVE  CallParts(d)'
<1>1. /\ step'[d] = step[d] /\ outcome'[d] = outcome[d] /\ watchdog'[d] = watchdog[d]
      /\ leader'[d] = leader[d] /\ child'[d] = child[d] /\ wrote'[d] = wrote[d]
  BY DEF OwnCall
<1>2. CallAtStep(d)'
  BY <1>1 DEF CallParts, CallAtStep
<1>3. CallProcesses(d)'
  BY <1>1 DEF CallParts, CallProcesses, Claude!Listening
<1>4. CallVerdict(d)'
  BY <1>1 DEF CallParts, CallVerdict, Claude!GroupLives, Claude!LeaderLives, Claude!Listening
<1>5. CallWorkspace(d)'
  BY <1>1 DEF CallParts, CallWorkspace, WorkspaceSteps
<1>6. CallLock(d)'
  BY <1>1
    DEF CallParts, CallLock, WorkspaceSteps, LockedSteps, WorkerLives, Claude!WatchdogLives,
        Claude!LeaderLives, Claude!Listening
<1> QED
  BY <1>2, <1>3, <1>4, <1>5, <1>6 DEF CallParts

\* A step of one call that keeps that call's parts keeps ClaudeInv.
LEMMA ClaudeMoveKeeps ==
  ASSUME ClaudeInv, NEW c \in Call, Claude!TypeOK', CallParts(c)',
         \A d \in Call \ {c} : /\ UNCHANGED OwnCall(d) /\ (d \in submitted' <=> d \in submitted)
                              /\ (d \in dirs' <=> d \in dirs) /\ (d \in active => d \in active'),
         UNCHANGED <<epoch, running, lock>>, backend'.lease = backend.lease,
         backend.poisoned => backend'.poisoned
  PROVE  ClaudeInv'
<1>1. \A d \in Call \ {c} : CallParts(d)'
  BY ClaudeRestKeeps DEF ClaudeInv
<1>2. ClaudeLockInv'
  BY DEF ClaudeInv, ClaudeLockInv
<1> QED
  BY <1>1, <1>2 DEF ClaudeInv

\* Claude!Enter keeps ClaudeInv.
LEMMA ClaudeEnterKeeps ==
  ASSUME ClaudeInv, Claude!ClaudeAssumption, NEW c \in Call, Claude!Enter(c)
  PROVE  ClaudeInv'
<1>1. Claude!TypeOK /\ ClaudeLockInv /\ CallParts(c)
  BY DEF ClaudeInv
<1>2. Claude!TypeOK'
  <2>1. mishaps' \in 0 .. MaxMishaps
    BY <1>1
      DEF Claude!Enter, Claude!At, Claude!Goto, Claude!Tell, Claude!Usable, Claude!TypeOK,
          Claude!Mishap, Claude!ClaudeAssumption
  <2>2. step' \in [Call -> ClaudeSteps] /\ outcome' \in [Call -> ClaudeOutcomes]
    BY <1>1
      DEF Claude!Enter, Claude!At, Claude!Goto, Claude!Tell, Claude!Usable, Claude!TypeOK,
          Claude!threads, ClaudeSteps, ClaudeOutcomes
  <2>3. /\ dirs' \subseteq Call \cup {Image} /\ active' \subseteq Call /\ submitted' \subseteq Call
        /\ backend' \in ClaudeBackends /\ image' \in BOOLEAN
    BY <1>1
      DEF Claude!Enter, Claude!At, Claude!Goto, Claude!Tell, Claude!Usable, Claude!TypeOK,
          Claude!threads, Claude!processes, ClaudeBackends
  <2>4. watchdog' \in [Call -> ClaudeWatchdogs]
    BY <1>1
      DEF Claude!Enter, Claude!At, Claude!Goto, Claude!Tell, Claude!Usable, Claude!TypeOK,
          Claude!threads, Claude!processes, ClaudeWatchdogs, Claude!ClaudeAssumption
  <2>5. /\ leader' \in [Call -> ClaudeLeaders] /\ child' \in [Call -> BOOLEAN]
        /\ lifeline' \in [Call -> BOOLEAN] /\ wrote' \in [Call -> ClaudeParts]
    BY <1>1
      DEF Claude!Enter, Claude!At, Claude!Goto, Claude!Tell, Claude!Usable, Claude!TypeOK,
          Claude!threads, Claude!processes, ClaudeLeaders, ClaudeParts, Claude!Listening
  <2>6. UNCHANGED <<epoch, running, closer, lock>>
    BY DEF Claude!Enter, Claude!At, Claude!Goto, Claude!Tell, Claude!Usable, Claude!threads,
           Claude!processes
  <2> QED
    BY <1>1, <2>1, <2>2, <2>3, <2>4, <2>5, <2>6
      DEF Claude!TypeOK, ClaudeSteps, ClaudeOutcomes, ClaudeBackends, ClaudeWatchdogs,
          ClaudeLeaders, ClaudeParts
<1>3. CallAtStep(c)'
  BY <1>1
    DEF Claude!Enter, Claude!At, Claude!Goto, Claude!Tell, Claude!Usable, Claude!TypeOK,
        Claude!threads, Claude!processes, CallParts, CallAtStep, CallProcesses,
        Claude!Listening, Claude!LeaderLives
<1>4. CallProcesses(c)'
  BY <1>1
    DEF Claude!Enter, Claude!At, Claude!Goto, Claude!Tell, Claude!Usable, Claude!TypeOK,
        Claude!threads, Claude!processes, CallParts, CallAtStep, CallProcesses,
        Claude!Listening, Claude!LeaderLives
<1>5. CallVerdict(c)'
  BY <1>1
    DEF Claude!Enter, Claude!At, Claude!Goto, Claude!Tell, Claude!Usable, Claude!TypeOK,
        Claude!threads, Claude!processes, CallParts, CallAtStep, CallProcesses, CallVerdict,
        Claude!GroupLives, Claude!Listening, Claude!LeaderLives, Claude!WatchdogLives
<1>6. CallWorkspace(c)'
  BY <1>1
    DEF Claude!Enter, Claude!At, Claude!Goto, Claude!Tell, Claude!Usable, Claude!TypeOK,
        Claude!threads, Claude!processes, CallParts, CallAtStep, CallWorkspace, WorkspaceSteps
<1>7. CallLock(c)'
  BY <1>1
    DEF Claude!Enter, Claude!At, Claude!Goto, Claude!Tell, Claude!Usable, Claude!TypeOK,
        Claude!threads, Claude!processes, CallParts, CallAtStep, CallProcesses, CallWorkspace,
        CallLock, WorkerLives, Claude!WatchdogLives, Claude!LeaderLives, Claude!GroupLives,
        Claude!Listening, LockedSteps, WorkspaceSteps, ClaudeLockInv
<1>8. /\ \A d \in Call \ {c} : /\ UNCHANGED OwnCall(d) /\ (d \in submitted' <=> d \in submitted)
                              /\ (d \in dirs' <=> d \in dirs) /\ (d \in active => d \in active')
      /\ UNCHANGED <<epoch, running, lock>> /\ backend'.lease = backend.lease
      /\ backend.poisoned => backend'.poisoned
  BY <1>1
    DEF Claude!Enter, Claude!At, Claude!Goto, Claude!Tell, Claude!Usable, Claude!TypeOK,
        Claude!threads, Claude!processes, OwnCall, Claude!Listening, Claude!ClaudeAssumption
<1> QED
  BY <1>2, <1>3, <1>4, <1>5, <1>6, <1>7, <1>8, ClaudeMoveKeeps DEF CallParts

\* Claude!MakeWorkspace keeps ClaudeInv.
LEMMA ClaudeMakeWorkspaceKeeps ==
  ASSUME ClaudeInv, Claude!ClaudeAssumption, NEW c \in Call, Claude!MakeWorkspace(c)
  PROVE  ClaudeInv'
<1>1. Claude!TypeOK /\ ClaudeLockInv /\ CallParts(c)
  BY DEF ClaudeInv
<1>2. Claude!TypeOK'
  <2>1. mishaps' \in 0 .. MaxMishaps
    BY <1>1
      DEF Claude!MakeWorkspace, Claude!At, Claude!Goto, Claude!Tell, Claude!Poison,
          Claude!Mishap, Claude!TypeOK, Claude!Mishap, Claude!ClaudeAssumption
  <2>2. step' \in [Call -> ClaudeSteps] /\ outcome' \in [Call -> ClaudeOutcomes]
    BY <1>1
      DEF Claude!MakeWorkspace, Claude!At, Claude!Goto, Claude!Tell, Claude!Poison,
          Claude!Mishap, Claude!TypeOK, Claude!threads, ClaudeSteps, ClaudeOutcomes
  <2>3. /\ dirs' \subseteq Call \cup {Image} /\ active' \subseteq Call /\ submitted' \subseteq Call
        /\ backend' \in ClaudeBackends /\ image' \in BOOLEAN
    BY <1>1
      DEF Claude!MakeWorkspace, Claude!At, Claude!Goto, Claude!Tell, Claude!Poison,
          Claude!Mishap, Claude!TypeOK, Claude!threads, Claude!processes, ClaudeBackends
  <2>4. watchdog' \in [Call -> ClaudeWatchdogs]
    BY <1>1
      DEF Claude!MakeWorkspace, Claude!At, Claude!Goto, Claude!Tell, Claude!Poison,
          Claude!Mishap, Claude!TypeOK, Claude!threads, Claude!processes, ClaudeWatchdogs,
          Claude!ClaudeAssumption
  <2>5. /\ leader' \in [Call -> ClaudeLeaders] /\ child' \in [Call -> BOOLEAN]
        /\ lifeline' \in [Call -> BOOLEAN] /\ wrote' \in [Call -> ClaudeParts]
    BY <1>1
      DEF Claude!MakeWorkspace, Claude!At, Claude!Goto, Claude!Tell, Claude!Poison,
          Claude!Mishap, Claude!TypeOK, Claude!threads, Claude!processes, ClaudeLeaders,
          ClaudeParts, Claude!Listening
  <2>6. UNCHANGED <<epoch, running, closer, lock>>
    BY DEF Claude!MakeWorkspace, Claude!At, Claude!Goto, Claude!Tell, Claude!Poison,
           Claude!Mishap, Claude!threads, Claude!processes
  <2> QED
    BY <1>1, <2>1, <2>2, <2>3, <2>4, <2>5, <2>6
      DEF Claude!TypeOK, ClaudeSteps, ClaudeOutcomes, ClaudeBackends, ClaudeWatchdogs,
          ClaudeLeaders, ClaudeParts
<1>3. CallAtStep(c)'
  BY <1>1
    DEF Claude!MakeWorkspace, Claude!At, Claude!Goto, Claude!Tell, Claude!Poison, Claude!Mishap,
        Claude!TypeOK, Claude!threads, Claude!processes, CallParts, CallAtStep, CallProcesses,
        Claude!Listening, Claude!LeaderLives
<1>4. CallProcesses(c)'
  BY <1>1
    DEF Claude!MakeWorkspace, Claude!At, Claude!Goto, Claude!Tell, Claude!Poison, Claude!Mishap,
        Claude!TypeOK, Claude!threads, Claude!processes, CallParts, CallAtStep, CallProcesses,
        Claude!Listening, Claude!LeaderLives
<1>5. CallVerdict(c)'
  BY <1>1
    DEF Claude!MakeWorkspace, Claude!At, Claude!Goto, Claude!Tell, Claude!Poison, Claude!Mishap,
        Claude!TypeOK, Claude!threads, Claude!processes, CallParts, CallAtStep, CallProcesses,
        CallVerdict, Claude!GroupLives, Claude!Listening, Claude!LeaderLives,
        Claude!WatchdogLives
<1>6. CallWorkspace(c)'
  BY <1>1
    DEF Claude!MakeWorkspace, Claude!At, Claude!Goto, Claude!Tell, Claude!Poison, Claude!Mishap,
        Claude!TypeOK, Claude!threads, Claude!processes, CallParts, CallAtStep, CallWorkspace,
        WorkspaceSteps
<1>7. CallLock(c)'
  BY <1>1
    DEF Claude!MakeWorkspace, Claude!At, Claude!Goto, Claude!Tell, Claude!Poison, Claude!Mishap,
        Claude!TypeOK, Claude!threads, Claude!processes, CallParts, CallAtStep, CallProcesses,
        CallWorkspace, CallLock, WorkerLives, Claude!WatchdogLives, Claude!LeaderLives,
        Claude!GroupLives, Claude!Listening, LockedSteps, WorkspaceSteps, ClaudeLockInv
<1>8. /\ \A d \in Call \ {c} : /\ UNCHANGED OwnCall(d) /\ (d \in submitted' <=> d \in submitted)
                              /\ (d \in dirs' <=> d \in dirs) /\ (d \in active => d \in active')
      /\ UNCHANGED <<epoch, running, lock>> /\ backend'.lease = backend.lease
      /\ backend.poisoned => backend'.poisoned
  BY <1>1
    DEF Claude!MakeWorkspace, Claude!At, Claude!Goto, Claude!Tell, Claude!Poison, Claude!Mishap,
        Claude!TypeOK, Claude!threads, Claude!processes, OwnCall, Claude!Listening,
        Claude!ClaudeAssumption
<1> QED
  BY <1>2, <1>3, <1>4, <1>5, <1>6, <1>7, <1>8, ClaudeMoveKeeps DEF CallParts

\* Claude!Materialize keeps ClaudeInv.
LEMMA ClaudeMaterializeKeeps ==
  ASSUME ClaudeInv, Claude!ClaudeAssumption, NEW c \in Call, Claude!Materialize(c)
  PROVE  ClaudeInv'
<1>1. Claude!TypeOK /\ ClaudeLockInv /\ CallParts(c)
  BY DEF ClaudeInv
<1>2. Claude!TypeOK'
  <2>1. mishaps' \in 0 .. MaxMishaps
    BY <1>1
      DEF Claude!Materialize, Claude!At, Claude!Goto, Claude!Tell, Claude!Poison, Claude!Mishap,
          Claude!CreateImage, Claude!LeaveImage, Claude!TypeOK, Claude!Mishap,
          Claude!ClaudeAssumption
  <2>2. step' \in [Call -> ClaudeSteps] /\ outcome' \in [Call -> ClaudeOutcomes]
    BY <1>1
      DEF Claude!Materialize, Claude!At, Claude!Goto, Claude!Tell, Claude!Poison, Claude!Mishap,
          Claude!CreateImage, Claude!LeaveImage, Claude!TypeOK, Claude!threads, ClaudeSteps,
          ClaudeOutcomes
  <2>3. /\ dirs' \subseteq Call \cup {Image} /\ active' \subseteq Call /\ submitted' \subseteq Call
        /\ backend' \in ClaudeBackends /\ image' \in BOOLEAN
    BY <1>1
      DEF Claude!Materialize, Claude!At, Claude!Goto, Claude!Tell, Claude!Poison, Claude!Mishap,
          Claude!CreateImage, Claude!LeaveImage, Claude!TypeOK, Claude!threads,
          Claude!processes, ClaudeBackends
  <2>4. watchdog' \in [Call -> ClaudeWatchdogs]
    BY <1>1
      DEF Claude!Materialize, Claude!At, Claude!Goto, Claude!Tell, Claude!Poison, Claude!Mishap,
          Claude!CreateImage, Claude!LeaveImage, Claude!TypeOK, Claude!threads,
          Claude!processes, ClaudeWatchdogs, Claude!ClaudeAssumption
  <2>5. /\ leader' \in [Call -> ClaudeLeaders] /\ child' \in [Call -> BOOLEAN]
        /\ lifeline' \in [Call -> BOOLEAN] /\ wrote' \in [Call -> ClaudeParts]
    BY <1>1
      DEF Claude!Materialize, Claude!At, Claude!Goto, Claude!Tell, Claude!Poison, Claude!Mishap,
          Claude!CreateImage, Claude!LeaveImage, Claude!TypeOK, Claude!threads,
          Claude!processes, ClaudeLeaders, ClaudeParts, Claude!Listening
  <2>6. UNCHANGED <<epoch, running, closer, lock>>
    BY DEF Claude!Materialize, Claude!At, Claude!Goto, Claude!Tell, Claude!Poison,
           Claude!Mishap, Claude!CreateImage, Claude!LeaveImage, Claude!threads,
           Claude!processes
  <2> QED
    BY <1>1, <2>1, <2>2, <2>3, <2>4, <2>5, <2>6
      DEF Claude!TypeOK, ClaudeSteps, ClaudeOutcomes, ClaudeBackends, ClaudeWatchdogs,
          ClaudeLeaders, ClaudeParts
<1>3. CallAtStep(c)'
  BY <1>1
    DEF Claude!Materialize, Claude!At, Claude!Goto, Claude!Tell, Claude!Poison, Claude!Mishap,
        Claude!CreateImage, Claude!LeaveImage, Claude!TypeOK, Claude!threads, Claude!processes,
        CallParts, CallAtStep, CallProcesses, Claude!Listening, Claude!LeaderLives
<1>4. CallProcesses(c)'
  BY <1>1
    DEF Claude!Materialize, Claude!At, Claude!Goto, Claude!Tell, Claude!Poison, Claude!Mishap,
        Claude!CreateImage, Claude!LeaveImage, Claude!TypeOK, Claude!threads, Claude!processes,
        CallParts, CallAtStep, CallProcesses, Claude!Listening, Claude!LeaderLives
<1>5. CallVerdict(c)'
  BY <1>1
    DEF Claude!Materialize, Claude!At, Claude!Goto, Claude!Tell, Claude!Poison, Claude!Mishap,
        Claude!CreateImage, Claude!LeaveImage, Claude!TypeOK, Claude!threads, Claude!processes,
        CallParts, CallAtStep, CallProcesses, CallVerdict, Claude!GroupLives, Claude!Listening,
        Claude!LeaderLives, Claude!WatchdogLives
<1>6. CallWorkspace(c)'
  BY <1>1
    DEF Claude!Materialize, Claude!At, Claude!Goto, Claude!Tell, Claude!Poison, Claude!Mishap,
        Claude!CreateImage, Claude!LeaveImage, Claude!TypeOK, Claude!threads, Claude!processes,
        CallParts, CallAtStep, CallWorkspace, WorkspaceSteps
<1>7. CallLock(c)'
  BY <1>1
    DEF Claude!Materialize, Claude!At, Claude!Goto, Claude!Tell, Claude!Poison, Claude!Mishap,
        Claude!CreateImage, Claude!LeaveImage, Claude!TypeOK, Claude!threads, Claude!processes,
        CallParts, CallAtStep, CallProcesses, CallWorkspace, CallLock, WorkerLives,
        Claude!WatchdogLives, Claude!LeaderLives, Claude!GroupLives, Claude!Listening,
        LockedSteps, WorkspaceSteps, ClaudeLockInv
<1>8. /\ \A d \in Call \ {c} : /\ UNCHANGED OwnCall(d) /\ (d \in submitted' <=> d \in submitted)
                              /\ (d \in dirs' <=> d \in dirs) /\ (d \in active => d \in active')
      /\ UNCHANGED <<epoch, running, lock>> /\ backend'.lease = backend.lease
      /\ backend.poisoned => backend'.poisoned
  BY <1>1
    DEF Claude!Materialize, Claude!At, Claude!Goto, Claude!Tell, Claude!Poison, Claude!Mishap,
        Claude!CreateImage, Claude!LeaveImage, Claude!TypeOK, Claude!threads, Claude!processes,
        OwnCall, Claude!Listening, Claude!ClaudeAssumption
<1> QED
  BY <1>2, <1>3, <1>4, <1>5, <1>6, <1>7, <1>8, ClaudeMoveKeeps DEF CallParts

\* Claude!StartWatchdog keeps ClaudeInv.
LEMMA ClaudeStartWatchdogKeeps ==
  ASSUME ClaudeInv, Claude!ClaudeAssumption, NEW c \in Call, Claude!StartWatchdog(c)
  PROVE  ClaudeInv'
<1>1. Claude!TypeOK /\ ClaudeLockInv /\ CallParts(c)
  BY DEF ClaudeInv
<1>2. Claude!TypeOK'
  <2>1. mishaps' \in 0 .. MaxMishaps
    BY <1>1
      DEF Claude!StartWatchdog, Claude!At, Claude!Goto, Claude!Tell, Claude!TypeOK,
          Claude!Mishap, Claude!ClaudeAssumption
  <2>2. step' \in [Call -> ClaudeSteps] /\ outcome' \in [Call -> ClaudeOutcomes]
    BY <1>1
      DEF Claude!StartWatchdog, Claude!At, Claude!Goto, Claude!Tell, Claude!TypeOK,
          Claude!threads, ClaudeSteps, ClaudeOutcomes
  <2>3. /\ dirs' \subseteq Call \cup {Image} /\ active' \subseteq Call /\ submitted' \subseteq Call
        /\ backend' \in ClaudeBackends /\ image' \in BOOLEAN
    BY <1>1
      DEF Claude!StartWatchdog, Claude!At, Claude!Goto, Claude!Tell, Claude!TypeOK,
          Claude!threads, Claude!processes, ClaudeBackends
  <2>4. watchdog' \in [Call -> ClaudeWatchdogs]
    BY <1>1
      DEF Claude!StartWatchdog, Claude!At, Claude!Goto, Claude!Tell, Claude!TypeOK,
          Claude!threads, Claude!processes, ClaudeWatchdogs, Claude!ClaudeAssumption
  <2>5. /\ leader' \in [Call -> ClaudeLeaders] /\ child' \in [Call -> BOOLEAN]
        /\ lifeline' \in [Call -> BOOLEAN] /\ wrote' \in [Call -> ClaudeParts]
    BY <1>1
      DEF Claude!StartWatchdog, Claude!At, Claude!Goto, Claude!Tell, Claude!TypeOK,
          Claude!threads, Claude!processes, ClaudeLeaders, ClaudeParts, Claude!Listening
  <2>6. UNCHANGED <<epoch, running, closer, lock>>
    BY DEF Claude!StartWatchdog, Claude!At, Claude!Goto, Claude!Tell, Claude!threads,
           Claude!processes
  <2> QED
    BY <1>1, <2>1, <2>2, <2>3, <2>4, <2>5, <2>6
      DEF Claude!TypeOK, ClaudeSteps, ClaudeOutcomes, ClaudeBackends, ClaudeWatchdogs,
          ClaudeLeaders, ClaudeParts
<1>3. CallAtStep(c)'
  BY <1>1
    DEF Claude!StartWatchdog, Claude!At, Claude!Goto, Claude!Tell, Claude!TypeOK,
        Claude!threads, Claude!processes, CallParts, CallAtStep, CallProcesses,
        Claude!Listening, Claude!LeaderLives
<1>4. CallProcesses(c)'
  BY <1>1
    DEF Claude!StartWatchdog, Claude!At, Claude!Goto, Claude!Tell, Claude!TypeOK,
        Claude!threads, Claude!processes, CallParts, CallAtStep, CallProcesses,
        Claude!Listening, Claude!LeaderLives
<1>5. CallVerdict(c)'
  BY <1>1
    DEF Claude!StartWatchdog, Claude!At, Claude!Goto, Claude!Tell, Claude!TypeOK,
        Claude!threads, Claude!processes, CallParts, CallAtStep, CallProcesses, CallVerdict,
        Claude!GroupLives, Claude!Listening, Claude!LeaderLives, Claude!WatchdogLives
<1>6. CallWorkspace(c)'
  BY <1>1
    DEF Claude!StartWatchdog, Claude!At, Claude!Goto, Claude!Tell, Claude!TypeOK,
        Claude!threads, Claude!processes, CallParts, CallAtStep, CallWorkspace, WorkspaceSteps
<1>7. CallLock(c)'
  BY <1>1
    DEF Claude!StartWatchdog, Claude!At, Claude!Goto, Claude!Tell, Claude!TypeOK,
        Claude!threads, Claude!processes, CallParts, CallAtStep, CallProcesses, CallWorkspace,
        CallLock, WorkerLives, Claude!WatchdogLives, Claude!LeaderLives, Claude!GroupLives,
        Claude!Listening, LockedSteps, WorkspaceSteps, ClaudeLockInv
<1>8. /\ \A d \in Call \ {c} : /\ UNCHANGED OwnCall(d) /\ (d \in submitted' <=> d \in submitted)
                              /\ (d \in dirs' <=> d \in dirs) /\ (d \in active => d \in active')
      /\ UNCHANGED <<epoch, running, lock>> /\ backend'.lease = backend.lease
      /\ backend.poisoned => backend'.poisoned
  BY <1>1
    DEF Claude!StartWatchdog, Claude!At, Claude!Goto, Claude!Tell, Claude!TypeOK,
        Claude!threads, Claude!processes, OwnCall, Claude!Listening, Claude!ClaudeAssumption
<1> QED
  BY <1>2, <1>3, <1>4, <1>5, <1>6, <1>7, <1>8, ClaudeMoveKeeps DEF CallParts

\* Claude!WorkerStarted keeps ClaudeInv.
LEMMA ClaudeWorkerStartedKeeps ==
  ASSUME ClaudeInv, Claude!ClaudeAssumption, NEW c \in Call, Claude!WorkerStarted(c)
  PROVE  ClaudeInv'
<1>1. Claude!TypeOK /\ ClaudeLockInv /\ CallParts(c)
  BY DEF ClaudeInv
<1>2. Claude!TypeOK'
  <2>1. mishaps' \in 0 .. MaxMishaps
    BY <1>1
      DEF Claude!WorkerStarted, Claude!At, Claude!Goto, Claude!Tell, Claude!LeaderLives,
          Claude!TypeOK, Claude!Mishap, Claude!ClaudeAssumption
  <2>2. step' \in [Call -> ClaudeSteps] /\ outcome' \in [Call -> ClaudeOutcomes]
    BY <1>1
      DEF Claude!WorkerStarted, Claude!At, Claude!Goto, Claude!Tell, Claude!LeaderLives,
          Claude!TypeOK, Claude!threads, ClaudeSteps, ClaudeOutcomes
  <2>3. /\ dirs' \subseteq Call \cup {Image} /\ active' \subseteq Call /\ submitted' \subseteq Call
        /\ backend' \in ClaudeBackends /\ image' \in BOOLEAN
    BY <1>1
      DEF Claude!WorkerStarted, Claude!At, Claude!Goto, Claude!Tell, Claude!LeaderLives,
          Claude!TypeOK, Claude!threads, Claude!processes, ClaudeBackends
  <2>4. watchdog' \in [Call -> ClaudeWatchdogs]
    BY <1>1
      DEF Claude!WorkerStarted, Claude!At, Claude!Goto, Claude!Tell, Claude!LeaderLives,
          Claude!TypeOK, Claude!threads, Claude!processes, ClaudeWatchdogs,
          Claude!ClaudeAssumption
  <2>5. /\ leader' \in [Call -> ClaudeLeaders] /\ child' \in [Call -> BOOLEAN]
        /\ lifeline' \in [Call -> BOOLEAN] /\ wrote' \in [Call -> ClaudeParts]
    BY <1>1
      DEF Claude!WorkerStarted, Claude!At, Claude!Goto, Claude!Tell, Claude!LeaderLives,
          Claude!TypeOK, Claude!threads, Claude!processes, ClaudeLeaders, ClaudeParts,
          Claude!Listening
  <2>6. UNCHANGED <<epoch, running, closer, lock>>
    BY DEF Claude!WorkerStarted, Claude!At, Claude!Goto, Claude!Tell, Claude!LeaderLives,
           Claude!threads, Claude!processes
  <2> QED
    BY <1>1, <2>1, <2>2, <2>3, <2>4, <2>5, <2>6
      DEF Claude!TypeOK, ClaudeSteps, ClaudeOutcomes, ClaudeBackends, ClaudeWatchdogs,
          ClaudeLeaders, ClaudeParts
<1>3. CallAtStep(c)'
  BY <1>1
    DEF Claude!WorkerStarted, Claude!At, Claude!Goto, Claude!Tell, Claude!LeaderLives,
        Claude!TypeOK, Claude!threads, Claude!processes, CallParts, CallAtStep, CallProcesses,
        Claude!Listening, Claude!LeaderLives
<1>4. CallProcesses(c)'
  BY <1>1
    DEF Claude!WorkerStarted, Claude!At, Claude!Goto, Claude!Tell, Claude!LeaderLives,
        Claude!TypeOK, Claude!threads, Claude!processes, CallParts, CallAtStep, CallProcesses,
        Claude!Listening, Claude!LeaderLives
<1>5. CallVerdict(c)'
  BY <1>1
    DEF Claude!WorkerStarted, Claude!At, Claude!Goto, Claude!Tell, Claude!LeaderLives,
        Claude!TypeOK, Claude!threads, Claude!processes, CallParts, CallAtStep, CallProcesses,
        CallVerdict, Claude!GroupLives, Claude!Listening, Claude!LeaderLives,
        Claude!WatchdogLives
<1>6. CallWorkspace(c)'
  BY <1>1
    DEF Claude!WorkerStarted, Claude!At, Claude!Goto, Claude!Tell, Claude!LeaderLives,
        Claude!TypeOK, Claude!threads, Claude!processes, CallParts, CallAtStep, CallWorkspace,
        WorkspaceSteps
<1>7. CallLock(c)'
  BY <1>1
    DEF Claude!WorkerStarted, Claude!At, Claude!Goto, Claude!Tell, Claude!LeaderLives,
        Claude!TypeOK, Claude!threads, Claude!processes, CallParts, CallAtStep, CallProcesses,
        CallWorkspace, CallLock, WorkerLives, Claude!WatchdogLives, Claude!LeaderLives,
        Claude!GroupLives, Claude!Listening, LockedSteps, WorkspaceSteps, ClaudeLockInv
<1>8. /\ \A d \in Call \ {c} : /\ UNCHANGED OwnCall(d) /\ (d \in submitted' <=> d \in submitted)
                              /\ (d \in dirs' <=> d \in dirs) /\ (d \in active => d \in active')
      /\ UNCHANGED <<epoch, running, lock>> /\ backend'.lease = backend.lease
      /\ backend.poisoned => backend'.poisoned
  BY <1>1
    DEF Claude!WorkerStarted, Claude!At, Claude!Goto, Claude!Tell, Claude!LeaderLives,
        Claude!TypeOK, Claude!threads, Claude!processes, OwnCall, Claude!Listening,
        Claude!ClaudeAssumption
<1> QED
  BY <1>2, <1>3, <1>4, <1>5, <1>6, <1>7, <1>8, ClaudeMoveKeeps DEF CallParts

\* Claude!StartFails keeps ClaudeInv.
LEMMA ClaudeStartFailsKeeps ==
  ASSUME ClaudeInv, Claude!ClaudeAssumption, NEW c \in Call, Claude!StartFails(c)
  PROVE  ClaudeInv'
<1>1. Claude!TypeOK /\ ClaudeLockInv /\ CallParts(c)
  BY DEF ClaudeInv
<1>2. Claude!TypeOK'
  <2>1. mishaps' \in 0 .. MaxMishaps
    BY <1>1
      DEF Claude!StartFails, Claude!At, Claude!Goto, Claude!Tell, Claude!TypeOK, Claude!Mishap,
          Claude!ClaudeAssumption
  <2>2. step' \in [Call -> ClaudeSteps] /\ outcome' \in [Call -> ClaudeOutcomes]
    BY <1>1
      DEF Claude!StartFails, Claude!At, Claude!Goto, Claude!Tell, Claude!TypeOK, Claude!threads,
          ClaudeSteps, ClaudeOutcomes
  <2>3. /\ dirs' \subseteq Call \cup {Image} /\ active' \subseteq Call /\ submitted' \subseteq Call
        /\ backend' \in ClaudeBackends /\ image' \in BOOLEAN
    BY <1>1
      DEF Claude!StartFails, Claude!At, Claude!Goto, Claude!Tell, Claude!TypeOK, Claude!threads,
          Claude!processes, ClaudeBackends
  <2>4. watchdog' \in [Call -> ClaudeWatchdogs]
    BY <1>1
      DEF Claude!StartFails, Claude!At, Claude!Goto, Claude!Tell, Claude!TypeOK, Claude!threads,
          Claude!processes, ClaudeWatchdogs, Claude!ClaudeAssumption
  <2>5. /\ leader' \in [Call -> ClaudeLeaders] /\ child' \in [Call -> BOOLEAN]
        /\ lifeline' \in [Call -> BOOLEAN] /\ wrote' \in [Call -> ClaudeParts]
    BY <1>1
      DEF Claude!StartFails, Claude!At, Claude!Goto, Claude!Tell, Claude!TypeOK, Claude!threads,
          Claude!processes, ClaudeLeaders, ClaudeParts, Claude!Listening
  <2>6. UNCHANGED <<epoch, running, closer, lock>>
    BY DEF Claude!StartFails, Claude!At, Claude!Goto, Claude!Tell, Claude!threads,
           Claude!processes
  <2> QED
    BY <1>1, <2>1, <2>2, <2>3, <2>4, <2>5, <2>6
      DEF Claude!TypeOK, ClaudeSteps, ClaudeOutcomes, ClaudeBackends, ClaudeWatchdogs,
          ClaudeLeaders, ClaudeParts
<1>3. CallAtStep(c)'
  BY <1>1
    DEF Claude!StartFails, Claude!At, Claude!Goto, Claude!Tell, Claude!TypeOK, Claude!threads,
        Claude!processes, CallParts, CallAtStep, CallProcesses, Claude!Listening,
        Claude!LeaderLives
<1>4. CallProcesses(c)'
  BY <1>1
    DEF Claude!StartFails, Claude!At, Claude!Goto, Claude!Tell, Claude!TypeOK, Claude!threads,
        Claude!processes, CallParts, CallAtStep, CallProcesses, Claude!Listening,
        Claude!LeaderLives
<1>5. CallVerdict(c)'
  BY <1>1
    DEF Claude!StartFails, Claude!At, Claude!Goto, Claude!Tell, Claude!TypeOK, Claude!threads,
        Claude!processes, CallParts, CallAtStep, CallProcesses, CallVerdict, Claude!GroupLives,
        Claude!Listening, Claude!LeaderLives, Claude!WatchdogLives
<1>6. CallWorkspace(c)'
  BY <1>1
    DEF Claude!StartFails, Claude!At, Claude!Goto, Claude!Tell, Claude!TypeOK, Claude!threads,
        Claude!processes, CallParts, CallAtStep, CallWorkspace, WorkspaceSteps
<1>7. CallLock(c)'
  BY <1>1
    DEF Claude!StartFails, Claude!At, Claude!Goto, Claude!Tell, Claude!TypeOK, Claude!threads,
        Claude!processes, CallParts, CallAtStep, CallProcesses, CallWorkspace, CallLock,
        WorkerLives, Claude!WatchdogLives, Claude!LeaderLives, Claude!GroupLives,
        Claude!Listening, LockedSteps, WorkspaceSteps, ClaudeLockInv
<1>8. /\ \A d \in Call \ {c} : /\ UNCHANGED OwnCall(d) /\ (d \in submitted' <=> d \in submitted)
                              /\ (d \in dirs' <=> d \in dirs) /\ (d \in active => d \in active')
      /\ UNCHANGED <<epoch, running, lock>> /\ backend'.lease = backend.lease
      /\ backend.poisoned => backend'.poisoned
  BY <1>1
    DEF Claude!StartFails, Claude!At, Claude!Goto, Claude!Tell, Claude!TypeOK, Claude!threads,
        Claude!processes, OwnCall, Claude!Listening, Claude!ClaudeAssumption
<1> QED
  BY <1>2, <1>3, <1>4, <1>5, <1>6, <1>7, <1>8, ClaudeMoveKeeps DEF CallParts

\* Claude!Abandon keeps ClaudeInv.
LEMMA ClaudeAbandonKeeps ==
  ASSUME ClaudeInv, Claude!ClaudeAssumption, NEW c \in Call, Claude!Abandon(c)
  PROVE  ClaudeInv'
<1>1. Claude!TypeOK /\ ClaudeLockInv /\ CallParts(c)
  BY DEF ClaudeInv
<1>2. Claude!TypeOK'
  <2>1. mishaps' \in 0 .. MaxMishaps
    BY <1>1
      DEF Claude!Abandon, Claude!At, Claude!Goto, Claude!Tell, Claude!Mishap,
          Claude!KillWatchdog, Claude!LeaderLives, Claude!WatchdogLives, Claude!TypeOK,
          Claude!Mishap, Claude!ClaudeAssumption
  <2>2. step' \in [Call -> ClaudeSteps] /\ outcome' \in [Call -> ClaudeOutcomes]
    BY <1>1
      DEF Claude!Abandon, Claude!At, Claude!Goto, Claude!Tell, Claude!Mishap,
          Claude!KillWatchdog, Claude!LeaderLives, Claude!WatchdogLives, Claude!TypeOK,
          Claude!threads, ClaudeSteps, ClaudeOutcomes
  <2>3. /\ dirs' \subseteq Call \cup {Image} /\ active' \subseteq Call /\ submitted' \subseteq Call
        /\ backend' \in ClaudeBackends /\ image' \in BOOLEAN
    BY <1>1
      DEF Claude!Abandon, Claude!At, Claude!Goto, Claude!Tell, Claude!Mishap,
          Claude!KillWatchdog, Claude!LeaderLives, Claude!WatchdogLives, Claude!TypeOK,
          Claude!threads, Claude!processes, ClaudeBackends
  <2>4. watchdog' \in [Call -> ClaudeWatchdogs]
    BY <1>1
      DEF Claude!Abandon, Claude!At, Claude!Goto, Claude!Tell, Claude!Mishap,
          Claude!KillWatchdog, Claude!LeaderLives, Claude!WatchdogLives, Claude!TypeOK,
          Claude!threads, Claude!processes, ClaudeWatchdogs, Claude!ClaudeAssumption
  <2>5. /\ leader' \in [Call -> ClaudeLeaders] /\ child' \in [Call -> BOOLEAN]
        /\ lifeline' \in [Call -> BOOLEAN] /\ wrote' \in [Call -> ClaudeParts]
    BY <1>1
      DEF Claude!Abandon, Claude!At, Claude!Goto, Claude!Tell, Claude!Mishap,
          Claude!KillWatchdog, Claude!LeaderLives, Claude!WatchdogLives, Claude!TypeOK,
          Claude!threads, Claude!processes, ClaudeLeaders, ClaudeParts, Claude!Listening
  <2>6. UNCHANGED <<epoch, running, closer, lock>>
    BY DEF Claude!Abandon, Claude!At, Claude!Goto, Claude!Tell, Claude!Mishap,
           Claude!KillWatchdog, Claude!LeaderLives, Claude!WatchdogLives, Claude!threads,
           Claude!processes
  <2> QED
    BY <1>1, <2>1, <2>2, <2>3, <2>4, <2>5, <2>6
      DEF Claude!TypeOK, ClaudeSteps, ClaudeOutcomes, ClaudeBackends, ClaudeWatchdogs,
          ClaudeLeaders, ClaudeParts
<1>3. CallAtStep(c)'
  BY <1>1
    DEF Claude!Abandon, Claude!At, Claude!Goto, Claude!Tell, Claude!Mishap, Claude!KillWatchdog,
        Claude!LeaderLives, Claude!WatchdogLives, Claude!TypeOK, Claude!threads,
        Claude!processes, CallParts, CallAtStep, CallProcesses, Claude!Listening,
        Claude!LeaderLives
<1>4. CallProcesses(c)'
  BY <1>1
    DEF Claude!Abandon, Claude!At, Claude!Goto, Claude!Tell, Claude!Mishap, Claude!KillWatchdog,
        Claude!LeaderLives, Claude!WatchdogLives, Claude!TypeOK, Claude!threads,
        Claude!processes, CallParts, CallAtStep, CallProcesses, Claude!Listening,
        Claude!LeaderLives
<1>5. CallVerdict(c)'
  BY <1>1
    DEF Claude!Abandon, Claude!At, Claude!Goto, Claude!Tell, Claude!Mishap, Claude!KillWatchdog,
        Claude!LeaderLives, Claude!WatchdogLives, Claude!TypeOK, Claude!threads,
        Claude!processes, CallParts, CallAtStep, CallProcesses, CallVerdict, Claude!GroupLives,
        Claude!Listening, Claude!LeaderLives, Claude!WatchdogLives
<1>6. CallWorkspace(c)'
  BY <1>1
    DEF Claude!Abandon, Claude!At, Claude!Goto, Claude!Tell, Claude!Mishap, Claude!KillWatchdog,
        Claude!LeaderLives, Claude!WatchdogLives, Claude!TypeOK, Claude!threads,
        Claude!processes, CallParts, CallAtStep, CallWorkspace, WorkspaceSteps
<1>7. CallLock(c)'
  BY <1>1
    DEF Claude!Abandon, Claude!At, Claude!Goto, Claude!Tell, Claude!Mishap, Claude!KillWatchdog,
        Claude!LeaderLives, Claude!WatchdogLives, Claude!TypeOK, Claude!threads,
        Claude!processes, CallParts, CallAtStep, CallProcesses, CallWorkspace, CallLock,
        WorkerLives, Claude!WatchdogLives, Claude!LeaderLives, Claude!GroupLives,
        Claude!Listening, LockedSteps, WorkspaceSteps, ClaudeLockInv
<1>8. /\ \A d \in Call \ {c} : /\ UNCHANGED OwnCall(d) /\ (d \in submitted' <=> d \in submitted)
                              /\ (d \in dirs' <=> d \in dirs) /\ (d \in active => d \in active')
      /\ UNCHANGED <<epoch, running, lock>> /\ backend'.lease = backend.lease
      /\ backend.poisoned => backend'.poisoned
  BY <1>1
    DEF Claude!Abandon, Claude!At, Claude!Goto, Claude!Tell, Claude!Mishap, Claude!KillWatchdog,
        Claude!LeaderLives, Claude!WatchdogLives, Claude!TypeOK, Claude!threads,
        Claude!processes, OwnCall, Claude!Listening, Claude!ClaudeAssumption
<1> QED
  BY <1>2, <1>3, <1>4, <1>5, <1>6, <1>7, <1>8, ClaudeMoveKeeps DEF CallParts

\* Claude!WriteRequest keeps ClaudeInv.
LEMMA ClaudeWriteRequestKeeps ==
  ASSUME ClaudeInv, Claude!ClaudeAssumption, NEW c \in Call, Claude!WriteRequest(c)
  PROVE  ClaudeInv'
<1>1. Claude!TypeOK /\ ClaudeLockInv /\ CallParts(c)
  BY DEF ClaudeInv
<1>2. Claude!TypeOK'
  <2>1. mishaps' \in 0 .. MaxMishaps
    BY <1>1
      DEF Claude!WriteRequest, Claude!At, Claude!Goto, Claude!Tell, Claude!LeaderLives,
          Claude!TypeOK, Claude!Mishap, Claude!ClaudeAssumption
  <2>2. step' \in [Call -> ClaudeSteps] /\ outcome' \in [Call -> ClaudeOutcomes]
    BY <1>1
      DEF Claude!WriteRequest, Claude!At, Claude!Goto, Claude!Tell, Claude!LeaderLives,
          Claude!TypeOK, Claude!threads, ClaudeSteps, ClaudeOutcomes
  <2>3. /\ dirs' \subseteq Call \cup {Image} /\ active' \subseteq Call /\ submitted' \subseteq Call
        /\ backend' \in ClaudeBackends /\ image' \in BOOLEAN
    BY <1>1
      DEF Claude!WriteRequest, Claude!At, Claude!Goto, Claude!Tell, Claude!LeaderLives,
          Claude!TypeOK, Claude!threads, Claude!processes, ClaudeBackends
  <2>4. watchdog' \in [Call -> ClaudeWatchdogs]
    BY <1>1
      DEF Claude!WriteRequest, Claude!At, Claude!Goto, Claude!Tell, Claude!LeaderLives,
          Claude!TypeOK, Claude!threads, Claude!processes, ClaudeWatchdogs,
          Claude!ClaudeAssumption
  <2>5. /\ leader' \in [Call -> ClaudeLeaders] /\ child' \in [Call -> BOOLEAN]
        /\ lifeline' \in [Call -> BOOLEAN] /\ wrote' \in [Call -> ClaudeParts]
    BY <1>1
      DEF Claude!WriteRequest, Claude!At, Claude!Goto, Claude!Tell, Claude!LeaderLives,
          Claude!TypeOK, Claude!threads, Claude!processes, ClaudeLeaders, ClaudeParts,
          Claude!Listening
  <2>6. UNCHANGED <<epoch, running, closer, lock>>
    BY DEF Claude!WriteRequest, Claude!At, Claude!Goto, Claude!Tell, Claude!LeaderLives,
           Claude!threads, Claude!processes
  <2> QED
    BY <1>1, <2>1, <2>2, <2>3, <2>4, <2>5, <2>6
      DEF Claude!TypeOK, ClaudeSteps, ClaudeOutcomes, ClaudeBackends, ClaudeWatchdogs,
          ClaudeLeaders, ClaudeParts
<1>3. CallAtStep(c)'
  BY <1>1
    DEF Claude!WriteRequest, Claude!At, Claude!Goto, Claude!Tell, Claude!LeaderLives,
        Claude!TypeOK, Claude!threads, Claude!processes, CallParts, CallAtStep, CallProcesses,
        Claude!Listening, Claude!LeaderLives
<1>4. CallProcesses(c)'
  BY <1>1
    DEF Claude!WriteRequest, Claude!At, Claude!Goto, Claude!Tell, Claude!LeaderLives,
        Claude!TypeOK, Claude!threads, Claude!processes, CallParts, CallAtStep, CallProcesses,
        Claude!Listening, Claude!LeaderLives
<1>5. CallVerdict(c)'
  BY <1>1
    DEF Claude!WriteRequest, Claude!At, Claude!Goto, Claude!Tell, Claude!LeaderLives,
        Claude!TypeOK, Claude!threads, Claude!processes, CallParts, CallAtStep, CallProcesses,
        CallVerdict, Claude!GroupLives, Claude!Listening, Claude!LeaderLives,
        Claude!WatchdogLives
<1>6. CallWorkspace(c)'
  BY <1>1
    DEF Claude!WriteRequest, Claude!At, Claude!Goto, Claude!Tell, Claude!LeaderLives,
        Claude!TypeOK, Claude!threads, Claude!processes, CallParts, CallAtStep, CallWorkspace,
        WorkspaceSteps
<1>7. CallLock(c)'
  BY <1>1
    DEF Claude!WriteRequest, Claude!At, Claude!Goto, Claude!Tell, Claude!LeaderLives,
        Claude!TypeOK, Claude!threads, Claude!processes, CallParts, CallAtStep, CallProcesses,
        CallWorkspace, CallLock, WorkerLives, Claude!WatchdogLives, Claude!LeaderLives,
        Claude!GroupLives, Claude!Listening, LockedSteps, WorkspaceSteps, ClaudeLockInv
<1>8. /\ \A d \in Call \ {c} : /\ UNCHANGED OwnCall(d) /\ (d \in submitted' <=> d \in submitted)
                              /\ (d \in dirs' <=> d \in dirs) /\ (d \in active => d \in active')
      /\ UNCHANGED <<epoch, running, lock>> /\ backend'.lease = backend.lease
      /\ backend.poisoned => backend'.poisoned
  BY <1>1
    DEF Claude!WriteRequest, Claude!At, Claude!Goto, Claude!Tell, Claude!LeaderLives,
        Claude!TypeOK, Claude!threads, Claude!processes, OwnCall, Claude!Listening,
        Claude!ClaudeAssumption
<1> QED
  BY <1>2, <1>3, <1>4, <1>5, <1>6, <1>7, <1>8, ClaudeMoveKeeps DEF CallParts

\* Claude!EndExchange keeps ClaudeInv.
LEMMA ClaudeEndExchangeKeeps ==
  ASSUME ClaudeInv, Claude!ClaudeAssumption, NEW c \in Call, Claude!EndExchange(c)
  PROVE  ClaudeInv'
<1>1. Claude!TypeOK /\ ClaudeLockInv /\ CallParts(c)
  BY DEF ClaudeInv
<1>2. Claude!TypeOK'
  <2>1. mishaps' \in 0 .. MaxMishaps
    BY <1>1
      DEF Claude!EndExchange, Claude!At, Claude!Goto, Claude!Tell, Claude!Decoded, Claude!Doubt,
          Claude!TypeOK, Claude!Mishap, Claude!ClaudeAssumption
  <2>2. step' \in [Call -> ClaudeSteps] /\ outcome' \in [Call -> ClaudeOutcomes]
    BY <1>1
      DEF Claude!EndExchange, Claude!At, Claude!Goto, Claude!Tell, Claude!Decoded, Claude!Doubt,
          Claude!TypeOK, Claude!threads, ClaudeSteps, ClaudeOutcomes
  <2>3. /\ dirs' \subseteq Call \cup {Image} /\ active' \subseteq Call /\ submitted' \subseteq Call
        /\ backend' \in ClaudeBackends /\ image' \in BOOLEAN
    BY <1>1
      DEF Claude!EndExchange, Claude!At, Claude!Goto, Claude!Tell, Claude!Decoded, Claude!Doubt,
          Claude!TypeOK, Claude!threads, Claude!processes, ClaudeBackends
  <2>4. watchdog' \in [Call -> ClaudeWatchdogs]
    BY <1>1
      DEF Claude!EndExchange, Claude!At, Claude!Goto, Claude!Tell, Claude!Decoded, Claude!Doubt,
          Claude!TypeOK, Claude!threads, Claude!processes, ClaudeWatchdogs,
          Claude!ClaudeAssumption
  <2>5. /\ leader' \in [Call -> ClaudeLeaders] /\ child' \in [Call -> BOOLEAN]
        /\ lifeline' \in [Call -> BOOLEAN] /\ wrote' \in [Call -> ClaudeParts]
    BY <1>1
      DEF Claude!EndExchange, Claude!At, Claude!Goto, Claude!Tell, Claude!Decoded, Claude!Doubt,
          Claude!TypeOK, Claude!threads, Claude!processes, ClaudeLeaders, ClaudeParts,
          Claude!Listening
  <2>6. UNCHANGED <<epoch, running, closer, lock>>
    BY DEF Claude!EndExchange, Claude!At, Claude!Goto, Claude!Tell, Claude!Decoded,
           Claude!Doubt, Claude!threads, Claude!processes
  <2> QED
    BY <1>1, <2>1, <2>2, <2>3, <2>4, <2>5, <2>6
      DEF Claude!TypeOK, ClaudeSteps, ClaudeOutcomes, ClaudeBackends, ClaudeWatchdogs,
          ClaudeLeaders, ClaudeParts
<1>3. CallAtStep(c)'
  BY <1>1
    DEF Claude!EndExchange, Claude!At, Claude!Goto, Claude!Tell, Claude!Decoded, Claude!Doubt,
        Claude!TypeOK, Claude!threads, Claude!processes, CallParts, CallAtStep, CallProcesses,
        Claude!Listening, Claude!LeaderLives
<1>4. CallProcesses(c)'
  BY <1>1
    DEF Claude!EndExchange, Claude!At, Claude!Goto, Claude!Tell, Claude!Decoded, Claude!Doubt,
        Claude!TypeOK, Claude!threads, Claude!processes, CallParts, CallAtStep, CallProcesses,
        Claude!Listening, Claude!LeaderLives
<1>5. CallVerdict(c)'
  BY <1>1
    DEF Claude!EndExchange, Claude!At, Claude!Goto, Claude!Tell, Claude!Decoded, Claude!Doubt,
        Claude!TypeOK, Claude!threads, Claude!processes, CallParts, CallAtStep, CallProcesses,
        CallVerdict, Claude!GroupLives, Claude!Listening, Claude!LeaderLives,
        Claude!WatchdogLives
<1>6. CallWorkspace(c)'
  BY <1>1
    DEF Claude!EndExchange, Claude!At, Claude!Goto, Claude!Tell, Claude!Decoded, Claude!Doubt,
        Claude!TypeOK, Claude!threads, Claude!processes, CallParts, CallAtStep, CallWorkspace,
        WorkspaceSteps
<1>7. CallLock(c)'
  BY <1>1
    DEF Claude!EndExchange, Claude!At, Claude!Goto, Claude!Tell, Claude!Decoded, Claude!Doubt,
        Claude!TypeOK, Claude!threads, Claude!processes, CallParts, CallAtStep, CallProcesses,
        CallWorkspace, CallLock, WorkerLives, Claude!WatchdogLives, Claude!LeaderLives,
        Claude!GroupLives, Claude!Listening, LockedSteps, WorkspaceSteps, ClaudeLockInv
<1>8. /\ \A d \in Call \ {c} : /\ UNCHANGED OwnCall(d) /\ (d \in submitted' <=> d \in submitted)
                              /\ (d \in dirs' <=> d \in dirs) /\ (d \in active => d \in active')
      /\ UNCHANGED <<epoch, running, lock>> /\ backend'.lease = backend.lease
      /\ backend.poisoned => backend'.poisoned
  BY <1>1
    DEF Claude!EndExchange, Claude!At, Claude!Goto, Claude!Tell, Claude!Decoded, Claude!Doubt,
        Claude!TypeOK, Claude!threads, Claude!processes, OwnCall, Claude!Listening,
        Claude!ClaudeAssumption
<1> QED
  BY <1>2, <1>3, <1>4, <1>5, <1>6, <1>7, <1>8, ClaudeMoveKeeps DEF CallParts

\* Claude!Reap keeps ClaudeInv.
LEMMA ClaudeReapKeeps ==
  ASSUME ClaudeInv, Claude!ClaudeAssumption, NEW c \in Call, Claude!Reap(c)
  PROVE  ClaudeInv'
<1>1. Claude!TypeOK /\ ClaudeLockInv /\ CallParts(c)
  BY DEF ClaudeInv
<1>2. Claude!TypeOK'
  <2>1. mishaps' \in 0 .. MaxMishaps
    BY <1>1
      DEF Claude!Reap, Claude!At, Claude!Goto, Claude!Tell, Claude!Mishap, Claude!KillWatchdog,
          Claude!TerminateUnwatched, Claude!Doubt, Claude!LeaderLives, Claude!WatchdogLives,
          Claude!GroupLives, Claude!TypeOK, Claude!Mishap, Claude!ClaudeAssumption
  <2>2. step' \in [Call -> ClaudeSteps] /\ outcome' \in [Call -> ClaudeOutcomes]
    BY <1>1
      DEF Claude!Reap, Claude!At, Claude!Goto, Claude!Tell, Claude!Mishap, Claude!KillWatchdog,
          Claude!TerminateUnwatched, Claude!Doubt, Claude!LeaderLives, Claude!WatchdogLives,
          Claude!GroupLives, Claude!TypeOK, Claude!threads, ClaudeSteps, ClaudeOutcomes
  <2>3. /\ dirs' \subseteq Call \cup {Image} /\ active' \subseteq Call /\ submitted' \subseteq Call
        /\ backend' \in ClaudeBackends /\ image' \in BOOLEAN
    BY <1>1
      DEF Claude!Reap, Claude!At, Claude!Goto, Claude!Tell, Claude!Mishap, Claude!KillWatchdog,
          Claude!TerminateUnwatched, Claude!Doubt, Claude!LeaderLives, Claude!WatchdogLives,
          Claude!GroupLives, Claude!TypeOK, Claude!threads, Claude!processes, ClaudeBackends
  <2>4. watchdog' \in [Call -> ClaudeWatchdogs]
    BY <1>1
      DEF Claude!Reap, Claude!At, Claude!Goto, Claude!Tell, Claude!Mishap, Claude!KillWatchdog,
          Claude!TerminateUnwatched, Claude!Doubt, Claude!LeaderLives, Claude!WatchdogLives,
          Claude!GroupLives, Claude!TypeOK, Claude!threads, Claude!processes, ClaudeWatchdogs,
          Claude!ClaudeAssumption
  <2>5. /\ leader' \in [Call -> ClaudeLeaders] /\ child' \in [Call -> BOOLEAN]
        /\ lifeline' \in [Call -> BOOLEAN] /\ wrote' \in [Call -> ClaudeParts]
    <3>1. leader' = leader \/ leader' = [leader EXCEPT ![c] = "gone"]
      BY DEF Claude!Reap, Claude!KillWatchdog, Claude!TerminateUnwatched
    <3>2. child' = child \/ child' = [child EXCEPT ![c] = FALSE]
      BY DEF Claude!Reap, Claude!TerminateUnwatched
    <3>3. UNCHANGED <<lifeline, wrote>>
      BY DEF Claude!Reap
    <3> QED
      BY <1>1, <3>1, <3>2, <3>3 DEF Claude!TypeOK, ClaudeLeaders, ClaudeParts, Claude!Listening
  <2>6. UNCHANGED <<epoch, running, closer, lock>>
    BY DEF Claude!Reap, Claude!At, Claude!Goto, Claude!Tell, Claude!Mishap, Claude!KillWatchdog,
           Claude!TerminateUnwatched, Claude!Doubt, Claude!LeaderLives, Claude!WatchdogLives,
           Claude!GroupLives, Claude!threads, Claude!processes
  <2> QED
    BY <1>1, <2>1, <2>2, <2>3, <2>4, <2>5, <2>6
      DEF Claude!TypeOK, ClaudeSteps, ClaudeOutcomes, ClaudeBackends, ClaudeWatchdogs,
          ClaudeLeaders, ClaudeParts
<1>3. CallAtStep(c)'
  BY <1>1
    DEF Claude!Reap, Claude!At, Claude!Goto, Claude!Tell, Claude!Mishap, Claude!KillWatchdog,
        Claude!TerminateUnwatched, Claude!Doubt, Claude!LeaderLives, Claude!WatchdogLives,
        Claude!GroupLives, Claude!TypeOK, Claude!threads, Claude!processes, CallParts,
        CallAtStep, CallProcesses, Claude!Listening, Claude!LeaderLives
<1>4. CallProcesses(c)'
  BY <1>1
    DEF Claude!Reap, Claude!At, Claude!Goto, Claude!Tell, Claude!Mishap, Claude!KillWatchdog,
        Claude!TerminateUnwatched, Claude!Doubt, Claude!LeaderLives, Claude!WatchdogLives,
        Claude!GroupLives, Claude!TypeOK, Claude!threads, Claude!processes, CallParts,
        CallAtStep, CallProcesses, Claude!Listening, Claude!LeaderLives
<1>5. CallVerdict(c)'
  BY <1>1
    DEF Claude!Reap, Claude!At, Claude!Goto, Claude!Tell, Claude!Mishap, Claude!KillWatchdog,
        Claude!TerminateUnwatched, Claude!Doubt, Claude!LeaderLives, Claude!WatchdogLives,
        Claude!GroupLives, Claude!TypeOK, Claude!threads, Claude!processes, CallParts,
        CallAtStep, CallProcesses, CallVerdict, Claude!GroupLives, Claude!Listening,
        Claude!LeaderLives, Claude!WatchdogLives
<1>6. CallWorkspace(c)'
  BY <1>1
    DEF Claude!Reap, Claude!At, Claude!Goto, Claude!Tell, Claude!Mishap, Claude!KillWatchdog,
        Claude!TerminateUnwatched, Claude!Doubt, Claude!LeaderLives, Claude!WatchdogLives,
        Claude!GroupLives, Claude!TypeOK, Claude!threads, Claude!processes, CallParts,
        CallAtStep, CallWorkspace, WorkspaceSteps
<1>7. CallLock(c)'
  BY <1>1
    DEF Claude!Reap, Claude!At, Claude!Goto, Claude!Tell, Claude!Mishap, Claude!KillWatchdog,
        Claude!TerminateUnwatched, Claude!Doubt, Claude!LeaderLives, Claude!WatchdogLives,
        Claude!GroupLives, Claude!TypeOK, Claude!threads, Claude!processes, CallParts,
        CallAtStep, CallProcesses, CallWorkspace, CallLock, WorkerLives, Claude!WatchdogLives,
        Claude!LeaderLives, Claude!GroupLives, Claude!Listening, LockedSteps, WorkspaceSteps,
        ClaudeLockInv
<1>8. /\ \A d \in Call \ {c} : /\ UNCHANGED OwnCall(d) /\ (d \in submitted' <=> d \in submitted)
                              /\ (d \in dirs' <=> d \in dirs) /\ (d \in active => d \in active')
      /\ UNCHANGED <<epoch, running, lock>> /\ backend'.lease = backend.lease
      /\ backend.poisoned => backend'.poisoned
  BY <1>1
    DEF Claude!Reap, Claude!At, Claude!Goto, Claude!Tell, Claude!Mishap, Claude!KillWatchdog,
        Claude!TerminateUnwatched, Claude!Doubt, Claude!LeaderLives, Claude!WatchdogLives,
        Claude!GroupLives, Claude!TypeOK, Claude!threads, Claude!processes, OwnCall,
        Claude!Listening, Claude!ClaudeAssumption
<1> QED
  BY <1>2, <1>3, <1>4, <1>5, <1>6, <1>7, <1>8, ClaudeMoveKeeps DEF CallParts

\* Claude!VerifySnapshot keeps ClaudeInv.
LEMMA ClaudeVerifySnapshotKeeps ==
  ASSUME ClaudeInv, Claude!ClaudeAssumption, NEW c \in Call, Claude!VerifySnapshot(c)
  PROVE  ClaudeInv'
<1>1. Claude!TypeOK /\ ClaudeLockInv /\ CallParts(c)
  BY DEF ClaudeInv
<1>2. Claude!TypeOK'
  <2>1. mishaps' \in 0 .. MaxMishaps
    BY <1>1
      DEF Claude!VerifySnapshot, Claude!At, Claude!Goto, Claude!Tell, Claude!Mishap,
          Claude!Poison, Claude!TypeOK, Claude!Mishap, Claude!ClaudeAssumption
  <2>2. step' \in [Call -> ClaudeSteps] /\ outcome' \in [Call -> ClaudeOutcomes]
    BY <1>1
      DEF Claude!VerifySnapshot, Claude!At, Claude!Goto, Claude!Tell, Claude!Mishap,
          Claude!Poison, Claude!TypeOK, Claude!threads, ClaudeSteps, ClaudeOutcomes
  <2>3. /\ dirs' \subseteq Call \cup {Image} /\ active' \subseteq Call /\ submitted' \subseteq Call
        /\ backend' \in ClaudeBackends /\ image' \in BOOLEAN
    BY <1>1
      DEF Claude!VerifySnapshot, Claude!At, Claude!Goto, Claude!Tell, Claude!Mishap,
          Claude!Poison, Claude!TypeOK, Claude!threads, Claude!processes, ClaudeBackends
  <2>4. watchdog' \in [Call -> ClaudeWatchdogs]
    BY <1>1
      DEF Claude!VerifySnapshot, Claude!At, Claude!Goto, Claude!Tell, Claude!Mishap,
          Claude!Poison, Claude!TypeOK, Claude!threads, Claude!processes, ClaudeWatchdogs,
          Claude!ClaudeAssumption
  <2>5. /\ leader' \in [Call -> ClaudeLeaders] /\ child' \in [Call -> BOOLEAN]
        /\ lifeline' \in [Call -> BOOLEAN] /\ wrote' \in [Call -> ClaudeParts]
    BY <1>1
      DEF Claude!VerifySnapshot, Claude!At, Claude!Goto, Claude!Tell, Claude!Mishap,
          Claude!Poison, Claude!TypeOK, Claude!threads, Claude!processes, ClaudeLeaders,
          ClaudeParts, Claude!Listening
  <2>6. UNCHANGED <<epoch, running, closer, lock>>
    BY DEF Claude!VerifySnapshot, Claude!At, Claude!Goto, Claude!Tell, Claude!Mishap,
           Claude!Poison, Claude!threads, Claude!processes
  <2> QED
    BY <1>1, <2>1, <2>2, <2>3, <2>4, <2>5, <2>6
      DEF Claude!TypeOK, ClaudeSteps, ClaudeOutcomes, ClaudeBackends, ClaudeWatchdogs,
          ClaudeLeaders, ClaudeParts
<1>3. CallAtStep(c)'
  BY <1>1
    DEF Claude!VerifySnapshot, Claude!At, Claude!Goto, Claude!Tell, Claude!Mishap,
        Claude!Poison, Claude!TypeOK, Claude!threads, Claude!processes, CallParts, CallAtStep,
        CallProcesses, Claude!Listening, Claude!LeaderLives
<1>4. CallProcesses(c)'
  BY <1>1
    DEF Claude!VerifySnapshot, Claude!At, Claude!Goto, Claude!Tell, Claude!Mishap,
        Claude!Poison, Claude!TypeOK, Claude!threads, Claude!processes, CallParts, CallAtStep,
        CallProcesses, Claude!Listening, Claude!LeaderLives
<1>5. CallVerdict(c)'
  BY <1>1
    DEF Claude!VerifySnapshot, Claude!At, Claude!Goto, Claude!Tell, Claude!Mishap,
        Claude!Poison, Claude!TypeOK, Claude!threads, Claude!processes, CallParts, CallAtStep,
        CallProcesses, CallVerdict, Claude!GroupLives, Claude!Listening, Claude!LeaderLives,
        Claude!WatchdogLives
<1>6. CallWorkspace(c)'
  BY <1>1
    DEF Claude!VerifySnapshot, Claude!At, Claude!Goto, Claude!Tell, Claude!Mishap,
        Claude!Poison, Claude!TypeOK, Claude!threads, Claude!processes, CallParts, CallAtStep,
        CallWorkspace, WorkspaceSteps
<1>7. CallLock(c)'
  BY <1>1
    DEF Claude!VerifySnapshot, Claude!At, Claude!Goto, Claude!Tell, Claude!Mishap,
        Claude!Poison, Claude!TypeOK, Claude!threads, Claude!processes, CallParts, CallAtStep,
        CallProcesses, CallWorkspace, CallLock, WorkerLives, Claude!WatchdogLives,
        Claude!LeaderLives, Claude!GroupLives, Claude!Listening, LockedSteps, WorkspaceSteps,
        ClaudeLockInv
<1>8. /\ \A d \in Call \ {c} : /\ UNCHANGED OwnCall(d) /\ (d \in submitted' <=> d \in submitted)
                              /\ (d \in dirs' <=> d \in dirs) /\ (d \in active => d \in active')
      /\ UNCHANGED <<epoch, running, lock>> /\ backend'.lease = backend.lease
      /\ backend.poisoned => backend'.poisoned
  BY <1>1
    DEF Claude!VerifySnapshot, Claude!At, Claude!Goto, Claude!Tell, Claude!Mishap,
        Claude!Poison, Claude!TypeOK, Claude!threads, Claude!processes, OwnCall,
        Claude!Listening, Claude!ClaudeAssumption
<1> QED
  BY <1>2, <1>3, <1>4, <1>5, <1>6, <1>7, <1>8, ClaudeMoveKeeps DEF CallParts

\* Claude!RemoveWorkspace keeps ClaudeInv.
LEMMA ClaudeRemoveWorkspaceKeeps ==
  ASSUME ClaudeInv, Claude!ClaudeAssumption, NEW c \in Call, Claude!RemoveWorkspace(c)
  PROVE  ClaudeInv'
<1>1. Claude!TypeOK /\ ClaudeLockInv /\ CallParts(c)
  BY DEF ClaudeInv
<1>2. Claude!TypeOK'
  <2>1. mishaps' \in 0 .. MaxMishaps
    BY <1>1
      DEF Claude!RemoveWorkspace, Claude!At, Claude!Goto, Claude!Tell, Claude!Mishap,
          Claude!Poison, Claude!TypeOK, Claude!Mishap, Claude!ClaudeAssumption
  <2>2. step' \in [Call -> ClaudeSteps] /\ outcome' \in [Call -> ClaudeOutcomes]
    BY <1>1
      DEF Claude!RemoveWorkspace, Claude!At, Claude!Goto, Claude!Tell, Claude!Mishap,
          Claude!Poison, Claude!TypeOK, Claude!threads, ClaudeSteps, ClaudeOutcomes
  <2>3. /\ dirs' \subseteq Call \cup {Image} /\ active' \subseteq Call /\ submitted' \subseteq Call
        /\ backend' \in ClaudeBackends /\ image' \in BOOLEAN
    BY <1>1
      DEF Claude!RemoveWorkspace, Claude!At, Claude!Goto, Claude!Tell, Claude!Mishap,
          Claude!Poison, Claude!TypeOK, Claude!threads, Claude!processes, ClaudeBackends
  <2>4. watchdog' \in [Call -> ClaudeWatchdogs]
    BY <1>1
      DEF Claude!RemoveWorkspace, Claude!At, Claude!Goto, Claude!Tell, Claude!Mishap,
          Claude!Poison, Claude!TypeOK, Claude!threads, Claude!processes, ClaudeWatchdogs,
          Claude!ClaudeAssumption
  <2>5. /\ leader' \in [Call -> ClaudeLeaders] /\ child' \in [Call -> BOOLEAN]
        /\ lifeline' \in [Call -> BOOLEAN] /\ wrote' \in [Call -> ClaudeParts]
    BY <1>1
      DEF Claude!RemoveWorkspace, Claude!At, Claude!Goto, Claude!Tell, Claude!Mishap,
          Claude!Poison, Claude!TypeOK, Claude!threads, Claude!processes, ClaudeLeaders,
          ClaudeParts, Claude!Listening
  <2>6. UNCHANGED <<epoch, running, closer, lock>>
    BY DEF Claude!RemoveWorkspace, Claude!At, Claude!Goto, Claude!Tell, Claude!Mishap,
           Claude!Poison, Claude!threads, Claude!processes
  <2> QED
    BY <1>1, <2>1, <2>2, <2>3, <2>4, <2>5, <2>6
      DEF Claude!TypeOK, ClaudeSteps, ClaudeOutcomes, ClaudeBackends, ClaudeWatchdogs,
          ClaudeLeaders, ClaudeParts
<1>3. CallAtStep(c)'
  BY <1>1
    DEF Claude!RemoveWorkspace, Claude!At, Claude!Goto, Claude!Tell, Claude!Mishap,
        Claude!Poison, Claude!TypeOK, Claude!threads, Claude!processes, CallParts, CallAtStep,
        CallProcesses, Claude!Listening, Claude!LeaderLives
<1>4. CallProcesses(c)'
  BY <1>1
    DEF Claude!RemoveWorkspace, Claude!At, Claude!Goto, Claude!Tell, Claude!Mishap,
        Claude!Poison, Claude!TypeOK, Claude!threads, Claude!processes, CallParts, CallAtStep,
        CallProcesses, Claude!Listening, Claude!LeaderLives
<1>5. CallVerdict(c)'
  BY <1>1
    DEF Claude!RemoveWorkspace, Claude!At, Claude!Goto, Claude!Tell, Claude!Mishap,
        Claude!Poison, Claude!TypeOK, Claude!threads, Claude!processes, CallParts, CallAtStep,
        CallProcesses, CallVerdict, Claude!GroupLives, Claude!Listening, Claude!LeaderLives,
        Claude!WatchdogLives
<1>6. CallWorkspace(c)'
  BY <1>1
    DEF Claude!RemoveWorkspace, Claude!At, Claude!Goto, Claude!Tell, Claude!Mishap,
        Claude!Poison, Claude!TypeOK, Claude!threads, Claude!processes, CallParts, CallAtStep,
        CallWorkspace, WorkspaceSteps
<1>7. CallLock(c)'
  BY <1>1
    DEF Claude!RemoveWorkspace, Claude!At, Claude!Goto, Claude!Tell, Claude!Mishap,
        Claude!Poison, Claude!TypeOK, Claude!threads, Claude!processes, CallParts, CallAtStep,
        CallProcesses, CallWorkspace, CallLock, WorkerLives, Claude!WatchdogLives,
        Claude!LeaderLives, Claude!GroupLives, Claude!Listening, LockedSteps, WorkspaceSteps,
        ClaudeLockInv
<1>8. /\ \A d \in Call \ {c} : /\ UNCHANGED OwnCall(d) /\ (d \in submitted' <=> d \in submitted)
                              /\ (d \in dirs' <=> d \in dirs) /\ (d \in active => d \in active')
      /\ UNCHANGED <<epoch, running, lock>> /\ backend'.lease = backend.lease
      /\ backend.poisoned => backend'.poisoned
  BY <1>1
    DEF Claude!RemoveWorkspace, Claude!At, Claude!Goto, Claude!Tell, Claude!Mishap,
        Claude!Poison, Claude!TypeOK, Claude!threads, Claude!processes, OwnCall,
        Claude!Listening, Claude!ClaudeAssumption
<1> QED
  BY <1>2, <1>3, <1>4, <1>5, <1>6, <1>7, <1>8, ClaudeMoveKeeps DEF CallParts

\* Claude!Discard keeps ClaudeInv.
LEMMA ClaudeDiscardKeeps ==
  ASSUME ClaudeInv, Claude!ClaudeAssumption, NEW c \in Call, Claude!Discard(c)
  PROVE  ClaudeInv'
<1>1. Claude!TypeOK /\ ClaudeLockInv /\ CallParts(c)
  BY DEF ClaudeInv
<1>2. Claude!TypeOK'
  <2>1. mishaps' \in 0 .. MaxMishaps
    BY <1>1
      DEF Claude!Discard, Claude!At, Claude!Goto, Claude!Tell, Claude!TypeOK, Claude!Mishap,
          Claude!ClaudeAssumption
  <2>2. step' \in [Call -> ClaudeSteps] /\ outcome' \in [Call -> ClaudeOutcomes]
    BY <1>1
      DEF Claude!Discard, Claude!At, Claude!Goto, Claude!Tell, Claude!TypeOK, Claude!threads,
          ClaudeSteps, ClaudeOutcomes
  <2>3. /\ dirs' \subseteq Call \cup {Image} /\ active' \subseteq Call /\ submitted' \subseteq Call
        /\ backend' \in ClaudeBackends /\ image' \in BOOLEAN
    BY <1>1
      DEF Claude!Discard, Claude!At, Claude!Goto, Claude!Tell, Claude!TypeOK, Claude!threads,
          Claude!processes, ClaudeBackends
  <2>4. watchdog' \in [Call -> ClaudeWatchdogs]
    BY <1>1
      DEF Claude!Discard, Claude!At, Claude!Goto, Claude!Tell, Claude!TypeOK, Claude!threads,
          Claude!processes, ClaudeWatchdogs, Claude!ClaudeAssumption
  <2>5. /\ leader' \in [Call -> ClaudeLeaders] /\ child' \in [Call -> BOOLEAN]
        /\ lifeline' \in [Call -> BOOLEAN] /\ wrote' \in [Call -> ClaudeParts]
    BY <1>1
      DEF Claude!Discard, Claude!At, Claude!Goto, Claude!Tell, Claude!TypeOK, Claude!threads,
          Claude!processes, ClaudeLeaders, ClaudeParts, Claude!Listening
  <2>6. UNCHANGED <<epoch, running, closer, lock>>
    BY DEF Claude!Discard, Claude!At, Claude!Goto, Claude!Tell, Claude!threads, Claude!processes
  <2> QED
    BY <1>1, <2>1, <2>2, <2>3, <2>4, <2>5, <2>6
      DEF Claude!TypeOK, ClaudeSteps, ClaudeOutcomes, ClaudeBackends, ClaudeWatchdogs,
          ClaudeLeaders, ClaudeParts
<1>3. CallAtStep(c)'
  BY <1>1
    DEF Claude!Discard, Claude!At, Claude!Goto, Claude!Tell, Claude!TypeOK, Claude!threads,
        Claude!processes, CallParts, CallAtStep, CallProcesses, Claude!Listening,
        Claude!LeaderLives
<1>4. CallProcesses(c)'
  BY <1>1
    DEF Claude!Discard, Claude!At, Claude!Goto, Claude!Tell, Claude!TypeOK, Claude!threads,
        Claude!processes, CallParts, CallAtStep, CallProcesses, Claude!Listening,
        Claude!LeaderLives
<1>5. CallVerdict(c)'
  BY <1>1
    DEF Claude!Discard, Claude!At, Claude!Goto, Claude!Tell, Claude!TypeOK, Claude!threads,
        Claude!processes, CallParts, CallAtStep, CallProcesses, CallVerdict, Claude!GroupLives,
        Claude!Listening, Claude!LeaderLives, Claude!WatchdogLives
<1>6. CallWorkspace(c)'
  BY <1>1
    DEF Claude!Discard, Claude!At, Claude!Goto, Claude!Tell, Claude!TypeOK, Claude!threads,
        Claude!processes, CallParts, CallAtStep, CallWorkspace, WorkspaceSteps
<1>7. CallLock(c)'
  BY <1>1
    DEF Claude!Discard, Claude!At, Claude!Goto, Claude!Tell, Claude!TypeOK, Claude!threads,
        Claude!processes, CallParts, CallAtStep, CallProcesses, CallWorkspace, CallLock,
        WorkerLives, Claude!WatchdogLives, Claude!LeaderLives, Claude!GroupLives,
        Claude!Listening, LockedSteps, WorkspaceSteps, ClaudeLockInv
<1>8. /\ \A d \in Call \ {c} : /\ UNCHANGED OwnCall(d) /\ (d \in submitted' <=> d \in submitted)
                              /\ (d \in dirs' <=> d \in dirs) /\ (d \in active => d \in active')
      /\ UNCHANGED <<epoch, running, lock>> /\ backend'.lease = backend.lease
      /\ backend.poisoned => backend'.poisoned
  BY <1>1
    DEF Claude!Discard, Claude!At, Claude!Goto, Claude!Tell, Claude!TypeOK, Claude!threads,
        Claude!processes, OwnCall, Claude!Listening, Claude!ClaudeAssumption
<1> QED
  BY <1>2, <1>3, <1>4, <1>5, <1>6, <1>7, <1>8, ClaudeMoveKeeps DEF CallParts

\* Claude!Boot keeps ClaudeInv.
LEMMA ClaudeBootKeeps ==
  ASSUME ClaudeInv, Claude!ClaudeAssumption, NEW c \in Call, Claude!Boot(c)
  PROVE  ClaudeInv'
<1>1. Claude!TypeOK /\ ClaudeLockInv /\ CallParts(c)
  BY DEF ClaudeInv
<1>2. Claude!TypeOK'
  <2>1. mishaps' \in 0 .. MaxMishaps
    BY <1>1
      DEF Claude!Boot, Claude!WatchdogUnchanged, Claude!ExitWith, Claude!Mishap, Claude!TypeOK,
          Claude!Mishap, Claude!ClaudeAssumption
  <2>2. step' \in [Call -> ClaudeSteps] /\ outcome' \in [Call -> ClaudeOutcomes]
    BY <1>1
      DEF Claude!Boot, Claude!WatchdogUnchanged, Claude!ExitWith, Claude!Mishap, Claude!TypeOK,
          Claude!threads, ClaudeSteps, ClaudeOutcomes
  <2>3. /\ dirs' \subseteq Call \cup {Image} /\ active' \subseteq Call /\ submitted' \subseteq Call
        /\ backend' \in ClaudeBackends /\ image' \in BOOLEAN
    BY <1>1
      DEF Claude!Boot, Claude!WatchdogUnchanged, Claude!ExitWith, Claude!Mishap, Claude!TypeOK,
          Claude!threads, Claude!processes, ClaudeBackends
  <2>4. watchdog' \in [Call -> ClaudeWatchdogs]
    <3>1. CASE Claude!ExitWith(c, "unstarted") \/ Claude!ExitWith(c, "unclean")
      BY <1>1, <3>1 DEF Claude!ExitWith, Claude!TypeOK, ClaudeWatchdogs
    <3>2. CASE watchdog' = [watchdog EXCEPT ![c].at = "watching"]
      BY <1>1, <3>2 DEF Claude!TypeOK, ClaudeWatchdogs
    <3> QED
      BY <3>1, <3>2 DEF Claude!Boot
  <2>5. /\ leader' \in [Call -> ClaudeLeaders] /\ child' \in [Call -> BOOLEAN]
        /\ lifeline' \in [Call -> BOOLEAN] /\ wrote' \in [Call -> ClaudeParts]
    BY <1>1
      DEF Claude!Boot, Claude!WatchdogUnchanged, Claude!ExitWith, Claude!Mishap, Claude!TypeOK,
          Claude!threads, Claude!processes, ClaudeLeaders, ClaudeParts, Claude!Listening
  <2>6. UNCHANGED <<epoch, running, closer, lock>>
    BY DEF Claude!Boot, Claude!WatchdogUnchanged, Claude!ExitWith, Claude!Mishap,
           Claude!threads, Claude!processes
  <2> QED
    BY <1>1, <2>1, <2>2, <2>3, <2>4, <2>5, <2>6
      DEF Claude!TypeOK, ClaudeSteps, ClaudeOutcomes, ClaudeBackends, ClaudeWatchdogs,
          ClaudeLeaders, ClaudeParts
<1>3. CallAtStep(c)'
  BY <1>1
    DEF Claude!Boot, Claude!WatchdogUnchanged, Claude!ExitWith, Claude!Mishap, Claude!TypeOK,
        Claude!threads, Claude!processes, CallParts, CallAtStep, CallProcesses,
        Claude!Listening, Claude!LeaderLives
<1>4. CallProcesses(c)'
  BY <1>1
    DEF Claude!Boot, Claude!WatchdogUnchanged, Claude!ExitWith, Claude!Mishap, Claude!TypeOK,
        Claude!threads, Claude!processes, CallParts, CallAtStep, CallProcesses,
        Claude!Listening, Claude!LeaderLives
<1>5. CallVerdict(c)'
  BY <1>1
    DEF Claude!Boot, Claude!WatchdogUnchanged, Claude!ExitWith, Claude!Mishap, Claude!TypeOK,
        Claude!threads, Claude!processes, CallParts, CallAtStep, CallProcesses, CallVerdict,
        Claude!GroupLives, Claude!Listening, Claude!LeaderLives, Claude!WatchdogLives
<1>6. CallWorkspace(c)'
  BY <1>1
    DEF Claude!Boot, Claude!WatchdogUnchanged, Claude!ExitWith, Claude!Mishap, Claude!TypeOK,
        Claude!threads, Claude!processes, CallParts, CallAtStep, CallWorkspace, WorkspaceSteps
<1>7. CallLock(c)'
  BY <1>1
    DEF Claude!Boot, Claude!WatchdogUnchanged, Claude!ExitWith, Claude!Mishap, Claude!TypeOK,
        Claude!threads, Claude!processes, CallParts, CallAtStep, CallProcesses, CallWorkspace,
        CallLock, WorkerLives, Claude!WatchdogLives, Claude!LeaderLives, Claude!GroupLives,
        Claude!Listening, LockedSteps, WorkspaceSteps, ClaudeLockInv
<1>8. /\ \A d \in Call \ {c} : /\ UNCHANGED OwnCall(d) /\ (d \in submitted' <=> d \in submitted)
                              /\ (d \in dirs' <=> d \in dirs) /\ (d \in active => d \in active')
      /\ UNCHANGED <<epoch, running, lock>> /\ backend'.lease = backend.lease
      /\ backend.poisoned => backend'.poisoned
  BY <1>1
    DEF Claude!Boot, Claude!WatchdogUnchanged, Claude!ExitWith, Claude!Mishap, Claude!TypeOK,
        Claude!threads, Claude!processes, OwnCall, Claude!Listening, Claude!ClaudeAssumption
<1> QED
  BY <1>2, <1>3, <1>4, <1>5, <1>6, <1>7, <1>8, ClaudeMoveKeeps DEF CallParts

\* Claude!Watch keeps ClaudeInv.
LEMMA ClaudeWatchKeeps ==
  ASSUME ClaudeInv, Claude!ClaudeAssumption, NEW c \in Call, Claude!Watch(c)
  PROVE  ClaudeInv'
<1>1. Claude!TypeOK /\ ClaudeLockInv /\ CallParts(c)
  BY DEF ClaudeInv
<1>2. Claude!TypeOK'
  <2>1. mishaps' \in 0 .. MaxMishaps
    BY <1>1
      DEF Claude!Watch, Claude!WatchdogUnchanged, Claude!SignalTerm, Claude!LeaderLives,
          Claude!TypeOK, Claude!Mishap, Claude!ClaudeAssumption
  <2>2. step' \in [Call -> ClaudeSteps] /\ outcome' \in [Call -> ClaudeOutcomes]
    BY <1>1
      DEF Claude!Watch, Claude!WatchdogUnchanged, Claude!SignalTerm, Claude!LeaderLives,
          Claude!TypeOK, Claude!threads, ClaudeSteps, ClaudeOutcomes
  <2>3. /\ dirs' \subseteq Call \cup {Image} /\ active' \subseteq Call /\ submitted' \subseteq Call
        /\ backend' \in ClaudeBackends /\ image' \in BOOLEAN
    BY <1>1
      DEF Claude!Watch, Claude!WatchdogUnchanged, Claude!SignalTerm, Claude!LeaderLives,
          Claude!TypeOK, Claude!threads, Claude!processes, ClaudeBackends
  <2>4. watchdog' \in [Call -> ClaudeWatchdogs]
    <3>1. PICK k \in {"ok", "fail", "gone"} :
            watchdog' = [watchdog EXCEPT ![c].at = "terming", ![c].code = k]
      BY DEF Claude!Watch
    <3>2. watchdog[c] \in ClaudeWatchdogs /\ watchdog \in [Call -> ClaudeWatchdogs]
      BY <1>1 DEF Claude!TypeOK, ClaudeWatchdogs
    <3>3. [watchdog[c] EXCEPT !.at = "terming", !.code = k] \in ClaudeWatchdogs
      BY <3>2 DEF ClaudeWatchdogs
    <3> QED
      BY <3>1, <3>2, <3>3
  <2>5. /\ leader' \in [Call -> ClaudeLeaders] /\ child' \in [Call -> BOOLEAN]
        /\ lifeline' \in [Call -> BOOLEAN] /\ wrote' \in [Call -> ClaudeParts]
    BY <1>1
      DEF Claude!Watch, Claude!WatchdogUnchanged, Claude!SignalTerm, Claude!LeaderLives,
          Claude!TypeOK, Claude!threads, Claude!processes, ClaudeLeaders, ClaudeParts,
          Claude!Listening
  <2>6. UNCHANGED <<epoch, running, closer, lock>>
    BY DEF Claude!Watch, Claude!WatchdogUnchanged, Claude!SignalTerm, Claude!LeaderLives,
           Claude!threads, Claude!processes
  <2> QED
    BY <1>1, <2>1, <2>2, <2>3, <2>4, <2>5, <2>6
      DEF Claude!TypeOK, ClaudeSteps, ClaudeOutcomes, ClaudeBackends, ClaudeWatchdogs,
          ClaudeLeaders, ClaudeParts
<1>3. CallAtStep(c)'
  BY <1>1
    DEF Claude!Watch, Claude!WatchdogUnchanged, Claude!SignalTerm, Claude!LeaderLives,
        Claude!TypeOK, Claude!threads, Claude!processes, CallParts, CallAtStep, CallProcesses,
        Claude!Listening, Claude!LeaderLives
<1>4. CallProcesses(c)'
  BY <1>1
    DEF Claude!Watch, Claude!WatchdogUnchanged, Claude!SignalTerm, Claude!LeaderLives,
        Claude!TypeOK, Claude!threads, Claude!processes, CallParts, CallAtStep, CallProcesses,
        Claude!Listening, Claude!LeaderLives
<1>5. CallVerdict(c)'
  BY <1>1
    DEF Claude!Watch, Claude!WatchdogUnchanged, Claude!SignalTerm, Claude!LeaderLives,
        Claude!TypeOK, Claude!threads, Claude!processes, CallParts, CallAtStep, CallProcesses,
        CallVerdict, Claude!GroupLives, Claude!Listening, Claude!LeaderLives,
        Claude!WatchdogLives
<1>6. CallWorkspace(c)'
  BY <1>1
    DEF Claude!Watch, Claude!WatchdogUnchanged, Claude!SignalTerm, Claude!LeaderLives,
        Claude!TypeOK, Claude!threads, Claude!processes, CallParts, CallAtStep, CallWorkspace,
        WorkspaceSteps
<1>7. CallLock(c)'
  BY <1>1
    DEF Claude!Watch, Claude!WatchdogUnchanged, Claude!SignalTerm, Claude!LeaderLives,
        Claude!TypeOK, Claude!threads, Claude!processes, CallParts, CallAtStep, CallProcesses,
        CallWorkspace, CallLock, WorkerLives, Claude!WatchdogLives, Claude!LeaderLives,
        Claude!GroupLives, Claude!Listening, LockedSteps, WorkspaceSteps, ClaudeLockInv
<1>8. /\ \A d \in Call \ {c} : /\ UNCHANGED OwnCall(d) /\ (d \in submitted' <=> d \in submitted)
                              /\ (d \in dirs' <=> d \in dirs) /\ (d \in active => d \in active')
      /\ UNCHANGED <<epoch, running, lock>> /\ backend'.lease = backend.lease
      /\ backend.poisoned => backend'.poisoned
  BY <1>1
    DEF Claude!Watch, Claude!WatchdogUnchanged, Claude!SignalTerm, Claude!LeaderLives,
        Claude!TypeOK, Claude!threads, Claude!processes, OwnCall, Claude!Listening,
        Claude!ClaudeAssumption
<1> QED
  BY <1>2, <1>3, <1>4, <1>5, <1>6, <1>7, <1>8, ClaudeMoveKeeps DEF CallParts

\* Claude!CleanUp keeps ClaudeInv.
LEMMA ClaudeCleanUpKeeps ==
  ASSUME ClaudeInv, Claude!ClaudeAssumption, NEW c \in Call, Claude!CleanUp(c)
  PROVE  ClaudeInv'
<1>1. Claude!TypeOK /\ ClaudeLockInv /\ CallParts(c)
  BY DEF ClaudeInv
<1>2. Claude!TypeOK'
  <2>1. mishaps' \in 0 .. MaxMishaps
    BY <1>1
      DEF Claude!CleanUp, Claude!WatchdogUnchanged, Claude!ExitWith, Claude!Mishap,
          Claude!GroupLives, Claude!LeaderLives, Claude!TypeOK, Claude!Mishap,
          Claude!ClaudeAssumption
  <2>2. step' \in [Call -> ClaudeSteps] /\ outcome' \in [Call -> ClaudeOutcomes]
    BY <1>1
      DEF Claude!CleanUp, Claude!WatchdogUnchanged, Claude!ExitWith, Claude!Mishap,
          Claude!GroupLives, Claude!LeaderLives, Claude!TypeOK, Claude!threads, ClaudeSteps,
          ClaudeOutcomes
  <2>3. /\ dirs' \subseteq Call \cup {Image} /\ active' \subseteq Call /\ submitted' \subseteq Call
        /\ backend' \in ClaudeBackends /\ image' \in BOOLEAN
    BY <1>1
      DEF Claude!CleanUp, Claude!WatchdogUnchanged, Claude!ExitWith, Claude!Mishap,
          Claude!GroupLives, Claude!LeaderLives, Claude!TypeOK, Claude!threads,
          Claude!processes, ClaudeBackends
  <2>4. watchdog' \in [Call -> ClaudeWatchdogs]
    BY <1>1
      DEF Claude!CleanUp, Claude!WatchdogUnchanged, Claude!ExitWith, Claude!Mishap,
          Claude!GroupLives, Claude!LeaderLives, Claude!TypeOK, Claude!threads,
          Claude!processes, ClaudeWatchdogs, Claude!ClaudeAssumption
  <2>5. /\ leader' \in [Call -> ClaudeLeaders] /\ child' \in [Call -> BOOLEAN]
        /\ lifeline' \in [Call -> BOOLEAN] /\ wrote' \in [Call -> ClaudeParts]
    <3>1. \/ leader' = leader
          \/ leader' = [leader EXCEPT ![c] = "gone"] \/ leader' = [leader EXCEPT ![c] = "bad"]
      BY DEF Claude!CleanUp
    <3>2. child' = child \/ child' = [child EXCEPT ![c] = FALSE]
      BY DEF Claude!CleanUp
    <3>3. UNCHANGED <<lifeline, wrote>>
      BY DEF Claude!CleanUp, Claude!WatchdogUnchanged
    <3> QED
      BY <1>1, <3>1, <3>2, <3>3 DEF Claude!TypeOK, ClaudeLeaders, ClaudeParts, Claude!Listening
  <2>6. UNCHANGED <<epoch, running, closer, lock>>
    BY DEF Claude!CleanUp, Claude!WatchdogUnchanged, Claude!ExitWith, Claude!Mishap,
           Claude!GroupLives, Claude!LeaderLives, Claude!threads, Claude!processes
  <2> QED
    BY <1>1, <2>1, <2>2, <2>3, <2>4, <2>5, <2>6
      DEF Claude!TypeOK, ClaudeSteps, ClaudeOutcomes, ClaudeBackends, ClaudeWatchdogs,
          ClaudeLeaders, ClaudeParts
<1>3. CallAtStep(c)'
  BY <1>1
    DEF Claude!CleanUp, Claude!WatchdogUnchanged, Claude!ExitWith, Claude!Mishap,
        Claude!GroupLives, Claude!LeaderLives, Claude!TypeOK, Claude!threads, Claude!processes,
        CallParts, CallAtStep, CallProcesses, Claude!Listening, Claude!LeaderLives
<1>4. CallProcesses(c)'
  BY <1>1
    DEF Claude!CleanUp, Claude!WatchdogUnchanged, Claude!ExitWith, Claude!Mishap,
        Claude!GroupLives, Claude!LeaderLives, Claude!TypeOK, Claude!threads, Claude!processes,
        CallParts, CallAtStep, CallProcesses, Claude!Listening, Claude!LeaderLives
<1>5. CallVerdict(c)'
  BY <1>1
    DEF Claude!CleanUp, Claude!WatchdogUnchanged, Claude!ExitWith, Claude!Mishap,
        Claude!GroupLives, Claude!LeaderLives, Claude!TypeOK, Claude!threads, Claude!processes,
        CallParts, CallAtStep, CallProcesses, CallVerdict, Claude!GroupLives, Claude!Listening,
        Claude!LeaderLives, Claude!WatchdogLives
<1>6. CallWorkspace(c)'
  BY <1>1
    DEF Claude!CleanUp, Claude!WatchdogUnchanged, Claude!ExitWith, Claude!Mishap,
        Claude!GroupLives, Claude!LeaderLives, Claude!TypeOK, Claude!threads, Claude!processes,
        CallParts, CallAtStep, CallWorkspace, WorkspaceSteps
<1>7. CallLock(c)'
  BY <1>1
    DEF Claude!CleanUp, Claude!WatchdogUnchanged, Claude!ExitWith, Claude!Mishap,
        Claude!GroupLives, Claude!LeaderLives, Claude!TypeOK, Claude!threads, Claude!processes,
        CallParts, CallAtStep, CallProcesses, CallWorkspace, CallLock, WorkerLives,
        Claude!WatchdogLives, Claude!LeaderLives, Claude!GroupLives, Claude!Listening,
        LockedSteps, WorkspaceSteps, ClaudeLockInv
<1>8. /\ \A d \in Call \ {c} : /\ UNCHANGED OwnCall(d) /\ (d \in submitted' <=> d \in submitted)
                              /\ (d \in dirs' <=> d \in dirs) /\ (d \in active => d \in active')
      /\ UNCHANGED <<epoch, running, lock>> /\ backend'.lease = backend.lease
      /\ backend.poisoned => backend'.poisoned
  BY <1>1
    DEF Claude!CleanUp, Claude!WatchdogUnchanged, Claude!ExitWith, Claude!Mishap,
        Claude!GroupLives, Claude!LeaderLives, Claude!TypeOK, Claude!threads, Claude!processes,
        OwnCall, Claude!Listening, Claude!ClaudeAssumption
<1> QED
  BY <1>2, <1>3, <1>4, <1>5, <1>6, <1>7, <1>8, ClaudeMoveKeeps DEF CallParts

\* Claude!WatchdogDies keeps ClaudeInv.
LEMMA ClaudeWatchdogDiesKeeps ==
  ASSUME ClaudeInv, Claude!ClaudeAssumption, NEW c \in Call, Claude!WatchdogDies(c)
  PROVE  ClaudeInv'
<1>1. Claude!TypeOK /\ ClaudeLockInv /\ CallParts(c)
  BY DEF ClaudeInv
<1>2. Claude!TypeOK'
  <2>1. mishaps' \in 0 .. MaxMishaps
    BY <1>1
      DEF Claude!WatchdogDies, Claude!WatchdogUnchanged, Claude!Mishap, Claude!KillWatchdog,
          Claude!LeaderLives, Claude!WatchdogLives, Claude!TypeOK, Claude!Mishap,
          Claude!ClaudeAssumption
  <2>2. step' \in [Call -> ClaudeSteps] /\ outcome' \in [Call -> ClaudeOutcomes]
    BY <1>1
      DEF Claude!WatchdogDies, Claude!WatchdogUnchanged, Claude!Mishap, Claude!KillWatchdog,
          Claude!LeaderLives, Claude!WatchdogLives, Claude!TypeOK, Claude!threads, ClaudeSteps,
          ClaudeOutcomes
  <2>3. /\ dirs' \subseteq Call \cup {Image} /\ active' \subseteq Call /\ submitted' \subseteq Call
        /\ backend' \in ClaudeBackends /\ image' \in BOOLEAN
    BY <1>1
      DEF Claude!WatchdogDies, Claude!WatchdogUnchanged, Claude!Mishap, Claude!KillWatchdog,
          Claude!LeaderLives, Claude!WatchdogLives, Claude!TypeOK, Claude!threads,
          Claude!processes, ClaudeBackends
  <2>4. watchdog' \in [Call -> ClaudeWatchdogs]
    <3>1. watchdog' = [watchdog EXCEPT ![c].at = "exited", ![c].code = "killed"]
      BY DEF Claude!WatchdogDies, Claude!KillWatchdog
    <3>2. watchdog[c] \in ClaudeWatchdogs /\ watchdog \in [Call -> ClaudeWatchdogs]
      BY <1>1 DEF Claude!TypeOK, ClaudeWatchdogs
    <3>3. [watchdog[c] EXCEPT !.at = "exited", !.code = "killed"] \in ClaudeWatchdogs
      BY <3>2 DEF ClaudeWatchdogs
    <3> QED
      BY <3>1, <3>2, <3>3
  <2>5. /\ leader' \in [Call -> ClaudeLeaders] /\ child' \in [Call -> BOOLEAN]
        /\ lifeline' \in [Call -> BOOLEAN] /\ wrote' \in [Call -> ClaudeParts]
    BY <1>1
      DEF Claude!WatchdogDies, Claude!WatchdogUnchanged, Claude!Mishap, Claude!KillWatchdog,
          Claude!LeaderLives, Claude!WatchdogLives, Claude!TypeOK, Claude!threads,
          Claude!processes, ClaudeLeaders, ClaudeParts, Claude!Listening
  <2>6. UNCHANGED <<epoch, running, closer, lock>>
    BY DEF Claude!WatchdogDies, Claude!WatchdogUnchanged, Claude!Mishap, Claude!KillWatchdog,
           Claude!LeaderLives, Claude!WatchdogLives, Claude!threads, Claude!processes
  <2> QED
    BY <1>1, <2>1, <2>2, <2>3, <2>4, <2>5, <2>6
      DEF Claude!TypeOK, ClaudeSteps, ClaudeOutcomes, ClaudeBackends, ClaudeWatchdogs,
          ClaudeLeaders, ClaudeParts
<1>3. CallAtStep(c)'
  BY <1>1
    DEF Claude!WatchdogDies, Claude!WatchdogUnchanged, Claude!Mishap, Claude!KillWatchdog,
        Claude!LeaderLives, Claude!WatchdogLives, Claude!TypeOK, Claude!threads,
        Claude!processes, CallParts, CallAtStep, CallProcesses, Claude!Listening,
        Claude!LeaderLives
<1>4. CallProcesses(c)'
  BY <1>1
    DEF Claude!WatchdogDies, Claude!WatchdogUnchanged, Claude!Mishap, Claude!KillWatchdog,
        Claude!LeaderLives, Claude!WatchdogLives, Claude!TypeOK, Claude!threads,
        Claude!processes, CallParts, CallAtStep, CallProcesses, Claude!Listening,
        Claude!LeaderLives
<1>5. CallVerdict(c)'
  BY <1>1
    DEF Claude!WatchdogDies, Claude!WatchdogUnchanged, Claude!Mishap, Claude!KillWatchdog,
        Claude!LeaderLives, Claude!WatchdogLives, Claude!TypeOK, Claude!threads,
        Claude!processes, CallParts, CallAtStep, CallProcesses, CallVerdict, Claude!GroupLives,
        Claude!Listening, Claude!LeaderLives, Claude!WatchdogLives
<1>6. CallWorkspace(c)'
  BY <1>1
    DEF Claude!WatchdogDies, Claude!WatchdogUnchanged, Claude!Mishap, Claude!KillWatchdog,
        Claude!LeaderLives, Claude!WatchdogLives, Claude!TypeOK, Claude!threads,
        Claude!processes, CallParts, CallAtStep, CallWorkspace, WorkspaceSteps
<1>7. CallLock(c)'
  BY <1>1
    DEF Claude!WatchdogDies, Claude!WatchdogUnchanged, Claude!Mishap, Claude!KillWatchdog,
        Claude!LeaderLives, Claude!WatchdogLives, Claude!TypeOK, Claude!threads,
        Claude!processes, CallParts, CallAtStep, CallProcesses, CallWorkspace, CallLock,
        WorkerLives, Claude!WatchdogLives, Claude!LeaderLives, Claude!GroupLives,
        Claude!Listening, LockedSteps, WorkspaceSteps, ClaudeLockInv
<1>8. /\ \A d \in Call \ {c} : /\ UNCHANGED OwnCall(d) /\ (d \in submitted' <=> d \in submitted)
                              /\ (d \in dirs' <=> d \in dirs) /\ (d \in active => d \in active')
      /\ UNCHANGED <<epoch, running, lock>> /\ backend'.lease = backend.lease
      /\ backend.poisoned => backend'.poisoned
  BY <1>1
    DEF Claude!WatchdogDies, Claude!WatchdogUnchanged, Claude!Mishap, Claude!KillWatchdog,
        Claude!LeaderLives, Claude!WatchdogLives, Claude!TypeOK, Claude!threads,
        Claude!processes, OwnCall, Claude!Listening, Claude!ClaudeAssumption
<1> QED
  BY <1>2, <1>3, <1>4, <1>5, <1>6, <1>7, <1>8, ClaudeMoveKeeps DEF CallParts

\* Claude!ReadRequest keeps ClaudeInv.
LEMMA ClaudeReadRequestKeeps ==
  ASSUME ClaudeInv, Claude!ClaudeAssumption, NEW c \in Call, Claude!ReadRequest(c)
  PROVE  ClaudeInv'
<1>1. Claude!TypeOK /\ ClaudeLockInv /\ CallParts(c)
  BY DEF ClaudeInv
<1>2. Claude!TypeOK'
  <2>1. mishaps' \in 0 .. MaxMishaps
    BY <1>1
      DEF Claude!ReadRequest, Claude!WorkerUnchanged, Claude!Ended, Claude!WatchdogLives,
          Claude!TypeOK, Claude!Mishap, Claude!ClaudeAssumption
  <2>2. step' \in [Call -> ClaudeSteps] /\ outcome' \in [Call -> ClaudeOutcomes]
    BY <1>1
      DEF Claude!ReadRequest, Claude!WorkerUnchanged, Claude!Ended, Claude!WatchdogLives,
          Claude!TypeOK, Claude!threads, ClaudeSteps, ClaudeOutcomes
  <2>3. /\ dirs' \subseteq Call \cup {Image} /\ active' \subseteq Call /\ submitted' \subseteq Call
        /\ backend' \in ClaudeBackends /\ image' \in BOOLEAN
    BY <1>1
      DEF Claude!ReadRequest, Claude!WorkerUnchanged, Claude!Ended, Claude!WatchdogLives,
          Claude!TypeOK, Claude!threads, Claude!processes, ClaudeBackends
  <2>4. watchdog' \in [Call -> ClaudeWatchdogs]
    BY <1>1
      DEF Claude!ReadRequest, Claude!WorkerUnchanged, Claude!Ended, Claude!WatchdogLives,
          Claude!TypeOK, Claude!threads, Claude!processes, ClaudeWatchdogs,
          Claude!ClaudeAssumption
  <2>5. /\ leader' \in [Call -> ClaudeLeaders] /\ child' \in [Call -> BOOLEAN]
        /\ lifeline' \in [Call -> BOOLEAN] /\ wrote' \in [Call -> ClaudeParts]
    BY <1>1
      DEF Claude!ReadRequest, Claude!WorkerUnchanged, Claude!Ended, Claude!WatchdogLives,
          Claude!TypeOK, Claude!threads, Claude!processes, ClaudeLeaders, ClaudeParts,
          Claude!Listening
  <2>6. UNCHANGED <<epoch, running, closer, lock>>
    BY DEF Claude!ReadRequest, Claude!WorkerUnchanged, Claude!Ended, Claude!WatchdogLives,
           Claude!threads, Claude!processes
  <2> QED
    BY <1>1, <2>1, <2>2, <2>3, <2>4, <2>5, <2>6
      DEF Claude!TypeOK, ClaudeSteps, ClaudeOutcomes, ClaudeBackends, ClaudeWatchdogs,
          ClaudeLeaders, ClaudeParts
<1>3. CallAtStep(c)'
  BY <1>1
    DEF Claude!ReadRequest, Claude!WorkerUnchanged, Claude!Ended, Claude!WatchdogLives,
        Claude!TypeOK, Claude!threads, Claude!processes, CallParts, CallAtStep, CallProcesses,
        Claude!Listening, Claude!LeaderLives
<1>4. CallProcesses(c)'
  BY <1>1
    DEF Claude!ReadRequest, Claude!WorkerUnchanged, Claude!Ended, Claude!WatchdogLives,
        Claude!TypeOK, Claude!threads, Claude!processes, CallParts, CallAtStep, CallProcesses,
        Claude!Listening, Claude!LeaderLives
<1>5. CallVerdict(c)'
  BY <1>1
    DEF Claude!ReadRequest, Claude!WorkerUnchanged, Claude!Ended, Claude!WatchdogLives,
        Claude!TypeOK, Claude!threads, Claude!processes, CallParts, CallAtStep, CallProcesses,
        CallVerdict, Claude!GroupLives, Claude!Listening, Claude!LeaderLives,
        Claude!WatchdogLives
<1>6. CallWorkspace(c)'
  BY <1>1
    DEF Claude!ReadRequest, Claude!WorkerUnchanged, Claude!Ended, Claude!WatchdogLives,
        Claude!TypeOK, Claude!threads, Claude!processes, CallParts, CallAtStep, CallWorkspace,
        WorkspaceSteps
<1>7. CallLock(c)'
  BY <1>1
    DEF Claude!ReadRequest, Claude!WorkerUnchanged, Claude!Ended, Claude!WatchdogLives,
        Claude!TypeOK, Claude!threads, Claude!processes, CallParts, CallAtStep, CallProcesses,
        CallWorkspace, CallLock, WorkerLives, Claude!WatchdogLives, Claude!LeaderLives,
        Claude!GroupLives, Claude!Listening, LockedSteps, WorkspaceSteps, ClaudeLockInv
<1>8. /\ \A d \in Call \ {c} : /\ UNCHANGED OwnCall(d) /\ (d \in submitted' <=> d \in submitted)
                              /\ (d \in dirs' <=> d \in dirs) /\ (d \in active => d \in active')
      /\ UNCHANGED <<epoch, running, lock>> /\ backend'.lease = backend.lease
      /\ backend.poisoned => backend'.poisoned
  BY <1>1
    DEF Claude!ReadRequest, Claude!WorkerUnchanged, Claude!Ended, Claude!WatchdogLives,
        Claude!TypeOK, Claude!threads, Claude!processes, OwnCall, Claude!Listening,
        Claude!ClaudeAssumption
<1> QED
  BY <1>2, <1>3, <1>4, <1>5, <1>6, <1>7, <1>8, ClaudeMoveKeeps DEF CallParts

\* Claude!RefuseRequest keeps ClaudeInv.
LEMMA ClaudeRefuseRequestKeeps ==
  ASSUME ClaudeInv, Claude!ClaudeAssumption, NEW c \in Call, Claude!RefuseRequest(c)
  PROVE  ClaudeInv'
<1>1. Claude!TypeOK /\ ClaudeLockInv /\ CallParts(c)
  BY DEF ClaudeInv
<1>2. Claude!TypeOK'
  <2>1. mishaps' \in 0 .. MaxMishaps
    BY <1>1
      DEF Claude!RefuseRequest, Claude!WorkerUnchanged, Claude!Ended, Claude!WatchdogLives,
          Claude!TypeOK, Claude!Mishap, Claude!ClaudeAssumption
  <2>2. step' \in [Call -> ClaudeSteps] /\ outcome' \in [Call -> ClaudeOutcomes]
    BY <1>1
      DEF Claude!RefuseRequest, Claude!WorkerUnchanged, Claude!Ended, Claude!WatchdogLives,
          Claude!TypeOK, Claude!threads, ClaudeSteps, ClaudeOutcomes
  <2>3. /\ dirs' \subseteq Call \cup {Image} /\ active' \subseteq Call /\ submitted' \subseteq Call
        /\ backend' \in ClaudeBackends /\ image' \in BOOLEAN
    BY <1>1
      DEF Claude!RefuseRequest, Claude!WorkerUnchanged, Claude!Ended, Claude!WatchdogLives,
          Claude!TypeOK, Claude!threads, Claude!processes, ClaudeBackends
  <2>4. watchdog' \in [Call -> ClaudeWatchdogs]
    BY <1>1
      DEF Claude!RefuseRequest, Claude!WorkerUnchanged, Claude!Ended, Claude!WatchdogLives,
          Claude!TypeOK, Claude!threads, Claude!processes, ClaudeWatchdogs,
          Claude!ClaudeAssumption
  <2>5. /\ leader' \in [Call -> ClaudeLeaders] /\ child' \in [Call -> BOOLEAN]
        /\ lifeline' \in [Call -> BOOLEAN] /\ wrote' \in [Call -> ClaudeParts]
    BY <1>1
      DEF Claude!RefuseRequest, Claude!WorkerUnchanged, Claude!Ended, Claude!WatchdogLives,
          Claude!TypeOK, Claude!threads, Claude!processes, ClaudeLeaders, ClaudeParts,
          Claude!Listening
  <2>6. UNCHANGED <<epoch, running, closer, lock>>
    BY DEF Claude!RefuseRequest, Claude!WorkerUnchanged, Claude!Ended, Claude!WatchdogLives,
           Claude!threads, Claude!processes
  <2> QED
    BY <1>1, <2>1, <2>2, <2>3, <2>4, <2>5, <2>6
      DEF Claude!TypeOK, ClaudeSteps, ClaudeOutcomes, ClaudeBackends, ClaudeWatchdogs,
          ClaudeLeaders, ClaudeParts
<1>3. CallAtStep(c)'
  BY <1>1
    DEF Claude!RefuseRequest, Claude!WorkerUnchanged, Claude!Ended, Claude!WatchdogLives,
        Claude!TypeOK, Claude!threads, Claude!processes, CallParts, CallAtStep, CallProcesses,
        Claude!Listening, Claude!LeaderLives
<1>4. CallProcesses(c)'
  BY <1>1
    DEF Claude!RefuseRequest, Claude!WorkerUnchanged, Claude!Ended, Claude!WatchdogLives,
        Claude!TypeOK, Claude!threads, Claude!processes, CallParts, CallAtStep, CallProcesses,
        Claude!Listening, Claude!LeaderLives
<1>5. CallVerdict(c)'
  BY <1>1
    DEF Claude!RefuseRequest, Claude!WorkerUnchanged, Claude!Ended, Claude!WatchdogLives,
        Claude!TypeOK, Claude!threads, Claude!processes, CallParts, CallAtStep, CallProcesses,
        CallVerdict, Claude!GroupLives, Claude!Listening, Claude!LeaderLives,
        Claude!WatchdogLives
<1>6. CallWorkspace(c)'
  BY <1>1
    DEF Claude!RefuseRequest, Claude!WorkerUnchanged, Claude!Ended, Claude!WatchdogLives,
        Claude!TypeOK, Claude!threads, Claude!processes, CallParts, CallAtStep, CallWorkspace,
        WorkspaceSteps
<1>7. CallLock(c)'
  BY <1>1
    DEF Claude!RefuseRequest, Claude!WorkerUnchanged, Claude!Ended, Claude!WatchdogLives,
        Claude!TypeOK, Claude!threads, Claude!processes, CallParts, CallAtStep, CallProcesses,
        CallWorkspace, CallLock, WorkerLives, Claude!WatchdogLives, Claude!LeaderLives,
        Claude!GroupLives, Claude!Listening, LockedSteps, WorkspaceSteps, ClaudeLockInv
<1>8. /\ \A d \in Call \ {c} : /\ UNCHANGED OwnCall(d) /\ (d \in submitted' <=> d \in submitted)
                              /\ (d \in dirs' <=> d \in dirs) /\ (d \in active => d \in active')
      /\ UNCHANGED <<epoch, running, lock>> /\ backend'.lease = backend.lease
      /\ backend.poisoned => backend'.poisoned
  BY <1>1
    DEF Claude!RefuseRequest, Claude!WorkerUnchanged, Claude!Ended, Claude!WatchdogLives,
        Claude!TypeOK, Claude!threads, Claude!processes, OwnCall, Claude!Listening,
        Claude!ClaudeAssumption
<1> QED
  BY <1>2, <1>3, <1>4, <1>5, <1>6, <1>7, <1>8, ClaudeMoveKeeps DEF CallParts

\* Claude!Query keeps ClaudeInv.
LEMMA ClaudeQueryKeeps ==
  ASSUME ClaudeInv, Claude!ClaudeAssumption, NEW c \in Call, Claude!Query(c)
  PROVE  ClaudeInv'
<1>1. Claude!TypeOK /\ ClaudeLockInv /\ CallParts(c)
  BY DEF ClaudeInv
<1>2. Claude!TypeOK'
  <2>1. mishaps' \in 0 .. MaxMishaps
    BY <1>1
      DEF Claude!Query, Claude!WorkerUnchanged, Claude!Ended, Claude!WatchdogLives,
          Claude!TypeOK, Claude!Mishap, Claude!ClaudeAssumption
  <2>2. step' \in [Call -> ClaudeSteps] /\ outcome' \in [Call -> ClaudeOutcomes]
    BY <1>1
      DEF Claude!Query, Claude!WorkerUnchanged, Claude!Ended, Claude!WatchdogLives,
          Claude!TypeOK, Claude!threads, ClaudeSteps, ClaudeOutcomes
  <2>3. /\ dirs' \subseteq Call \cup {Image} /\ active' \subseteq Call /\ submitted' \subseteq Call
        /\ backend' \in ClaudeBackends /\ image' \in BOOLEAN
    BY <1>1
      DEF Claude!Query, Claude!WorkerUnchanged, Claude!Ended, Claude!WatchdogLives,
          Claude!TypeOK, Claude!threads, Claude!processes, ClaudeBackends
  <2>4. watchdog' \in [Call -> ClaudeWatchdogs]
    BY <1>1
      DEF Claude!Query, Claude!WorkerUnchanged, Claude!Ended, Claude!WatchdogLives,
          Claude!TypeOK, Claude!threads, Claude!processes, ClaudeWatchdogs,
          Claude!ClaudeAssumption
  <2>5. /\ leader' \in [Call -> ClaudeLeaders] /\ child' \in [Call -> BOOLEAN]
        /\ lifeline' \in [Call -> BOOLEAN] /\ wrote' \in [Call -> ClaudeParts]
    BY <1>1
      DEF Claude!Query, Claude!WorkerUnchanged, Claude!Ended, Claude!WatchdogLives,
          Claude!TypeOK, Claude!threads, Claude!processes, ClaudeLeaders, ClaudeParts,
          Claude!Listening
  <2>6. UNCHANGED <<epoch, running, closer, lock>>
    BY DEF Claude!Query, Claude!WorkerUnchanged, Claude!Ended, Claude!WatchdogLives,
           Claude!threads, Claude!processes
  <2> QED
    BY <1>1, <2>1, <2>2, <2>3, <2>4, <2>5, <2>6
      DEF Claude!TypeOK, ClaudeSteps, ClaudeOutcomes, ClaudeBackends, ClaudeWatchdogs,
          ClaudeLeaders, ClaudeParts
<1>3. CallAtStep(c)'
  BY <1>1
    DEF Claude!Query, Claude!WorkerUnchanged, Claude!Ended, Claude!WatchdogLives, Claude!TypeOK,
        Claude!threads, Claude!processes, CallParts, CallAtStep, CallProcesses,
        Claude!Listening, Claude!LeaderLives
<1>4. CallProcesses(c)'
  BY <1>1
    DEF Claude!Query, Claude!WorkerUnchanged, Claude!Ended, Claude!WatchdogLives, Claude!TypeOK,
        Claude!threads, Claude!processes, CallParts, CallAtStep, CallProcesses,
        Claude!Listening, Claude!LeaderLives
<1>5. CallVerdict(c)'
  BY <1>1
    DEF Claude!Query, Claude!WorkerUnchanged, Claude!Ended, Claude!WatchdogLives, Claude!TypeOK,
        Claude!threads, Claude!processes, CallParts, CallAtStep, CallProcesses, CallVerdict,
        Claude!GroupLives, Claude!Listening, Claude!LeaderLives, Claude!WatchdogLives
<1>6. CallWorkspace(c)'
  BY <1>1
    DEF Claude!Query, Claude!WorkerUnchanged, Claude!Ended, Claude!WatchdogLives, Claude!TypeOK,
        Claude!threads, Claude!processes, CallParts, CallAtStep, CallWorkspace, WorkspaceSteps
<1>7. CallLock(c)'
  BY <1>1
    DEF Claude!Query, Claude!WorkerUnchanged, Claude!Ended, Claude!WatchdogLives, Claude!TypeOK,
        Claude!threads, Claude!processes, CallParts, CallAtStep, CallProcesses, CallWorkspace,
        CallLock, WorkerLives, Claude!WatchdogLives, Claude!LeaderLives, Claude!GroupLives,
        Claude!Listening, LockedSteps, WorkspaceSteps, ClaudeLockInv
<1>8. /\ \A d \in Call \ {c} : /\ UNCHANGED OwnCall(d) /\ (d \in submitted' <=> d \in submitted)
                              /\ (d \in dirs' <=> d \in dirs) /\ (d \in active => d \in active')
      /\ UNCHANGED <<epoch, running, lock>> /\ backend'.lease = backend.lease
      /\ backend.poisoned => backend'.poisoned
  BY <1>1
    DEF Claude!Query, Claude!WorkerUnchanged, Claude!Ended, Claude!WatchdogLives, Claude!TypeOK,
        Claude!threads, Claude!processes, OwnCall, Claude!Listening, Claude!ClaudeAssumption
<1> QED
  BY <1>2, <1>3, <1>4, <1>5, <1>6, <1>7, <1>8, ClaudeMoveKeeps DEF CallParts

\* Claude!Submit keeps ClaudeInv.
LEMMA ClaudeSubmitKeeps ==
  ASSUME ClaudeInv, Claude!ClaudeAssumption, NEW c \in Call, Claude!Submit(c)
  PROVE  ClaudeInv'
<1>1. Claude!TypeOK /\ ClaudeLockInv /\ CallParts(c)
  BY DEF ClaudeInv
<1>2. Claude!TypeOK'
  <2>1. mishaps' \in 0 .. MaxMishaps
    BY <1>1
      DEF Claude!Submit, Claude!WorkerUnchanged, Claude!Ended, Claude!WatchdogLives,
          Claude!TypeOK, Claude!Mishap, Claude!ClaudeAssumption
  <2>2. step' \in [Call -> ClaudeSteps] /\ outcome' \in [Call -> ClaudeOutcomes]
    BY <1>1
      DEF Claude!Submit, Claude!WorkerUnchanged, Claude!Ended, Claude!WatchdogLives,
          Claude!TypeOK, Claude!threads, ClaudeSteps, ClaudeOutcomes
  <2>3. /\ dirs' \subseteq Call \cup {Image} /\ active' \subseteq Call /\ submitted' \subseteq Call
        /\ backend' \in ClaudeBackends /\ image' \in BOOLEAN
    BY <1>1
      DEF Claude!Submit, Claude!WorkerUnchanged, Claude!Ended, Claude!WatchdogLives,
          Claude!TypeOK, Claude!threads, Claude!processes, ClaudeBackends
  <2>4. watchdog' \in [Call -> ClaudeWatchdogs]
    BY <1>1
      DEF Claude!Submit, Claude!WorkerUnchanged, Claude!Ended, Claude!WatchdogLives,
          Claude!TypeOK, Claude!threads, Claude!processes, ClaudeWatchdogs,
          Claude!ClaudeAssumption
  <2>5. /\ leader' \in [Call -> ClaudeLeaders] /\ child' \in [Call -> BOOLEAN]
        /\ lifeline' \in [Call -> BOOLEAN] /\ wrote' \in [Call -> ClaudeParts]
    BY <1>1
      DEF Claude!Submit, Claude!WorkerUnchanged, Claude!Ended, Claude!WatchdogLives,
          Claude!TypeOK, Claude!threads, Claude!processes, ClaudeLeaders, ClaudeParts,
          Claude!Listening
  <2>6. UNCHANGED <<epoch, running, closer, lock>>
    BY DEF Claude!Submit, Claude!WorkerUnchanged, Claude!Ended, Claude!WatchdogLives,
           Claude!threads, Claude!processes
  <2> QED
    BY <1>1, <2>1, <2>2, <2>3, <2>4, <2>5, <2>6
      DEF Claude!TypeOK, ClaudeSteps, ClaudeOutcomes, ClaudeBackends, ClaudeWatchdogs,
          ClaudeLeaders, ClaudeParts
<1>3. CallAtStep(c)'
  BY <1>1
    DEF Claude!Submit, Claude!WorkerUnchanged, Claude!Ended, Claude!WatchdogLives,
        Claude!TypeOK, Claude!threads, Claude!processes, CallParts, CallAtStep, CallProcesses,
        Claude!Listening, Claude!LeaderLives
<1>4. CallProcesses(c)'
  BY <1>1
    DEF Claude!Submit, Claude!WorkerUnchanged, Claude!Ended, Claude!WatchdogLives,
        Claude!TypeOK, Claude!threads, Claude!processes, CallParts, CallAtStep, CallProcesses,
        Claude!Listening, Claude!LeaderLives
<1>5. CallVerdict(c)'
  BY <1>1
    DEF Claude!Submit, Claude!WorkerUnchanged, Claude!Ended, Claude!WatchdogLives,
        Claude!TypeOK, Claude!threads, Claude!processes, CallParts, CallAtStep, CallProcesses,
        CallVerdict, Claude!GroupLives, Claude!Listening, Claude!LeaderLives,
        Claude!WatchdogLives
<1>6. CallWorkspace(c)'
  BY <1>1
    DEF Claude!Submit, Claude!WorkerUnchanged, Claude!Ended, Claude!WatchdogLives,
        Claude!TypeOK, Claude!threads, Claude!processes, CallParts, CallAtStep, CallWorkspace,
        WorkspaceSteps
<1>7. CallLock(c)'
  BY <1>1
    DEF Claude!Submit, Claude!WorkerUnchanged, Claude!Ended, Claude!WatchdogLives,
        Claude!TypeOK, Claude!threads, Claude!processes, CallParts, CallAtStep, CallProcesses,
        CallWorkspace, CallLock, WorkerLives, Claude!WatchdogLives, Claude!LeaderLives,
        Claude!GroupLives, Claude!Listening, LockedSteps, WorkspaceSteps, ClaudeLockInv
<1>8. /\ \A d \in Call \ {c} : /\ UNCHANGED OwnCall(d) /\ (d \in submitted' <=> d \in submitted)
                              /\ (d \in dirs' <=> d \in dirs) /\ (d \in active => d \in active')
      /\ UNCHANGED <<epoch, running, lock>> /\ backend'.lease = backend.lease
      /\ backend.poisoned => backend'.poisoned
  BY <1>1
    DEF Claude!Submit, Claude!WorkerUnchanged, Claude!Ended, Claude!WatchdogLives,
        Claude!TypeOK, Claude!threads, Claude!processes, OwnCall, Claude!Listening,
        Claude!ClaudeAssumption
<1> QED
  BY <1>2, <1>3, <1>4, <1>5, <1>6, <1>7, <1>8, ClaudeMoveKeeps DEF CallParts

\* Claude!Answer keeps ClaudeInv.
LEMMA ClaudeAnswerKeeps ==
  ASSUME ClaudeInv, Claude!ClaudeAssumption, NEW c \in Call, Claude!Answer(c)
  PROVE  ClaudeInv'
<1>1. Claude!TypeOK /\ ClaudeLockInv /\ CallParts(c)
  BY DEF ClaudeInv
<1>2. Claude!TypeOK'
  <2>1. mishaps' \in 0 .. MaxMishaps
    BY <1>1
      DEF Claude!Answer, Claude!WorkerUnchanged, Claude!Ended, Claude!WatchdogLives,
          Claude!TypeOK, Claude!Mishap, Claude!ClaudeAssumption
  <2>2. step' \in [Call -> ClaudeSteps] /\ outcome' \in [Call -> ClaudeOutcomes]
    BY <1>1
      DEF Claude!Answer, Claude!WorkerUnchanged, Claude!Ended, Claude!WatchdogLives,
          Claude!TypeOK, Claude!threads, ClaudeSteps, ClaudeOutcomes
  <2>3. /\ dirs' \subseteq Call \cup {Image} /\ active' \subseteq Call /\ submitted' \subseteq Call
        /\ backend' \in ClaudeBackends /\ image' \in BOOLEAN
    BY <1>1
      DEF Claude!Answer, Claude!WorkerUnchanged, Claude!Ended, Claude!WatchdogLives,
          Claude!TypeOK, Claude!threads, Claude!processes, ClaudeBackends
  <2>4. watchdog' \in [Call -> ClaudeWatchdogs]
    BY <1>1
      DEF Claude!Answer, Claude!WorkerUnchanged, Claude!Ended, Claude!WatchdogLives,
          Claude!TypeOK, Claude!threads, Claude!processes, ClaudeWatchdogs,
          Claude!ClaudeAssumption
  <2>5. /\ leader' \in [Call -> ClaudeLeaders] /\ child' \in [Call -> BOOLEAN]
        /\ lifeline' \in [Call -> BOOLEAN] /\ wrote' \in [Call -> ClaudeParts]
    BY <1>1
      DEF Claude!Answer, Claude!WorkerUnchanged, Claude!Ended, Claude!WatchdogLives,
          Claude!TypeOK, Claude!threads, Claude!processes, ClaudeLeaders, ClaudeParts,
          Claude!Listening
  <2>6. UNCHANGED <<epoch, running, closer, lock>>
    BY DEF Claude!Answer, Claude!WorkerUnchanged, Claude!Ended, Claude!WatchdogLives,
           Claude!threads, Claude!processes
  <2> QED
    BY <1>1, <2>1, <2>2, <2>3, <2>4, <2>5, <2>6
      DEF Claude!TypeOK, ClaudeSteps, ClaudeOutcomes, ClaudeBackends, ClaudeWatchdogs,
          ClaudeLeaders, ClaudeParts
<1>3. CallAtStep(c)'
  BY <1>1
    DEF Claude!Answer, Claude!WorkerUnchanged, Claude!Ended, Claude!WatchdogLives,
        Claude!TypeOK, Claude!threads, Claude!processes, CallParts, CallAtStep, CallProcesses,
        Claude!Listening, Claude!LeaderLives
<1>4. CallProcesses(c)'
  BY <1>1
    DEF Claude!Answer, Claude!WorkerUnchanged, Claude!Ended, Claude!WatchdogLives,
        Claude!TypeOK, Claude!threads, Claude!processes, CallParts, CallAtStep, CallProcesses,
        Claude!Listening, Claude!LeaderLives
<1>5. CallVerdict(c)'
  BY <1>1
    DEF Claude!Answer, Claude!WorkerUnchanged, Claude!Ended, Claude!WatchdogLives,
        Claude!TypeOK, Claude!threads, Claude!processes, CallParts, CallAtStep, CallProcesses,
        CallVerdict, Claude!GroupLives, Claude!Listening, Claude!LeaderLives,
        Claude!WatchdogLives
<1>6. CallWorkspace(c)'
  BY <1>1
    DEF Claude!Answer, Claude!WorkerUnchanged, Claude!Ended, Claude!WatchdogLives,
        Claude!TypeOK, Claude!threads, Claude!processes, CallParts, CallAtStep, CallWorkspace,
        WorkspaceSteps
<1>7. CallLock(c)'
  BY <1>1
    DEF Claude!Answer, Claude!WorkerUnchanged, Claude!Ended, Claude!WatchdogLives,
        Claude!TypeOK, Claude!threads, Claude!processes, CallParts, CallAtStep, CallProcesses,
        CallWorkspace, CallLock, WorkerLives, Claude!WatchdogLives, Claude!LeaderLives,
        Claude!GroupLives, Claude!Listening, LockedSteps, WorkspaceSteps, ClaudeLockInv
<1>8. /\ \A d \in Call \ {c} : /\ UNCHANGED OwnCall(d) /\ (d \in submitted' <=> d \in submitted)
                              /\ (d \in dirs' <=> d \in dirs) /\ (d \in active => d \in active')
      /\ UNCHANGED <<epoch, running, lock>> /\ backend'.lease = backend.lease
      /\ backend.poisoned => backend'.poisoned
  BY <1>1
    DEF Claude!Answer, Claude!WorkerUnchanged, Claude!Ended, Claude!WatchdogLives,
        Claude!TypeOK, Claude!threads, Claude!processes, OwnCall, Claude!Listening,
        Claude!ClaudeAssumption
<1> QED
  BY <1>2, <1>3, <1>4, <1>5, <1>6, <1>7, <1>8, ClaudeMoveKeeps DEF CallParts

\* Claude!ChildEnds keeps ClaudeInv.
LEMMA ClaudeChildEndsKeeps ==
  ASSUME ClaudeInv, Claude!ClaudeAssumption, NEW c \in Call, Claude!ChildEnds(c)
  PROVE  ClaudeInv'
<1>1. Claude!TypeOK /\ ClaudeLockInv /\ CallParts(c)
  BY DEF ClaudeInv
<1>2. Claude!TypeOK'
  <2>1. mishaps' \in 0 .. MaxMishaps
    BY <1>1
      DEF Claude!ChildEnds, Claude!WorkerUnchanged, Claude!Ended, Claude!WatchdogLives,
          Claude!TypeOK, Claude!Mishap, Claude!ClaudeAssumption
  <2>2. step' \in [Call -> ClaudeSteps] /\ outcome' \in [Call -> ClaudeOutcomes]
    BY <1>1
      DEF Claude!ChildEnds, Claude!WorkerUnchanged, Claude!Ended, Claude!WatchdogLives,
          Claude!TypeOK, Claude!threads, ClaudeSteps, ClaudeOutcomes
  <2>3. /\ dirs' \subseteq Call \cup {Image} /\ active' \subseteq Call /\ submitted' \subseteq Call
        /\ backend' \in ClaudeBackends /\ image' \in BOOLEAN
    BY <1>1
      DEF Claude!ChildEnds, Claude!WorkerUnchanged, Claude!Ended, Claude!WatchdogLives,
          Claude!TypeOK, Claude!threads, Claude!processes, ClaudeBackends
  <2>4. watchdog' \in [Call -> ClaudeWatchdogs]
    BY <1>1
      DEF Claude!ChildEnds, Claude!WorkerUnchanged, Claude!Ended, Claude!WatchdogLives,
          Claude!TypeOK, Claude!threads, Claude!processes, ClaudeWatchdogs,
          Claude!ClaudeAssumption
  <2>5. /\ leader' \in [Call -> ClaudeLeaders] /\ child' \in [Call -> BOOLEAN]
        /\ lifeline' \in [Call -> BOOLEAN] /\ wrote' \in [Call -> ClaudeParts]
    BY <1>1
      DEF Claude!ChildEnds, Claude!WorkerUnchanged, Claude!Ended, Claude!WatchdogLives,
          Claude!TypeOK, Claude!threads, Claude!processes, ClaudeLeaders, ClaudeParts,
          Claude!Listening
  <2>6. UNCHANGED <<epoch, running, closer, lock>>
    BY DEF Claude!ChildEnds, Claude!WorkerUnchanged, Claude!Ended, Claude!WatchdogLives,
           Claude!threads, Claude!processes
  <2> QED
    BY <1>1, <2>1, <2>2, <2>3, <2>4, <2>5, <2>6
      DEF Claude!TypeOK, ClaudeSteps, ClaudeOutcomes, ClaudeBackends, ClaudeWatchdogs,
          ClaudeLeaders, ClaudeParts
<1>3. CallAtStep(c)'
  BY <1>1
    DEF Claude!ChildEnds, Claude!WorkerUnchanged, Claude!Ended, Claude!WatchdogLives,
        Claude!TypeOK, Claude!threads, Claude!processes, CallParts, CallAtStep, CallProcesses,
        Claude!Listening, Claude!LeaderLives
<1>4. CallProcesses(c)'
  BY <1>1
    DEF Claude!ChildEnds, Claude!WorkerUnchanged, Claude!Ended, Claude!WatchdogLives,
        Claude!TypeOK, Claude!threads, Claude!processes, CallParts, CallAtStep, CallProcesses,
        Claude!Listening, Claude!LeaderLives
<1>5. CallVerdict(c)'
  BY <1>1
    DEF Claude!ChildEnds, Claude!WorkerUnchanged, Claude!Ended, Claude!WatchdogLives,
        Claude!TypeOK, Claude!threads, Claude!processes, CallParts, CallAtStep, CallProcesses,
        CallVerdict, Claude!GroupLives, Claude!Listening, Claude!LeaderLives,
        Claude!WatchdogLives
<1>6. CallWorkspace(c)'
  BY <1>1
    DEF Claude!ChildEnds, Claude!WorkerUnchanged, Claude!Ended, Claude!WatchdogLives,
        Claude!TypeOK, Claude!threads, Claude!processes, CallParts, CallAtStep, CallWorkspace,
        WorkspaceSteps
<1>7. CallLock(c)'
  BY <1>1
    DEF Claude!ChildEnds, Claude!WorkerUnchanged, Claude!Ended, Claude!WatchdogLives,
        Claude!TypeOK, Claude!threads, Claude!processes, CallParts, CallAtStep, CallProcesses,
        CallWorkspace, CallLock, WorkerLives, Claude!WatchdogLives, Claude!LeaderLives,
        Claude!GroupLives, Claude!Listening, LockedSteps, WorkspaceSteps, ClaudeLockInv
<1>8. /\ \A d \in Call \ {c} : /\ UNCHANGED OwnCall(d) /\ (d \in submitted' <=> d \in submitted)
                              /\ (d \in dirs' <=> d \in dirs) /\ (d \in active => d \in active')
      /\ UNCHANGED <<epoch, running, lock>> /\ backend'.lease = backend.lease
      /\ backend.poisoned => backend'.poisoned
  BY <1>1
    DEF Claude!ChildEnds, Claude!WorkerUnchanged, Claude!Ended, Claude!WatchdogLives,
        Claude!TypeOK, Claude!threads, Claude!processes, OwnCall, Claude!Listening,
        Claude!ClaudeAssumption
<1> QED
  BY <1>2, <1>3, <1>4, <1>5, <1>6, <1>7, <1>8, ClaudeMoveKeeps DEF CallParts

\* Claude!HearInit keeps ClaudeInv.
LEMMA ClaudeHearInitKeeps ==
  ASSUME ClaudeInv, Claude!ClaudeAssumption, NEW c \in Call, Claude!HearInit(c)
  PROVE  ClaudeInv'
<1>1. Claude!TypeOK /\ ClaudeLockInv /\ CallParts(c)
  BY DEF ClaudeInv
<1>2. Claude!TypeOK'
  <2>1. mishaps' \in 0 .. MaxMishaps
    BY <1>1
      DEF Claude!HearInit, Claude!Hear, Claude!WorkerUnchanged, Claude!Ended,
          Claude!WatchdogLives, Claude!TypeOK, Claude!Mishap, Claude!ClaudeAssumption
  <2>2. step' \in [Call -> ClaudeSteps] /\ outcome' \in [Call -> ClaudeOutcomes]
    BY <1>1
      DEF Claude!HearInit, Claude!Hear, Claude!WorkerUnchanged, Claude!Ended,
          Claude!WatchdogLives, Claude!TypeOK, Claude!threads, ClaudeSteps, ClaudeOutcomes
  <2>3. /\ dirs' \subseteq Call \cup {Image} /\ active' \subseteq Call /\ submitted' \subseteq Call
        /\ backend' \in ClaudeBackends /\ image' \in BOOLEAN
    BY <1>1
      DEF Claude!HearInit, Claude!Hear, Claude!WorkerUnchanged, Claude!Ended,
          Claude!WatchdogLives, Claude!TypeOK, Claude!threads, Claude!processes, ClaudeBackends
  <2>4. watchdog' \in [Call -> ClaudeWatchdogs]
    BY <1>1
      DEF Claude!HearInit, Claude!Hear, Claude!WorkerUnchanged, Claude!Ended,
          Claude!WatchdogLives, Claude!TypeOK, Claude!threads, Claude!processes,
          ClaudeWatchdogs, Claude!ClaudeAssumption
  <2>5. /\ leader' \in [Call -> ClaudeLeaders] /\ child' \in [Call -> BOOLEAN]
        /\ lifeline' \in [Call -> BOOLEAN] /\ wrote' \in [Call -> ClaudeParts]
    BY <1>1
      DEF Claude!HearInit, Claude!Hear, Claude!WorkerUnchanged, Claude!Ended,
          Claude!WatchdogLives, Claude!TypeOK, Claude!threads, Claude!processes, ClaudeLeaders,
          ClaudeParts, Claude!Listening
  <2>6. UNCHANGED <<epoch, running, closer, lock>>
    BY DEF Claude!HearInit, Claude!Hear, Claude!WorkerUnchanged, Claude!Ended,
           Claude!WatchdogLives, Claude!threads, Claude!processes
  <2> QED
    BY <1>1, <2>1, <2>2, <2>3, <2>4, <2>5, <2>6
      DEF Claude!TypeOK, ClaudeSteps, ClaudeOutcomes, ClaudeBackends, ClaudeWatchdogs,
          ClaudeLeaders, ClaudeParts
<1>3. CallAtStep(c)'
  BY <1>1
    DEF Claude!HearInit, Claude!Hear, Claude!WorkerUnchanged, Claude!Ended,
        Claude!WatchdogLives, Claude!TypeOK, Claude!threads, Claude!processes, CallParts,
        CallAtStep, CallProcesses, Claude!Listening, Claude!LeaderLives
<1>4. CallProcesses(c)'
  BY <1>1
    DEF Claude!HearInit, Claude!Hear, Claude!WorkerUnchanged, Claude!Ended,
        Claude!WatchdogLives, Claude!TypeOK, Claude!threads, Claude!processes, CallParts,
        CallAtStep, CallProcesses, Claude!Listening, Claude!LeaderLives
<1>5. CallVerdict(c)'
  BY <1>1
    DEF Claude!HearInit, Claude!Hear, Claude!WorkerUnchanged, Claude!Ended,
        Claude!WatchdogLives, Claude!TypeOK, Claude!threads, Claude!processes, CallParts,
        CallAtStep, CallProcesses, CallVerdict, Claude!GroupLives, Claude!Listening,
        Claude!LeaderLives, Claude!WatchdogLives
<1>6. CallWorkspace(c)'
  BY <1>1
    DEF Claude!HearInit, Claude!Hear, Claude!WorkerUnchanged, Claude!Ended,
        Claude!WatchdogLives, Claude!TypeOK, Claude!threads, Claude!processes, CallParts,
        CallAtStep, CallWorkspace, WorkspaceSteps
<1>7. CallLock(c)'
  BY <1>1
    DEF Claude!HearInit, Claude!Hear, Claude!WorkerUnchanged, Claude!Ended,
        Claude!WatchdogLives, Claude!TypeOK, Claude!threads, Claude!processes, CallParts,
        CallAtStep, CallProcesses, CallWorkspace, CallLock, WorkerLives, Claude!WatchdogLives,
        Claude!LeaderLives, Claude!GroupLives, Claude!Listening, LockedSteps, WorkspaceSteps,
        ClaudeLockInv
<1>8. /\ \A d \in Call \ {c} : /\ UNCHANGED OwnCall(d) /\ (d \in submitted' <=> d \in submitted)
                              /\ (d \in dirs' <=> d \in dirs) /\ (d \in active => d \in active')
      /\ UNCHANGED <<epoch, running, lock>> /\ backend'.lease = backend.lease
      /\ backend.poisoned => backend'.poisoned
  BY <1>1
    DEF Claude!HearInit, Claude!Hear, Claude!WorkerUnchanged, Claude!Ended,
        Claude!WatchdogLives, Claude!TypeOK, Claude!threads, Claude!processes, OwnCall,
        Claude!Listening, Claude!ClaudeAssumption
<1> QED
  BY <1>2, <1>3, <1>4, <1>5, <1>6, <1>7, <1>8, ClaudeMoveKeeps DEF CallParts

\* Claude!HearAssistant keeps ClaudeInv.
LEMMA ClaudeHearAssistantKeeps ==
  ASSUME ClaudeInv, Claude!ClaudeAssumption, NEW c \in Call, Claude!HearAssistant(c)
  PROVE  ClaudeInv'
<1>1. Claude!TypeOK /\ ClaudeLockInv /\ CallParts(c)
  BY DEF ClaudeInv
<1>2. Claude!TypeOK'
  <2>1. mishaps' \in 0 .. MaxMishaps
    BY <1>1
      DEF Claude!HearAssistant, Claude!Hear, Claude!WorkerUnchanged, Claude!Ended,
          Claude!WatchdogLives, Claude!TypeOK, Claude!Mishap, Claude!ClaudeAssumption
  <2>2. step' \in [Call -> ClaudeSteps] /\ outcome' \in [Call -> ClaudeOutcomes]
    BY <1>1
      DEF Claude!HearAssistant, Claude!Hear, Claude!WorkerUnchanged, Claude!Ended,
          Claude!WatchdogLives, Claude!TypeOK, Claude!threads, ClaudeSteps, ClaudeOutcomes
  <2>3. /\ dirs' \subseteq Call \cup {Image} /\ active' \subseteq Call /\ submitted' \subseteq Call
        /\ backend' \in ClaudeBackends /\ image' \in BOOLEAN
    BY <1>1
      DEF Claude!HearAssistant, Claude!Hear, Claude!WorkerUnchanged, Claude!Ended,
          Claude!WatchdogLives, Claude!TypeOK, Claude!threads, Claude!processes, ClaudeBackends
  <2>4. watchdog' \in [Call -> ClaudeWatchdogs]
    BY <1>1
      DEF Claude!HearAssistant, Claude!Hear, Claude!WorkerUnchanged, Claude!Ended,
          Claude!WatchdogLives, Claude!TypeOK, Claude!threads, Claude!processes,
          ClaudeWatchdogs, Claude!ClaudeAssumption
  <2>5. /\ leader' \in [Call -> ClaudeLeaders] /\ child' \in [Call -> BOOLEAN]
        /\ lifeline' \in [Call -> BOOLEAN] /\ wrote' \in [Call -> ClaudeParts]
    BY <1>1
      DEF Claude!HearAssistant, Claude!Hear, Claude!WorkerUnchanged, Claude!Ended,
          Claude!WatchdogLives, Claude!TypeOK, Claude!threads, Claude!processes, ClaudeLeaders,
          ClaudeParts, Claude!Listening
  <2>6. UNCHANGED <<epoch, running, closer, lock>>
    BY DEF Claude!HearAssistant, Claude!Hear, Claude!WorkerUnchanged, Claude!Ended,
           Claude!WatchdogLives, Claude!threads, Claude!processes
  <2> QED
    BY <1>1, <2>1, <2>2, <2>3, <2>4, <2>5, <2>6
      DEF Claude!TypeOK, ClaudeSteps, ClaudeOutcomes, ClaudeBackends, ClaudeWatchdogs,
          ClaudeLeaders, ClaudeParts
<1>3. CallAtStep(c)'
  BY <1>1
    DEF Claude!HearAssistant, Claude!Hear, Claude!WorkerUnchanged, Claude!Ended,
        Claude!WatchdogLives, Claude!TypeOK, Claude!threads, Claude!processes, CallParts,
        CallAtStep, CallProcesses, Claude!Listening, Claude!LeaderLives
<1>4. CallProcesses(c)'
  BY <1>1
    DEF Claude!HearAssistant, Claude!Hear, Claude!WorkerUnchanged, Claude!Ended,
        Claude!WatchdogLives, Claude!TypeOK, Claude!threads, Claude!processes, CallParts,
        CallAtStep, CallProcesses, Claude!Listening, Claude!LeaderLives
<1>5. CallVerdict(c)'
  BY <1>1
    DEF Claude!HearAssistant, Claude!Hear, Claude!WorkerUnchanged, Claude!Ended,
        Claude!WatchdogLives, Claude!TypeOK, Claude!threads, Claude!processes, CallParts,
        CallAtStep, CallProcesses, CallVerdict, Claude!GroupLives, Claude!Listening,
        Claude!LeaderLives, Claude!WatchdogLives
<1>6. CallWorkspace(c)'
  BY <1>1
    DEF Claude!HearAssistant, Claude!Hear, Claude!WorkerUnchanged, Claude!Ended,
        Claude!WatchdogLives, Claude!TypeOK, Claude!threads, Claude!processes, CallParts,
        CallAtStep, CallWorkspace, WorkspaceSteps
<1>7. CallLock(c)'
  BY <1>1
    DEF Claude!HearAssistant, Claude!Hear, Claude!WorkerUnchanged, Claude!Ended,
        Claude!WatchdogLives, Claude!TypeOK, Claude!threads, Claude!processes, CallParts,
        CallAtStep, CallProcesses, CallWorkspace, CallLock, WorkerLives, Claude!WatchdogLives,
        Claude!LeaderLives, Claude!GroupLives, Claude!Listening, LockedSteps, WorkspaceSteps,
        ClaudeLockInv
<1>8. /\ \A d \in Call \ {c} : /\ UNCHANGED OwnCall(d) /\ (d \in submitted' <=> d \in submitted)
                              /\ (d \in dirs' <=> d \in dirs) /\ (d \in active => d \in active')
      /\ UNCHANGED <<epoch, running, lock>> /\ backend'.lease = backend.lease
      /\ backend.poisoned => backend'.poisoned
  BY <1>1
    DEF Claude!HearAssistant, Claude!Hear, Claude!WorkerUnchanged, Claude!Ended,
        Claude!WatchdogLives, Claude!TypeOK, Claude!threads, Claude!processes, OwnCall,
        Claude!Listening, Claude!ClaudeAssumption
<1> QED
  BY <1>2, <1>3, <1>4, <1>5, <1>6, <1>7, <1>8, ClaudeMoveKeeps DEF CallParts

\* Claude!HearResult keeps ClaudeInv.
LEMMA ClaudeHearResultKeeps ==
  ASSUME ClaudeInv, Claude!ClaudeAssumption, NEW c \in Call, Claude!HearResult(c)
  PROVE  ClaudeInv'
<1>1. Claude!TypeOK /\ ClaudeLockInv /\ CallParts(c)
  BY DEF ClaudeInv
<1>2. Claude!TypeOK'
  <2>1. mishaps' \in 0 .. MaxMishaps
    BY <1>1
      DEF Claude!HearResult, Claude!Hear, Claude!WorkerUnchanged, Claude!Ended,
          Claude!WatchdogLives, Claude!TypeOK, Claude!Mishap, Claude!ClaudeAssumption
  <2>2. step' \in [Call -> ClaudeSteps] /\ outcome' \in [Call -> ClaudeOutcomes]
    BY <1>1
      DEF Claude!HearResult, Claude!Hear, Claude!WorkerUnchanged, Claude!Ended,
          Claude!WatchdogLives, Claude!TypeOK, Claude!threads, ClaudeSteps, ClaudeOutcomes
  <2>3. /\ dirs' \subseteq Call \cup {Image} /\ active' \subseteq Call /\ submitted' \subseteq Call
        /\ backend' \in ClaudeBackends /\ image' \in BOOLEAN
    BY <1>1
      DEF Claude!HearResult, Claude!Hear, Claude!WorkerUnchanged, Claude!Ended,
          Claude!WatchdogLives, Claude!TypeOK, Claude!threads, Claude!processes, ClaudeBackends
  <2>4. watchdog' \in [Call -> ClaudeWatchdogs]
    BY <1>1
      DEF Claude!HearResult, Claude!Hear, Claude!WorkerUnchanged, Claude!Ended,
          Claude!WatchdogLives, Claude!TypeOK, Claude!threads, Claude!processes,
          ClaudeWatchdogs, Claude!ClaudeAssumption
  <2>5. /\ leader' \in [Call -> ClaudeLeaders] /\ child' \in [Call -> BOOLEAN]
        /\ lifeline' \in [Call -> BOOLEAN] /\ wrote' \in [Call -> ClaudeParts]
    BY <1>1
      DEF Claude!HearResult, Claude!Hear, Claude!WorkerUnchanged, Claude!Ended,
          Claude!WatchdogLives, Claude!TypeOK, Claude!threads, Claude!processes, ClaudeLeaders,
          ClaudeParts, Claude!Listening
  <2>6. UNCHANGED <<epoch, running, closer, lock>>
    BY DEF Claude!HearResult, Claude!Hear, Claude!WorkerUnchanged, Claude!Ended,
           Claude!WatchdogLives, Claude!threads, Claude!processes
  <2> QED
    BY <1>1, <2>1, <2>2, <2>3, <2>4, <2>5, <2>6
      DEF Claude!TypeOK, ClaudeSteps, ClaudeOutcomes, ClaudeBackends, ClaudeWatchdogs,
          ClaudeLeaders, ClaudeParts
<1>3. CallAtStep(c)'
  BY <1>1
    DEF Claude!HearResult, Claude!Hear, Claude!WorkerUnchanged, Claude!Ended,
        Claude!WatchdogLives, Claude!TypeOK, Claude!threads, Claude!processes, CallParts,
        CallAtStep, CallProcesses, Claude!Listening, Claude!LeaderLives
<1>4. CallProcesses(c)'
  BY <1>1
    DEF Claude!HearResult, Claude!Hear, Claude!WorkerUnchanged, Claude!Ended,
        Claude!WatchdogLives, Claude!TypeOK, Claude!threads, Claude!processes, CallParts,
        CallAtStep, CallProcesses, Claude!Listening, Claude!LeaderLives
<1>5. CallVerdict(c)'
  BY <1>1
    DEF Claude!HearResult, Claude!Hear, Claude!WorkerUnchanged, Claude!Ended,
        Claude!WatchdogLives, Claude!TypeOK, Claude!threads, Claude!processes, CallParts,
        CallAtStep, CallProcesses, CallVerdict, Claude!GroupLives, Claude!Listening,
        Claude!LeaderLives, Claude!WatchdogLives
<1>6. CallWorkspace(c)'
  BY <1>1
    DEF Claude!HearResult, Claude!Hear, Claude!WorkerUnchanged, Claude!Ended,
        Claude!WatchdogLives, Claude!TypeOK, Claude!threads, Claude!processes, CallParts,
        CallAtStep, CallWorkspace, WorkspaceSteps
<1>7. CallLock(c)'
  BY <1>1
    DEF Claude!HearResult, Claude!Hear, Claude!WorkerUnchanged, Claude!Ended,
        Claude!WatchdogLives, Claude!TypeOK, Claude!threads, Claude!processes, CallParts,
        CallAtStep, CallProcesses, CallWorkspace, CallLock, WorkerLives, Claude!WatchdogLives,
        Claude!LeaderLives, Claude!GroupLives, Claude!Listening, LockedSteps, WorkspaceSteps,
        ClaudeLockInv
<1>8. /\ \A d \in Call \ {c} : /\ UNCHANGED OwnCall(d) /\ (d \in submitted' <=> d \in submitted)
                              /\ (d \in dirs' <=> d \in dirs) /\ (d \in active => d \in active')
      /\ UNCHANGED <<epoch, running, lock>> /\ backend'.lease = backend.lease
      /\ backend.poisoned => backend'.poisoned
  BY <1>1
    DEF Claude!HearResult, Claude!Hear, Claude!WorkerUnchanged, Claude!Ended,
        Claude!WatchdogLives, Claude!TypeOK, Claude!threads, Claude!processes, OwnCall,
        Claude!Listening, Claude!ClaudeAssumption
<1> QED
  BY <1>2, <1>3, <1>4, <1>5, <1>6, <1>7, <1>8, ClaudeMoveKeeps DEF CallParts

\* Claude!LeaderDies keeps ClaudeInv.
LEMMA ClaudeLeaderDiesKeeps ==
  ASSUME ClaudeInv, Claude!ClaudeAssumption, NEW c \in Call, Claude!LeaderDies(c)
  PROVE  ClaudeInv'
<1>1. Claude!TypeOK /\ ClaudeLockInv /\ CallParts(c)
  BY DEF ClaudeInv
<1>2. Claude!TypeOK'
  <2>1. mishaps' \in 0 .. MaxMishaps
    BY <1>1
      DEF Claude!LeaderDies, Claude!LeaderLives, Claude!WorkerUnchanged, Claude!Ended,
          Claude!WatchdogLives, Claude!TypeOK, Claude!Mishap, Claude!ClaudeAssumption
  <2>2. step' \in [Call -> ClaudeSteps] /\ outcome' \in [Call -> ClaudeOutcomes]
    BY <1>1
      DEF Claude!LeaderDies, Claude!LeaderLives, Claude!WorkerUnchanged, Claude!Ended,
          Claude!WatchdogLives, Claude!TypeOK, Claude!threads, ClaudeSteps, ClaudeOutcomes
  <2>3. /\ dirs' \subseteq Call \cup {Image} /\ active' \subseteq Call /\ submitted' \subseteq Call
        /\ backend' \in ClaudeBackends /\ image' \in BOOLEAN
    BY <1>1
      DEF Claude!LeaderDies, Claude!LeaderLives, Claude!WorkerUnchanged, Claude!Ended,
          Claude!WatchdogLives, Claude!TypeOK, Claude!threads, Claude!processes, ClaudeBackends
  <2>4. watchdog' \in [Call -> ClaudeWatchdogs]
    BY <1>1
      DEF Claude!LeaderDies, Claude!LeaderLives, Claude!WorkerUnchanged, Claude!Ended,
          Claude!WatchdogLives, Claude!TypeOK, Claude!threads, Claude!processes,
          ClaudeWatchdogs, Claude!ClaudeAssumption
  <2>5. /\ leader' \in [Call -> ClaudeLeaders] /\ child' \in [Call -> BOOLEAN]
        /\ lifeline' \in [Call -> BOOLEAN] /\ wrote' \in [Call -> ClaudeParts]
    BY <1>1
      DEF Claude!LeaderDies, Claude!LeaderLives, Claude!WorkerUnchanged, Claude!Ended,
          Claude!WatchdogLives, Claude!TypeOK, Claude!threads, Claude!processes, ClaudeLeaders,
          ClaudeParts, Claude!Listening
  <2>6. UNCHANGED <<epoch, running, closer, lock>>
    BY DEF Claude!LeaderDies, Claude!LeaderLives, Claude!WorkerUnchanged, Claude!Ended,
           Claude!WatchdogLives, Claude!threads, Claude!processes
  <2> QED
    BY <1>1, <2>1, <2>2, <2>3, <2>4, <2>5, <2>6
      DEF Claude!TypeOK, ClaudeSteps, ClaudeOutcomes, ClaudeBackends, ClaudeWatchdogs,
          ClaudeLeaders, ClaudeParts
<1>3. CallAtStep(c)'
  BY <1>1
    DEF Claude!LeaderDies, Claude!LeaderLives, Claude!WorkerUnchanged, Claude!Ended,
        Claude!WatchdogLives, Claude!TypeOK, Claude!threads, Claude!processes, CallParts,
        CallAtStep, CallProcesses, Claude!Listening, Claude!LeaderLives
<1>4. CallProcesses(c)'
  BY <1>1
    DEF Claude!LeaderDies, Claude!LeaderLives, Claude!WorkerUnchanged, Claude!Ended,
        Claude!WatchdogLives, Claude!TypeOK, Claude!threads, Claude!processes, CallParts,
        CallAtStep, CallProcesses, Claude!Listening, Claude!LeaderLives
<1>5. CallVerdict(c)'
  BY <1>1
    DEF Claude!LeaderDies, Claude!LeaderLives, Claude!WorkerUnchanged, Claude!Ended,
        Claude!WatchdogLives, Claude!TypeOK, Claude!threads, Claude!processes, CallParts,
        CallAtStep, CallProcesses, CallVerdict, Claude!GroupLives, Claude!Listening,
        Claude!LeaderLives, Claude!WatchdogLives
<1>6. CallWorkspace(c)'
  BY <1>1
    DEF Claude!LeaderDies, Claude!LeaderLives, Claude!WorkerUnchanged, Claude!Ended,
        Claude!WatchdogLives, Claude!TypeOK, Claude!threads, Claude!processes, CallParts,
        CallAtStep, CallWorkspace, WorkspaceSteps
<1>7. CallLock(c)'
  BY <1>1
    DEF Claude!LeaderDies, Claude!LeaderLives, Claude!WorkerUnchanged, Claude!Ended,
        Claude!WatchdogLives, Claude!TypeOK, Claude!threads, Claude!processes, CallParts,
        CallAtStep, CallProcesses, CallWorkspace, CallLock, WorkerLives, Claude!WatchdogLives,
        Claude!LeaderLives, Claude!GroupLives, Claude!Listening, LockedSteps, WorkspaceSteps,
        ClaudeLockInv
<1>8. /\ \A d \in Call \ {c} : /\ UNCHANGED OwnCall(d) /\ (d \in submitted' <=> d \in submitted)
                              /\ (d \in dirs' <=> d \in dirs) /\ (d \in active => d \in active')
      /\ UNCHANGED <<epoch, running, lock>> /\ backend'.lease = backend.lease
      /\ backend.poisoned => backend'.poisoned
  BY <1>1
    DEF Claude!LeaderDies, Claude!LeaderLives, Claude!WorkerUnchanged, Claude!Ended,
        Claude!WatchdogLives, Claude!TypeOK, Claude!threads, Claude!processes, OwnCall,
        Claude!Listening, Claude!ClaudeAssumption
<1> QED
  BY <1>2, <1>3, <1>4, <1>5, <1>6, <1>7, <1>8, ClaudeMoveKeeps DEF CallParts

\* Giving up the resources takes no work space, and the lock only from itself.
LEMMA ClaudeReleaseKeeps ==
  ASSUME ClaudeInv, Claude!ClaudeAssumption, NEW failed \in BOOLEAN,
         Claude!ReleaseResources(failed), running
  PROVE  /\ image' \in BOOLEAN /\ dirs' \subseteq dirs /\ dirs \subseteq dirs' \cup {Image}
         /\ backend' \in ClaudeBackends /\ (backend.poisoned => backend'.poisoned)
         /\ lock' \in {0, lock} /\ lock' \in 0 .. MaxEpochs
         /\ backend.lease # "held" => lock' = lock
         /\ backend'.lease # "none" => backend.lease # "none" /\ lock' = lock
<1>1. Claude!TypeOK
  BY DEF ClaudeInv
<1>2. /\ image' \in BOOLEAN /\ dirs' \subseteq dirs /\ dirs \subseteq dirs' \cup {Image}
  BY <1>1 DEF Claude!ReleaseResources, Claude!TypeOK
<1>3. backend' = [backend EXCEPT !.poisoned = backend.poisoned \/ failed,
                                 !.lease = IF @ # "held" THEN @
                                           ELSE IF backend.poisoned \/ failed THEN "retained"
                                             ELSE "none"]
  BY DEF Claude!ReleaseResources
<1>4. backend \in ClaudeBackends
  BY <1>1 DEF Claude!TypeOK, ClaudeBackends
<1>5. backend' \in ClaudeBackends /\ (backend.poisoned => backend'.poisoned)
  BY <1>3, <1>4 DEF ClaudeBackends
<1>6. lock' = IF backend.lease = "held" /\ ~(backend.poisoned \/ failed) THEN 0 ELSE lock
  BY DEF Claude!ReleaseResources
<1>7. backend'.lease # "none" => backend.lease # "none" /\ lock' = lock
  BY <1>3, <1>4, <1>6 DEF ClaudeBackends
<1> QED
  BY <1>1, <1>2, <1>5, <1>6, <1>7 DEF Claude!TypeOK, Claude!ClaudeAssumption

\* A call keeps its parts when the lease is given up.
LEMMA ClaudeReleasedRests ==
  ASSUME ClaudeInv, Claude!ClaudeAssumption, NEW failed \in BOOLEAN,
         Claude!ReleaseResources(failed), running,
         UNCHANGED <<epoch, running>>, NEW d \in Call, UNCHANGED OwnCall(d), d \notin active,
         UNCHANGED submitted
  PROVE  CallParts(d)'
<1>1. Claude!TypeOK /\ ClaudeLockInv /\ CallParts(d)
  BY DEF ClaudeInv
<1>2. /\ dirs' \subseteq dirs /\ dirs \subseteq dirs' \cup {Image}
      /\ (backend.poisoned => backend'.poisoned)
      /\ lock' \in {0, lock} /\ (backend.lease # "held" => lock' = lock)
  BY ClaudeReleaseKeeps
<1>3. /\ step'[d] = step[d] /\ outcome'[d] = outcome[d] /\ watchdog'[d] = watchdog[d]
      /\ leader'[d] = leader[d] /\ child'[d] = child[d] /\ wrote'[d] = wrote[d]
  BY DEF OwnCall
<1>4. d \in dirs' <=> d \in dirs
  BY <1>2 DEF Claude!ClaudeAssumption
<1>5. step[d] \notin WorkspaceSteps \cup {"space", "leave", "discard"}
  BY <1>1 DEF CallParts, CallLock
<1>6. CallAtStep(d)'
  BY <1>1, <1>3, <1>4 DEF CallParts, CallAtStep
<1>7. CallProcesses(d)'
  BY <1>1, <1>3 DEF CallParts, CallProcesses, Claude!Listening
<1>8. CallVerdict(d)'
  BY <1>1, <1>3
    DEF CallParts, CallVerdict, Claude!GroupLives, Claude!LeaderLives, Claude!Listening
<1>9. CallWorkspace(d)'
  BY <1>1, <1>2, <1>3, <1>4 DEF CallParts, CallWorkspace, WorkspaceSteps
<1>10. step[d] = "dead" /\ WorkerLives(d) => backend.lease # "held"
  BY <1>1 DEF CallParts, CallLock, ClaudeLockInv, Claude!TypeOK
<1>11. CallLock(d)'
  BY <1>1, <1>2, <1>3, <1>4, <1>5, <1>10
    DEF CallParts, CallLock, WorkspaceSteps, LockedSteps, WorkerLives, Claude!WatchdogLives,
        Claude!LeaderLives, Claude!Listening
<1> QED
  BY <1>6, <1>7, <1>8, <1>9, <1>11 DEF CallParts

\* Claude!Leave keeps ClaudeInv.
LEMMA ClaudeLeaveKeeps ==
  ASSUME ClaudeInv, Claude!ClaudeAssumption, NEW c \in Call, Claude!Leave(c)
  PROVE  ClaudeInv'
<1>1. Claude!TypeOK /\ ClaudeLockInv /\ CallParts(c)
  BY DEF ClaudeInv
<1>2. /\ running /\ step[c] = "leave" /\ step' = [step EXCEPT ![c] = "discard"]
      /\ outcome' \in {outcome, [outcome EXCEPT ![c] = "unknown"]}
      /\ UNCHANGED <<epoch, running, closer, active, Claude!processes>>
  BY DEF Claude!Leave, Claude!At, Claude!Goto, Claude!Tell
<1>3. mishaps' \in 0 .. MaxMishaps
  <2>1. mishaps' = mishaps \/ Claude!Mishap
    BY DEF Claude!Leave
  <2> QED
    BY <1>1, <2>1 DEF Claude!Mishap, Claude!TypeOK, Claude!ClaudeAssumption
<1>4. CASE UNCHANGED <<image, dirs, backend, lock>>
  <2>1. Claude!TypeOK'
    BY <1>1, <1>2, <1>3, <1>4 DEF Claude!TypeOK, Claude!processes
  <2>2. CallAtStep(c)' /\ CallProcesses(c)'
    BY <1>1, <1>2, <1>4
      DEF Claude!processes, Claude!TypeOK, CallParts, CallAtStep, CallProcesses,
          Claude!Listening
  <2>3. CallVerdict(c)'
    BY <1>1, <1>2, <1>4
      DEF Claude!processes, Claude!TypeOK, CallParts, CallVerdict, Claude!GroupLives,
          Claude!LeaderLives, Claude!Listening
  <2>4. CallWorkspace(c)' /\ CallLock(c)'
    BY <1>1, <1>2, <1>4
      DEF Claude!processes, Claude!TypeOK, CallParts, CallWorkspace, CallLock, WorkspaceSteps,
          LockedSteps, WorkerLives, Claude!WatchdogLives, Claude!LeaderLives, Claude!Listening
  <2>5. \A d \in Call \ {c} : UNCHANGED OwnCall(d)
    BY <1>1, <1>2 DEF OwnCall, Claude!processes, Claude!TypeOK
  <2> QED
    BY <1>2, <1>4, <2>1, <2>2, <2>3, <2>4, <2>5, ClaudeMoveKeeps DEF CallParts, Claude!processes
<1>5. CASE active = {c} /\ \E failed \in BOOLEAN : Claude!ReleaseResources(failed)
  <2>1. PICK failed \in BOOLEAN : Claude!ReleaseResources(failed)
    BY <1>5
  <2>2. /\ image' \in BOOLEAN /\ dirs' \subseteq dirs /\ dirs \subseteq dirs' \cup {Image}
        /\ backend' \in ClaudeBackends /\ (backend.poisoned => backend'.poisoned)
        /\ lock' \in {0, lock} /\ lock' \in 0 .. MaxEpochs
        /\ backend'.lease # "none" => backend.lease # "none" /\ lock' = lock
    BY <1>2, <2>1, ClaudeReleaseKeeps
  <2>3. Claude!TypeOK'
    BY <1>1, <1>2, <1>3, <2>2 DEF Claude!TypeOK, Claude!processes, ClaudeBackends
  <2>4. ClaudeLockInv'
    BY <1>1, <1>2, <2>2 DEF ClaudeLockInv, Claude!TypeOK
  <2>5. \A d \in Call \ {c} : UNCHANGED OwnCall(d)
    BY <1>1, <1>2 DEF OwnCall, Claude!processes, Claude!TypeOK
  <2>6. \A d \in Call \ {c} : CallParts(d)'
    BY <1>2, <1>5, <2>1, <2>5, ClaudeReleasedRests DEF Claude!processes
  <2>7. CallAtStep(c)' /\ CallProcesses(c)'
    BY <1>1, <1>2
      DEF Claude!processes, Claude!TypeOK, CallParts, CallAtStep, CallProcesses,
          Claude!Listening
  <2>8. CallVerdict(c)'
    BY <1>1, <1>2
      DEF Claude!processes, Claude!TypeOK, CallParts, CallVerdict, Claude!GroupLives,
          Claude!LeaderLives, Claude!Listening
  <2>9. CallWorkspace(c)' /\ CallLock(c)'
    BY <1>1, <1>2, <2>2
      DEF Claude!processes, Claude!TypeOK, CallParts, CallWorkspace, CallLock, WorkspaceSteps,
          LockedSteps, WorkerLives, Claude!WatchdogLives, Claude!LeaderLives, Claude!Listening
  <2> QED
    BY <2>3, <2>4, <2>6, <2>7, <2>8, <2>9 DEF ClaudeInv, CallParts
<1> QED
  BY <1>4, <1>5 DEF Claude!Leave

\* Claude!Close keeps ClaudeInv.
LEMMA ClaudeCloseKeeps ==
  ASSUME ClaudeInv, Claude!Close
  PROVE  ClaudeInv'
<1>1. Claude!TypeOK'
  BY DEF Claude!Close, ClaudeInv, Claude!TypeOK, Claude!threads, Claude!processes
<1>2. backend' = [backend EXCEPT !.closed = TRUE] /\ backend \in ClaudeBackends
  BY DEF Claude!Close, ClaudeInv, Claude!TypeOK, ClaudeBackends
<1>3. backend'.lease = backend.lease /\ backend'.poisoned = backend.poisoned
  BY <1>2 DEF ClaudeBackends
<1>4. \A d \in Call : CallParts(d)'
  BY <1>3, ClaudeRestKeeps DEF Claude!Close, ClaudeInv, OwnCall, Claude!threads, Claude!processes
<1>5. ClaudeLockInv'
  BY <1>3 DEF Claude!Close, ClaudeInv, ClaudeLockInv
<1> QED
  BY <1>1, <1>4, <1>5 DEF ClaudeInv

\* Claude!CloseEnds keeps ClaudeInv.
LEMMA ClaudeCloseEndsKeeps ==
  ASSUME ClaudeInv, Claude!ClaudeAssumption, Claude!CloseEnds
  PROVE  ClaudeInv'
<1>1. Claude!TypeOK /\ ClaudeLockInv /\ running
  BY DEF ClaudeInv, Claude!CloseEnds
<1>2. /\ UNCHANGED <<epoch, running, Claude!threads, Claude!processes>>
      /\ closer' \in {"done", "gaveup"}
  BY DEF Claude!CloseEnds
<1>3. mishaps' \in 0 .. MaxMishaps
  <2>1. mishaps' = mishaps \/ Claude!Mishap
    BY DEF Claude!CloseEnds
  <2> QED
    BY <1>1, <2>1 DEF Claude!Mishap, Claude!TypeOK, Claude!ClaudeAssumption
<1>4. CASE active = {} /\ \E failed \in BOOLEAN : Claude!ReleaseResources(failed)
  <2>1. PICK failed \in BOOLEAN : Claude!ReleaseResources(failed)
    BY <1>4
  <2>2. /\ image' \in BOOLEAN /\ dirs' \subseteq dirs /\ backend' \in ClaudeBackends
        /\ lock' \in {0, lock} /\ lock' \in 0 .. MaxEpochs
        /\ backend'.lease # "none" => backend.lease # "none" /\ lock' = lock
    BY <1>1, <2>1, ClaudeReleaseKeeps
  <2>3. Claude!TypeOK'
    BY <1>1, <1>2, <1>3, <2>2 DEF Claude!TypeOK, Claude!threads, Claude!processes, ClaudeBackends
  <2>4. ClaudeLockInv'
    BY <1>1, <1>2, <2>2 DEF ClaudeLockInv, Claude!TypeOK
  <2>5. \A d \in Call : UNCHANGED OwnCall(d)
    BY <1>2 DEF OwnCall, Claude!threads, Claude!processes
  <2>6. \A d \in Call : CallParts(d)'
    BY <1>1, <1>2, <1>4, <2>1, <2>5, ClaudeReleasedRests DEF Claude!processes
  <2> QED
    BY <2>3, <2>4, <2>6 DEF ClaudeInv
<1>5. CASE UNCHANGED <<backend, image, lock, dirs>>
  <2>1. Claude!TypeOK'
    BY <1>1, <1>2, <1>3, <1>5 DEF Claude!TypeOK, Claude!threads, Claude!processes
  <2>2. ClaudeLockInv'
    BY <1>1, <1>2, <1>5 DEF ClaudeLockInv
  <2>3. \A d \in Call : CallParts(d)'
    BY <1>2, <1>5, ClaudeRestKeeps DEF ClaudeInv, OwnCall, Claude!threads, Claude!processes
  <2> QED
    BY <2>1, <2>2, <2>3 DEF ClaudeInv
<1> QED
  BY <1>4, <1>5 DEF Claude!CloseEnds

\* Claude!ServerEnds keeps ClaudeInv.
LEMMA ClaudeServerEndsKeeps ==
  ASSUME ClaudeInv, Claude!ClaudeAssumption, Claude!ServerEnds
  PROVE  ClaudeInv'
<1>1. Claude!TypeOK /\ ClaudeLockInv /\ running /\ running' = FALSE
  BY DEF ClaudeInv, Claude!ServerEnds
<1>2. /\ step' = [c \in Call |-> CASE step[c] = "idle" -> "idle"
                                  [] step[c] \in {"leave", "discard", "done"} -> "done"
                                  [] OTHER -> "dead"]
      /\ UNCHANGED <<epoch, backend, closer, image, outcome, watchdog, leader, child, wrote,
                     submitted, lock, dirs, mishaps>>
  BY DEF Claude!ServerEnds
<1>3. Claude!TypeOK'
  <2>1. step' \in [Call -> ClaudeSteps]
    BY <1>2 DEF ClaudeSteps
  <2>2. lifeline' \in [Call -> BOOLEAN] /\ active' \subseteq Call
    BY DEF Claude!ServerEnds
  <2> QED
    BY <1>1, <1>2, <2>1, <2>2 DEF Claude!TypeOK, ClaudeSteps
<1>4. ClaudeLockInv'
  BY <1>1, <1>2 DEF ClaudeLockInv
<1>5. ASSUME NEW c \in Call PROVE CallParts(c)'
  <2>1. CallParts(c)
    BY DEF ClaudeInv
  <2>2. /\ step'[c] \in {"idle", "done", "dead"} /\ (step'[c] = "idle" <=> step[c] = "idle")
        /\ step'[c] = "done" <=> step[c] \in {"leave", "discard", "done"}
    BY <1>2
  <2>3. step[c] \in ClaudeSteps
    BY <1>1 DEF Claude!TypeOK, ClaudeSteps
  <2>4. CallAtStep(c)'
    BY <1>2, <2>1, <2>2 DEF CallParts, CallAtStep
  <2>5. CallProcesses(c)'
    BY <1>2, <2>1 DEF CallParts, CallProcesses, Claude!Listening
  <2>6. CallVerdict(c)'
    BY <1>2, <2>1, <2>2
      DEF CallParts, CallVerdict, Claude!GroupLives, Claude!LeaderLives, Claude!Listening
  <2>7. CallWorkspace(c)'
    BY <1>1 DEF CallWorkspace
  <2>8. step'[c] = "dead" /\ WorkerLives(c) => watchdog[c].born = lock /\ lock # 0 /\ c \in dirs
    <3>1. CASE step[c] = "dead"
      BY <2>1, <3>1 DEF CallParts, CallLock
    <3>2. CASE step[c] \in {"space", "image", "start"}
      BY <2>1, <3>2
        DEF CallParts, CallAtStep, CallProcesses, WorkerLives, Claude!WatchdogLives,
            Claude!LeaderLives, Claude!Listening
    <3>3. CASE step[c] \in LockedSteps \ {"start"}
      <4>1. /\ backend.lease = "held" /\ c \in dirs
            /\ (watchdog[c].at # "none" => watchdog[c].born = epoch)
        BY <1>1, <2>1, <3>3 DEF CallParts, CallLock, CallWorkspace, LockedSteps, WorkspaceSteps
      <4>2. lock = epoch /\ lock # 0
        BY <1>1, <4>1 DEF ClaudeLockInv, Claude!TypeOK
      <4>3. WorkerLives(c) => watchdog[c].at # "none"
        BY <2>1
          DEF CallParts, CallProcesses, WorkerLives, Claude!WatchdogLives, Claude!LeaderLives,
              Claude!Listening
      <4> QED
        BY <4>1, <4>2, <4>3
    <3> QED
      BY <2>2, <2>3, <3>1, <3>2, <3>3 DEF ClaudeSteps, LockedSteps, WorkspaceSteps
  <2>9. CallLock(c)'
    BY <1>1, <1>2, <2>8
      DEF CallLock, WorkerLives, Claude!WatchdogLives, Claude!LeaderLives, Claude!Listening
  <2> QED
    BY <2>4, <2>5, <2>6, <2>7, <2>9 DEF CallParts
<1> QED
  BY <1>3, <1>4, <1>5 DEF ClaudeInv

\* Claude!ServerStarts keeps ClaudeInv.
LEMMA ClaudeServerStartsKeeps ==
  ASSUME ClaudeInv, Claude!ClaudeAssumption, Claude!ServerStarts
  PROVE  ClaudeInv'
<1>1. Claude!TypeOK /\ ClaudeLockInv /\ ~running /\ running' = TRUE
  BY DEF ClaudeInv, Claude!ServerStarts
<1>2. /\ epoch' = epoch + 1 /\ epoch' \in 1 .. MaxEpochs
      /\ UNCHANGED <<Claude!threads, Claude!processes>>
  BY <1>1 DEF Claude!ServerStarts, Claude!TypeOK, Claude!ClaudeAssumption
<1>3. /\ backend' \in ClaudeBackends /\ dirs' \subseteq dirs
      /\ \/ Claude!LockTaken /\ UNCHANGED <<lock,
                                            dirs>> /\ backend'.lease = "none" /\ backend'.poisoned
         \/ ~Claude!LockTaken /\ lock' = epoch' /\ (dirs' = {} \/ backend'.poisoned)
  <2>1. Claude!FreshBackend \in ClaudeBackends
    BY DEF Claude!FreshBackend, ClaudeBackends
  <2>2. ASSUME NEW l \in {"none", "retained"}
        PROVE  LET b == [Claude!FreshBackend EXCEPT !.poisoned = TRUE, !.lease = l]
               IN b \in ClaudeBackends /\ b.lease = l /\ b.poisoned
    BY <2>1 DEF ClaudeBackends
  <2>3. CASE Claude!LockTaken
    BY <2>2, <2>3 DEF Claude!ServerStarts
  <2>4. CASE ~Claude!LockTaken
    BY <2>1, <2>2, <2>4 DEF Claude!ServerStarts
  <2> QED
    BY <2>3, <2>4
<1>4. closer' = "none" /\ image' = FALSE
  BY DEF Claude!ServerStarts
<1>5. mishaps' \in 0 .. MaxMishaps
  <2>1. mishaps' = mishaps \/ Claude!Mishap
    BY DEF Claude!ServerStarts
  <2> QED
    BY <1>1, <2>1 DEF Claude!Mishap, Claude!TypeOK, Claude!ClaudeAssumption
<1>6. lock' \in 0 .. MaxEpochs
  BY <1>1, <1>2, <1>3 DEF Claude!TypeOK, Claude!ClaudeAssumption
<1>7. Claude!TypeOK'
  BY <1>1, <1>2, <1>3, <1>4, <1>5, <1>6
    DEF Claude!TypeOK, Claude!threads, Claude!processes, ClaudeBackends
<1>8. ClaudeLockInv'
  BY <1>1, <1>2, <1>3 DEF ClaudeLockInv, Claude!TypeOK
<1>9. ASSUME NEW c \in Call PROVE CallParts(c)'
  <2>1. CallParts(c) /\ step[c] \in {"idle", "done", "dead"}
    BY <1>1 DEF ClaudeInv, CallParts, CallAtStep
  <2>2. CallAtStep(c)'
    BY <1>1, <1>2, <1>3, <2>1 DEF CallParts, CallAtStep, Claude!threads, Claude!processes
  <2>3. CallProcesses(c)'
    BY <1>2, <2>1 DEF CallParts, CallProcesses, Claude!Listening, Claude!threads, Claude!processes
  <2>4. CallVerdict(c)'
    BY <1>2, <2>1
      DEF CallParts, CallVerdict, Claude!GroupLives, Claude!LeaderLives, Claude!Listening,
          Claude!threads, Claude!processes
  <2>5. CallWorkspace(c)'
    BY <1>2, <1>3, <2>1 DEF CallWorkspace, WorkspaceSteps, Claude!threads
  <2>6. step[c] = "dead" /\ WorkerLives(c) =>
            Claude!LockTaken /\ watchdog[c].born = lock /\ lock # 0 /\ c \in dirs
    BY <2>1 DEF CallParts, CallLock, WorkerLives, Claude!LockTaken
  <2>7. step[c] = "dead" /\ WorkerLives(c) => UNCHANGED <<lock, dirs>> /\ lock < epoch'
    BY <1>1, <1>2, <1>3, <2>6 DEF ClaudeLockInv, Claude!TypeOK
  <2>8. CallLock(c)'
    BY <1>2, <2>1, <2>6, <2>7
      DEF CallLock, WorkerLives, Claude!WatchdogLives, Claude!LeaderLives, Claude!Listening,
          Claude!threads, Claude!processes, LockedSteps, WorkspaceSteps
  <2> QED
    BY <2>2, <2>3, <2>4, <2>5, <2>8 DEF CallParts
<1> QED
  BY <1>7, <1>8, <1>9 DEF ClaudeInv

\* ClaudeInv holds of the initial states.
LEMMA ClaudeInitKeeps ==
  ASSUME Claude!Init, Claude!ClaudeAssumption
  PROVE  ClaudeInv
<1>1. Claude!TypeOK
  <2>1. /\ epoch \in 1 .. MaxEpochs /\ lock \in 0 .. MaxEpochs /\ mishaps \in 0 .. MaxMishaps
        /\ 0 \in 0 .. MaxEpochs
    BY DEF Claude!Init, Claude!ClaudeAssumption
  <2>2. backend \in ClaudeBackends
    BY DEF Claude!Init, Claude!FreshBackend, ClaudeBackends
  <2>3. watchdog \in [Call -> ClaudeWatchdogs]
    BY <2>1 DEF Claude!Init, ClaudeWatchdogs
  <2> QED
    BY <2>1, <2>2, <2>3 DEF Claude!Init, Claude!TypeOK, ClaudeBackends, ClaudeWatchdogs
<1>2. ClaudeLockInv
  BY DEF Claude!Init, ClaudeLockInv
<1>3. ASSUME NEW c \in Call PROVE CallParts(c)
  <2>1. /\ step[c] = "idle" /\ watchdog[c] = [at |-> "none", code |-> "none", born |-> 0]
        /\ leader[c] = "none"
        /\ outcome[c] = "none" /\ wrote[c] = "nothing" /\ ~child[c] /\ dirs = {} /\ submitted = {}
    BY DEF Claude!Init
  <2> QED
    BY <2>1
      DEF CallParts, CallAtStep, CallProcesses, CallVerdict, CallWorkspace, CallLock,
          WorkspaceSteps, LockedSteps, Claude!Listening, Claude!Init
<1> QED
  BY <1>1, <1>2, <1>3 DEF ClaudeInv

\* A step of another part keeps ClaudeInv.
LEMMA ClaudeStutterKeeps ==
  ASSUME ClaudeInv, UNCHANGED Claude!cvars
  PROVE  ClaudeInv'
<1>1. Claude!TypeOK' /\ ClaudeLockInv'
  BY DEF ClaudeInv, Claude!TypeOK, ClaudeLockInv, Claude!cvars, Claude!threads, Claude!processes
<1>2. \A c \in Call : CallParts(c)'
  BY ClaudeRestKeeps DEF ClaudeInv, OwnCall, Claude!cvars, Claude!threads, Claude!processes
<1> QED
  BY <1>1, <1>2 DEF ClaudeInv

\* Every step of the part keeps ClaudeInv.
LEMMA ClaudeNextKeeps ==
  ASSUME ClaudeInv, Claude!ClaudeAssumption, Claude!Next \/ UNCHANGED Claude!cvars
  PROVE  ClaudeInv'
<1>1. ASSUME NEW c \in Call, Claude!Enter(c) \/ Claude!Thread(c) PROVE ClaudeInv'
  BY <1>1, ClaudeEnterKeeps, ClaudeMakeWorkspaceKeeps, ClaudeMaterializeKeeps,
     ClaudeStartWatchdogKeeps, ClaudeWorkerStartedKeeps, ClaudeStartFailsKeeps,
     ClaudeAbandonKeeps, ClaudeWriteRequestKeeps, ClaudeEndExchangeKeeps, ClaudeReapKeeps,
     ClaudeVerifySnapshotKeeps, ClaudeRemoveWorkspaceKeeps, ClaudeLeaveKeeps, ClaudeDiscardKeeps
    DEF Claude!Thread
<1>2. ASSUME NEW c \in Call, Claude!Guard(c) \/ Claude!WatchdogDies(c) PROVE ClaudeInv'
  BY <1>2, ClaudeBootKeeps, ClaudeWatchKeeps, ClaudeCleanUpKeeps, ClaudeWatchdogDiesKeeps
    DEF Claude!Guard
<1>3. ASSUME NEW c \in Call, Claude!Worker(c) PROVE ClaudeInv'
  BY <1>3, ClaudeReadRequestKeeps, ClaudeRefuseRequestKeeps, ClaudeQueryKeeps,
     ClaudeSubmitKeeps, ClaudeHearInitKeeps, ClaudeHearAssistantKeeps, ClaudeHearResultKeeps,
     ClaudeAnswerKeeps, ClaudeChildEndsKeeps, ClaudeLeaderDiesKeeps
    DEF Claude!Worker
<1> QED
  BY <1>1, <1>2, <1>3, ClaudeCloseKeeps, ClaudeCloseEndsKeeps, ClaudeServerEndsKeeps,
     ClaudeServerStartsKeeps, ClaudeStutterKeeps
    DEF Claude!Next

\* The invariant of the workers implies what the run checks of them.
LEMMA ClaudeInvIsSafe ==
  ASSUME ClaudeInv
  PROVE  Claude!ClaudeSafe
<1>1. ASSUME NEW c \in Call
      PROVE  /\ outcome[c] = "unsent" => c \notin submitted
             /\ step[c] \in {"verify", "remove", "leave", "discard", "done"} /\ child[c]
                  => outcome[c] = "unknown"
             /\ outcome[c] = "answer" => c \in submitted /\ wrote[c] = "whole"
             /\ /\ step[c] = "dead"
                /\ Claude!LeaderLives(c) \/ watchdog[c].at \in {"watching", "terming"}
                => c \in dirs
             /\ running /\ c \in dirs /\ step[c] = "done" => backend.poisoned
  <2>1. CallParts(c)
    BY DEF ClaudeInv
  <2>2. CallProcesses(c) /\ CallVerdict(c)
    BY <2>1 DEF CallParts
  <2>3. step[c] = "dead" /\ (Claude!LeaderLives(c) \/ watchdog[c].at \in {"watching", "terming"}) =>
          c \in dirs
    BY <2>1 DEF CallParts, CallLock, WorkerLives, Claude!WatchdogLives
  <2>4. running /\ c \in dirs /\ step[c] = "done" => backend.poisoned
    BY <2>1 DEF CallParts, CallWorkspace
  <2> QED
    BY <2>2, <2>3, <2>4 DEF CallProcesses, CallVerdict, Claude!GroupLives
<1>2. running /\ backend.lease = "retained" => Claude!LockTaken
  BY DEF ClaudeInv, ClaudeLockInv, Claude!LockTaken, Claude!TypeOK
<1> QED
  BY <1>1, <1>2
    DEF Claude!ClaudeSafe, Claude!OutcomeHonest, Claude!SurvivorIsUnknown, Claude!AnswerWasPaid,
        Claude!SweepIsSafe, Claude!LeftoversPoison

(* ClaudeInv is an invariant: the inductive invariant of the workers.        *)
THEOREM ClaudeInvariant == Spec => []ClaudeInv
<1>1. Init => ClaudeInv
  BY ClaudeInitKeeps, ProvidersAssumption DEF Init
<1>2. ClaudeInv /\ [Next]_all => ClaudeInv'
  <2> SUFFICES ASSUME ClaudeInv, [Next]_all PROVE ClaudeInv'
    OBVIOUS
  <2>1. Claude!Next \/ UNCHANGED cvars
    BY DEF Next, all
  <2> QED
    BY <2>1, ClaudeNextKeeps, ProvidersAssumption
      DEF cvars, Claude!cvars, Claude!threads, Claude!processes
<1> QED
  BY <1>1, <1>2, PTL DEF Spec

(* A Claude call that may be sent again was never submitted, its answer was *)
(* paid for, a worker that outlives it makes its outcome unknown, and no    *)
(* work space goes while a process uses it (claude/transport.py, backend.py).*)
THEOREM ClaudeCallsAreSafe == Spec => []ClaudeSafe
<1>1. ClaudeInv => ClaudeSafe
  BY ClaudeInvIsSafe, ProvidersAssumption DEF ClaudeSafe
<1> QED
  BY <1>1, ClaudeInvariant, PTL

-----------------------------------------------------------------------------
(* A Codex generation (CodexGeneration)                                     *)

(* No process of the generation's tree is left. *)
AllGone == \A p \in Codex!Proc : ~Codex!Alive(p)

(* The steps at which the thread has a transport. *)
Talking == {"talk", "send", "write", "collect", "interrupt", "close", "reclose"}

(* The caller is told of the turn what became of it, and nothing before it   *)
(* is over.                                                                  *)
TurnIsTold ==
  /\ Codex!ResultHonest
  /\ at \in {"open", "starting", "abandon", "talk", "send", "write", "collect",
             "interrupt"} => result = "none"
  /\ at \in {"open", "starting", "abandon", "talk", "send", "write"} => turn = "none"
  /\ at \in {"close", "reclose", "remove"} /\ result = "none" => turn = "none"

(* The session's transport, its terminations and its watchdog follow the     *)
(* thread; a session that is over was terminated, or never had a process,    *)
(* or the connection is tainted.                                             *)
SessionInv ==
  /\ at # "dead"
  /\ at \in Talking => rpc # "none"
  /\ at \in {"open", "starting", "abandon"} =>
       rpc = "none" /\ terminated = "none" /\ attempt = Codex!NoAttempt /\ ~tainted
  /\ at = "open" => dog.at \in {"none", "exited"}
  /\ dog.at = "booting" => at \in {"starting", "abandon"}
  /\ rpc # "none" => dog.at \notin {"none", "booting"}
  /\ attempt # Codex!NoAttempt =>
       rpc # "none" /\ terminated # "yes" /\ (at \in Talking \/ tainted)
  /\ attempt.step = "finish" => dog.at = "exited"
  /\ terminated = "yes" => rpc # "none" /\ dog.at = "exited" /\ AllGone
  /\ at \in {"remove", "leave", "idle"} /\ ~tainted =>
       \/ terminated = "yes"
       \/ terminated = "none" /\ rpc = "none" /\ dog.at \in {"none", "exited"}
  /\ tainted => at \in {"remove", "leave", "idle"}

(* What a watchdog that did not start leaves has cost failures. *)
LeftoversCost ==
  /\ failures = 0 /\ dog.at \in {"none", "booting", "exited"} => AllGone
  /\ failures = 0 /\ dog.at = "booting" => guardLine
  /\ failures < 2 /\ dog.at = "booting" /\ ~guardLine => AllGone
  /\ failures < 2 /\ dog.at = "exited" /\ dog.code = "unstarted" => AllGone

(* A watchdog that ended as it should has left nothing. *)
DogInv ==
  /\ exit \in {"none", "ok", "fail"}
  /\ dog.at = "none" => AllGone
  /\ dog.at = "exited" /\ dog.code \notin {"unstarted", "unclean", "killed"} => AllGone

(* The inductive invariant of a generation. *)
CodexInv == Codex!TypeOK /\ TurnIsTold /\ DogInv /\ (awake => SessionInv /\ LeftoversCost)

(* The values of the variables. *)
CodexSteps ==
  {"idle", "open", "starting", "abandon", "talk", "send", "write", "collect",
   "interrupt", "close", "reclose", "remove", "leave", "dead"}
CodexDogs ==
  [at : {"none", "booting", "watching", "freezing", "killing", "exited"},
   code : {"none", "ok", "fail", "gone", "unstarted", "unclean", "killed"},
   blind : BOOLEAN]
CodexAttempts ==
  [by : {"nobody", "thread", "canceller"}, step : {"none", "freeze", "wait", "finish"}]
CodexResults == {"none", "unsent", "unknown", "interrupted", "answer"}
CodexFates == {"none", "live", "stopped", "gone"}
CodexTurnEnds == {"none", "running", "completed", "failed", "interrupted"}

\* Codex!Begin keeps CodexInv.
LEMMA CodexBeginKeeps ==
  ASSUME CodexInv, Codex!CodexAssumption, Codex!Begin
  PROVE  CodexInv'
<1>1. Codex!TypeOK /\ TurnIsTold /\ DogInv /\ (awake => SessionInv /\ LeftoversCost)
  BY DEF CodexInv
<1>2. Codex!TypeOK'
  <2>1. failures' \in 0 .. MaxFailures /\ turns' \in 0 .. MaxTurns
    BY <1>1 DEF Codex!Begin, Codex!TypeOK, Codex!CodexAssumption
  <2>2. /\ at' \in CodexSteps /\ session' \in {1, 2} /\ result' \in CodexResults
        /\ {awake, tainted, latched, wish, sent, guardLine}' \subseteq BOOLEAN
    BY <1>1 DEF Codex!Begin, Codex!TypeOK, CodexSteps, CodexResults
  <2>3. /\ rpc' \in {"none", "open", "cancelled", "closed"} /\ terminated' \in {"none", "yes", "no"}
        /\ canceller' \in {"idle", "stopping", "terminating"} /\ attempt' \in CodexAttempts
    BY <1>1 DEF Codex!Begin, Codex!TypeOK, CodexAttempts
  <2>4. dog' \in CodexDogs
    BY <1>1 DEF Codex!Begin, Codex!TypeOK, CodexDogs
  <2>5. /\ proc' \in [Codex!Proc -> CodexFates] /\ known' \subseteq Codex!Proc
        /\ turn' \in CodexTurnEnds
    BY <1>1 DEF Codex!Begin, Codex!TypeOK, CodexFates, CodexTurnEnds
  <2> QED
    BY <2>1, <2>2, <2>3, <2>4, <2>5
      DEF Codex!TypeOK, CodexSteps, CodexResults, CodexAttempts, CodexDogs, CodexFates,
          CodexTurnEnds
<1>3. TurnIsTold'
  BY DEF Codex!Begin, TurnIsTold, Codex!ResultHonest
<1>4. DogInv'
  BY <1>1 DEF Codex!Begin, DogInv, AllGone, Codex!Alive
<1>5. ASSUME awake' PROVE SessionInv'
  BY <1>1 DEF Codex!Begin, Codex!Here, SessionInv, Talking
<1>6. ASSUME awake' PROVE LeftoversCost'
  BY <1>1, <1>6 DEF Codex!Begin, LeftoversCost, AllGone, Codex!Alive
<1> QED
  BY <1>2, <1>3, <1>4, <1>5, <1>6 DEF CodexInv

\* Codex!OpenSession keeps CodexInv.
LEMMA CodexOpenSessionKeeps ==
  ASSUME CodexInv, Codex!CodexAssumption, Codex!OpenSession
  PROVE  CodexInv'
<1>1. Codex!TypeOK /\ TurnIsTold /\ DogInv /\ (awake => SessionInv /\ LeftoversCost)
  BY DEF CodexInv
<1>2. Codex!TypeOK'
  <2>1. failures' \in 0 .. MaxFailures /\ turns' \in 0 .. MaxTurns
    BY <1>1 DEF Codex!OpenSession, Codex!TypeOK
  <2>2. /\ at' \in CodexSteps /\ session' \in {1, 2} /\ result' \in CodexResults
        /\ {awake, tainted, latched, wish, sent, guardLine}' \subseteq BOOLEAN
    BY <1>1 DEF Codex!OpenSession, Codex!StartDog, Codex!TypeOK, CodexSteps, CodexResults
  <2>3. /\ rpc' \in {"none", "open", "cancelled", "closed"} /\ terminated' \in {"none", "yes", "no"}
        /\ canceller' \in {"idle", "stopping", "terminating"} /\ attempt' \in CodexAttempts
    BY <1>1 DEF Codex!OpenSession, Codex!transport, Codex!TypeOK, CodexAttempts
  <2>4. dog' \in CodexDogs
    <3>1. CASE Codex!ShouldCancel
      BY <1>1, <3>1 DEF Codex!OpenSession, Codex!TypeOK, CodexDogs
    <3>2. CASE ~Codex!ShouldCancel
      <4>1. dog' = [at |-> "booting", code |-> "none", blind |-> FALSE]
        BY <3>2 DEF Codex!OpenSession, Codex!StartDog
      <4> QED
        BY <4>1 DEF CodexDogs
    <3> QED
      BY <3>1, <3>2
  <2>5. /\ proc' \in [Codex!Proc -> CodexFates] /\ known' \subseteq Codex!Proc
        /\ turn' \in CodexTurnEnds
    <3>1. CASE Codex!ShouldCancel
      BY <1>1, <3>1 DEF Codex!OpenSession, Codex!TypeOK, CodexFates, CodexTurnEnds
    <3>2. CASE ~Codex!ShouldCancel
      BY <1>1 DEF Codex!OpenSession, Codex!StartDog, Codex!TypeOK, CodexFates, CodexTurnEnds
    <3> QED
      BY <3>1, <3>2
  <2> QED
    BY <2>1, <2>2, <2>3, <2>4, <2>5
      DEF Codex!TypeOK, CodexSteps, CodexResults, CodexAttempts, CodexDogs, CodexFates,
          CodexTurnEnds
<1>3. TurnIsTold'
  BY <1>1 DEF Codex!OpenSession, Codex!Here, TurnIsTold, Codex!ResultHonest
<1>4. DogInv'
  BY <1>1 DEF Codex!OpenSession, Codex!StartDog, DogInv, AllGone, Codex!Alive
<1>5. ASSUME awake' PROVE SessionInv'
  BY <1>1
    DEF Codex!OpenSession, Codex!Here, Codex!StartDog, Codex!transport, SessionInv,
        Codex!NoAttempt, Talking
<1>6. ASSUME awake' PROVE LeftoversCost'
  BY <1>1
    DEF Codex!OpenSession, Codex!Here, Codex!StartDog, SessionInv, LeftoversCost, AllGone,
        Codex!Alive
<1> QED
  BY <1>2, <1>3, <1>4, <1>5, <1>6 DEF CodexInv

\* Codex!Attach keeps CodexInv.
LEMMA CodexAttachKeeps ==
  ASSUME CodexInv, Codex!CodexAssumption, Codex!Attach
  PROVE  CodexInv'
<1>1. Codex!TypeOK /\ TurnIsTold /\ DogInv /\ (awake => SessionInv /\ LeftoversCost)
  BY DEF CodexInv
<1>2. Codex!TypeOK'
  <2>1. failures' \in 0 .. MaxFailures /\ turns' \in 0 .. MaxTurns
    BY <1>1 DEF Codex!Attach, Codex!TypeOK
  <2>2. /\ at' \in CodexSteps /\ session' \in {1, 2} /\ result' \in CodexResults
        /\ {awake, tainted, latched, wish, sent, guardLine}' \subseteq BOOLEAN
    BY <1>1 DEF Codex!Attach, Codex!TypeOK, CodexSteps, CodexResults
  <2>3. /\ rpc' \in {"none", "open", "cancelled", "closed"} /\ terminated' \in {"none", "yes", "no"}
        /\ canceller' \in {"idle", "stopping", "terminating"} /\ attempt' \in CodexAttempts
    BY <1>1 DEF Codex!Attach, Codex!TypeOK, CodexAttempts
  <2>4. dog' \in CodexDogs
    BY <1>1 DEF Codex!Attach, Codex!TypeOK, CodexDogs
  <2>5. /\ proc' \in [Codex!Proc -> CodexFates] /\ known' \subseteq Codex!Proc
        /\ turn' \in CodexTurnEnds
    BY <1>1 DEF Codex!Attach, Codex!TypeOK, CodexFates, CodexTurnEnds, Codex!Proc
  <2> QED
    BY <2>1, <2>2, <2>3, <2>4, <2>5
      DEF Codex!TypeOK, CodexSteps, CodexResults, CodexAttempts, CodexDogs, CodexFates,
          CodexTurnEnds
<1>3. TurnIsTold'
  BY <1>1 DEF Codex!Attach, Codex!Here, TurnIsTold, Codex!ResultHonest
<1>4. DogInv'
  BY <1>1 DEF Codex!Attach, Codex!Alive, DogInv, AllGone
<1>5. ASSUME awake' PROVE SessionInv'
  BY <1>1 DEF Codex!Attach, Codex!Here, SessionInv
<1>6. ASSUME awake' PROVE LeftoversCost'
  BY <1>1, <1>6 DEF Codex!Attach, LeftoversCost, AllGone, Codex!Proc
<1> QED
  BY <1>2, <1>3, <1>4, <1>5, <1>6 DEF CodexInv

\* Codex!StartFails keeps CodexInv.
LEMMA CodexStartFailsKeeps ==
  ASSUME CodexInv, Codex!CodexAssumption, Codex!StartFails
  PROVE  CodexInv'
<1>1. Codex!TypeOK /\ TurnIsTold /\ DogInv /\ (awake => SessionInv /\ LeftoversCost)
  BY DEF CodexInv
<1>2. Codex!TypeOK'
  <2>1. failures' \in 0 .. MaxFailures /\ turns' \in 0 .. MaxTurns
    BY <1>1 DEF Codex!StartFails, Codex!Failure, Codex!TypeOK, Codex!CodexAssumption
  <2>2. /\ at' \in CodexSteps /\ session' \in {1, 2} /\ result' \in CodexResults
        /\ {awake, tainted, latched, wish, sent, guardLine}' \subseteq BOOLEAN
    BY <1>1 DEF Codex!StartFails, Codex!TypeOK, CodexSteps, CodexResults
  <2>3. /\ rpc' \in {"none", "open", "cancelled", "closed"} /\ terminated' \in {"none", "yes", "no"}
        /\ canceller' \in {"idle", "stopping", "terminating"} /\ attempt' \in CodexAttempts
    BY <1>1 DEF Codex!StartFails, Codex!transport, Codex!TypeOK, CodexAttempts
  <2>4. dog' \in CodexDogs
    BY <1>1 DEF Codex!StartFails, Codex!TypeOK, CodexDogs
  <2>5. /\ proc' \in [Codex!Proc -> CodexFates] /\ known' \subseteq Codex!Proc
        /\ turn' \in CodexTurnEnds
    BY <1>1 DEF Codex!StartFails, Codex!TypeOK, CodexFates, CodexTurnEnds
  <2> QED
    BY <2>1, <2>2, <2>3, <2>4, <2>5
      DEF Codex!TypeOK, CodexSteps, CodexResults, CodexAttempts, CodexDogs, CodexFates,
          CodexTurnEnds
<1>3. TurnIsTold'
  BY <1>1 DEF Codex!StartFails, Codex!Here, TurnIsTold, Codex!ResultHonest
<1>4. DogInv'
  BY <1>1 DEF Codex!StartFails, DogInv, AllGone, Codex!Alive
<1>5. ASSUME awake' PROVE SessionInv'
  BY <1>1 DEF Codex!StartFails, Codex!Here, Codex!transport, SessionInv, Talking
<1>6. ASSUME awake' PROVE LeftoversCost'
  BY <1>1
    DEF Codex!StartFails, Codex!Here, Codex!Failure, Codex!TypeOK, LeftoversCost, AllGone,
        Codex!Alive
<1> QED
  BY <1>2, <1>3, <1>4, <1>5, <1>6 DEF CodexInv

\* Codex!Abandon keeps CodexInv.
LEMMA CodexAbandonKeeps ==
  ASSUME CodexInv, Codex!CodexAssumption, Codex!Abandon
  PROVE  CodexInv'
<1>1. Codex!TypeOK /\ TurnIsTold /\ DogInv /\ (awake => SessionInv /\ LeftoversCost)
  BY DEF CodexInv
<1>2. Codex!TypeOK'
  <2>1. failures' \in 0 .. MaxFailures /\ turns' \in 0 .. MaxTurns
    BY <1>1 DEF Codex!Abandon, Codex!Failure, Codex!TypeOK, Codex!CodexAssumption
  <2>2. /\ at' \in CodexSteps /\ session' \in {1, 2} /\ result' \in CodexResults
        /\ {awake, tainted, latched, wish, sent, guardLine}' \subseteq BOOLEAN
    BY <1>1 DEF Codex!Abandon, Codex!TypeOK, CodexSteps, CodexResults
  <2>3. /\ rpc' \in {"none", "open", "cancelled", "closed"} /\ terminated' \in {"none", "yes", "no"}
        /\ canceller' \in {"idle", "stopping", "terminating"} /\ attempt' \in CodexAttempts
    BY <1>1 DEF Codex!Abandon, Codex!transport, Codex!TypeOK, CodexAttempts
  <2>4. dog' \in CodexDogs
    BY <1>1 DEF Codex!Abandon, Codex!KillDog, Codex!TypeOK, CodexDogs
  <2>5. /\ proc' \in [Codex!Proc -> CodexFates] /\ known' \subseteq Codex!Proc
        /\ turn' \in CodexTurnEnds
    BY <1>1 DEF Codex!Abandon, Codex!TypeOK, CodexFates, CodexTurnEnds, Codex!Proc
  <2> QED
    BY <2>1, <2>2, <2>3, <2>4, <2>5
      DEF Codex!TypeOK, CodexSteps, CodexResults, CodexAttempts, CodexDogs, CodexFates,
          CodexTurnEnds
<1>3. TurnIsTold'
  BY <1>1 DEF Codex!Abandon, Codex!Here, TurnIsTold, Codex!ResultHonest
<1>4. DogInv'
  BY <1>1 DEF Codex!Abandon, Codex!KillDog, Codex!Alive, Codex!TypeOK, DogInv, AllGone
<1>5. ASSUME awake' PROVE SessionInv'
  BY <1>1
    DEF Codex!Abandon, Codex!Here, Codex!KillDog, Codex!transport, Codex!TypeOK, SessionInv,
        Talking
<1>6. ASSUME awake' PROVE LeftoversCost'
  <2>1. CASE dog.at = "exited" /\ dog' = dog /\ failures' = failures
    <3>1. AllGone => AllGone'
      BY DEF Codex!Abandon, AllGone, Codex!Alive
    <3> QED
      BY <1>1, <2>1, <3>1 DEF Codex!Abandon, Codex!Here, LeftoversCost
  <2>2. CASE Codex!DogLives /\ Codex!Failure /\ Codex!KillDog
    <3>1. failures' > 0 /\ dog'.code = "killed" /\ dog'.at = "exited"
      BY <1>1, <2>2 DEF Codex!Failure, Codex!KillDog, Codex!TypeOK
    <3> QED
      BY <3>1 DEF LeftoversCost
  <2> QED
    BY <2>1, <2>2 DEF Codex!Abandon
<1> QED
  BY <1>2, <1>3, <1>4, <1>5, <1>6 DEF CodexInv

\* Codex!TalkMetadata keeps CodexInv.
LEMMA CodexTalkMetadataKeeps ==
  ASSUME CodexInv, Codex!CodexAssumption, Codex!TalkMetadata
  PROVE  CodexInv'
<1>1. Codex!TypeOK /\ TurnIsTold /\ DogInv /\ (awake => SessionInv /\ LeftoversCost)
  BY DEF CodexInv
<1>2. Codex!TypeOK'
  <2>1. failures' \in 0 .. MaxFailures /\ turns' \in 0 .. MaxTurns
    BY <1>1 DEF Codex!TalkMetadata, Codex!TalkUnchanged, Codex!TypeOK
  <2>2. /\ at' \in CodexSteps /\ session' \in {1, 2} /\ result' \in CodexResults
        /\ {awake, tainted, latched, wish, sent, guardLine}' \subseteq BOOLEAN
    BY <1>1
      DEF Codex!TalkMetadata, Codex!Fail, Codex!TalkUnchanged, Codex!process, Codex!TypeOK,
          CodexSteps, CodexResults
  <2>3. /\ rpc' \in {"none", "open", "cancelled", "closed"} /\ terminated' \in {"none", "yes", "no"}
        /\ canceller' \in {"idle", "stopping", "terminating"} /\ attempt' \in CodexAttempts
    BY <1>1
      DEF Codex!TalkMetadata, Codex!TalkUnchanged, Codex!transport, Codex!TypeOK, CodexAttempts
  <2>4. dog' \in CodexDogs
    BY <1>1 DEF Codex!TalkMetadata, Codex!TalkUnchanged, Codex!process, Codex!TypeOK, CodexDogs
  <2>5. /\ proc' \in [Codex!Proc -> CodexFates] /\ known' \subseteq Codex!Proc
        /\ turn' \in CodexTurnEnds
    BY <1>1
      DEF Codex!TalkMetadata, Codex!TalkUnchanged, Codex!process, Codex!TypeOK, CodexFates,
          CodexTurnEnds
  <2> QED
    BY <2>1, <2>2, <2>3, <2>4, <2>5
      DEF Codex!TypeOK, CodexSteps, CodexResults, CodexAttempts, CodexDogs, CodexFates,
          CodexTurnEnds
<1>3. TurnIsTold'
  BY <1>1
    DEF Codex!TalkMetadata, Codex!Here, Codex!Fail, Codex!TalkUnchanged, Codex!process,
        TurnIsTold, Codex!ResultHonest
<1>4. DogInv'
  BY <1>1 DEF Codex!TalkMetadata, Codex!TalkUnchanged, Codex!process, DogInv, AllGone, Codex!Alive
<1>5. ASSUME awake' PROVE SessionInv'
  BY <1>1
    DEF Codex!TalkMetadata, Codex!Here, Codex!Fail, Codex!TalkUnchanged, Codex!transport,
        Codex!process, SessionInv, AllGone, Codex!Alive, Talking
<1>6. ASSUME awake' PROVE LeftoversCost'
  BY <1>1
    DEF Codex!TalkMetadata, Codex!Here, Codex!TalkUnchanged, Codex!process, LeftoversCost,
        AllGone, Codex!Alive
<1> QED
  BY <1>2, <1>3, <1>4, <1>5, <1>6 DEF CodexInv

\* Codex!TalkThread keeps CodexInv.
LEMMA CodexTalkThreadKeeps ==
  ASSUME CodexInv, Codex!CodexAssumption, Codex!TalkThread
  PROVE  CodexInv'
<1>1. Codex!TypeOK /\ TurnIsTold /\ DogInv /\ (awake => SessionInv /\ LeftoversCost)
  BY DEF CodexInv
<1>2. Codex!TypeOK'
  <2>1. failures' \in 0 .. MaxFailures /\ turns' \in 0 .. MaxTurns
    BY <1>1 DEF Codex!TalkThread, Codex!TalkUnchanged, Codex!TypeOK
  <2>2. /\ at' \in CodexSteps /\ session' \in {1, 2} /\ result' \in CodexResults
        /\ {awake, tainted, latched, wish, sent, guardLine}' \subseteq BOOLEAN
    BY <1>1
      DEF Codex!TalkThread, Codex!Fail, Codex!TalkUnchanged, Codex!process, Codex!TypeOK,
          CodexSteps, CodexResults
  <2>3. /\ rpc' \in {"none", "open", "cancelled", "closed"} /\ terminated' \in {"none", "yes", "no"}
        /\ canceller' \in {"idle", "stopping", "terminating"} /\ attempt' \in CodexAttempts
    BY <1>1
      DEF Codex!TalkThread, Codex!TalkUnchanged, Codex!transport, Codex!TypeOK, CodexAttempts
  <2>4. dog' \in CodexDogs
    BY <1>1 DEF Codex!TalkThread, Codex!TalkUnchanged, Codex!process, Codex!TypeOK, CodexDogs
  <2>5. /\ proc' \in [Codex!Proc -> CodexFates] /\ known' \subseteq Codex!Proc
        /\ turn' \in CodexTurnEnds
    BY <1>1
      DEF Codex!TalkThread, Codex!TalkUnchanged, Codex!process, Codex!TypeOK, CodexFates,
          CodexTurnEnds
  <2> QED
    BY <2>1, <2>2, <2>3, <2>4, <2>5
      DEF Codex!TypeOK, CodexSteps, CodexResults, CodexAttempts, CodexDogs, CodexFates,
          CodexTurnEnds
<1>3. TurnIsTold'
  BY <1>1
    DEF Codex!TalkThread, Codex!Here, Codex!Fail, Codex!TalkUnchanged, Codex!process,
        TurnIsTold, Codex!ResultHonest
<1>4. DogInv'
  BY <1>1 DEF Codex!TalkThread, Codex!TalkUnchanged, Codex!process, DogInv, AllGone, Codex!Alive
<1>5. ASSUME awake' PROVE SessionInv'
  BY <1>1
    DEF Codex!TalkThread, Codex!Here, Codex!Fail, Codex!TalkUnchanged, Codex!transport,
        Codex!process, SessionInv, AllGone, Codex!Alive, Talking
<1>6. ASSUME awake' PROVE LeftoversCost'
  BY <1>1
    DEF Codex!TalkThread, Codex!Here, Codex!TalkUnchanged, Codex!process, LeftoversCost,
        AllGone, Codex!Alive
<1> QED
  BY <1>2, <1>3, <1>4, <1>5, <1>6 DEF CodexInv

\* Codex!MarkSent keeps CodexInv.
LEMMA CodexMarkSentKeeps ==
  ASSUME CodexInv, Codex!CodexAssumption, Codex!MarkSent
  PROVE  CodexInv'
<1>1. Codex!TypeOK /\ TurnIsTold /\ DogInv /\ (awake => SessionInv /\ LeftoversCost)
  BY DEF CodexInv
<1>2. Codex!TypeOK'
  <2>1. failures' \in 0 .. MaxFailures /\ turns' \in 0 .. MaxTurns
    BY <1>1 DEF Codex!MarkSent, Codex!TypeOK
  <2>2. /\ at' \in CodexSteps /\ session' \in {1, 2} /\ result' \in CodexResults
        /\ {awake, tainted, latched, wish, sent, guardLine}' \subseteq BOOLEAN
    BY <1>1
      DEF Codex!MarkSent, Codex!Here, Codex!Fail, Codex!thread, Codex!transport, Codex!process,
          Codex!TypeOK, CodexSteps, CodexResults
  <2>3. /\ rpc' \in {"none", "open", "cancelled", "closed"} /\ terminated' \in {"none", "yes", "no"}
        /\ canceller' \in {"idle", "stopping", "terminating"} /\ attempt' \in CodexAttempts
    BY <1>1 DEF Codex!MarkSent, Codex!transport, Codex!TypeOK, CodexAttempts
  <2>4. dog' \in CodexDogs
    BY <1>1 DEF Codex!MarkSent, Codex!process, Codex!TypeOK, CodexDogs
  <2>5. /\ proc' \in [Codex!Proc -> CodexFates] /\ known' \subseteq Codex!Proc
        /\ turn' \in CodexTurnEnds
    BY <1>1 DEF Codex!MarkSent, Codex!process, Codex!TypeOK, CodexFates, CodexTurnEnds
  <2> QED
    BY <2>1, <2>2, <2>3, <2>4, <2>5
      DEF Codex!TypeOK, CodexSteps, CodexResults, CodexAttempts, CodexDogs, CodexFates,
          CodexTurnEnds
<1>3. TurnIsTold'
  BY <1>1
    DEF Codex!MarkSent, Codex!Here, Codex!Fail, Codex!process, TurnIsTold, Codex!ResultHonest
<1>4. DogInv'
  BY <1>1 DEF Codex!MarkSent, Codex!process, DogInv, AllGone, Codex!Alive
<1>5. ASSUME awake' PROVE SessionInv'
  BY <1>1
    DEF Codex!MarkSent, Codex!Here, Codex!Fail, Codex!transport, Codex!process, SessionInv,
        AllGone, Codex!Alive, Talking
<1>6. ASSUME awake' PROVE LeftoversCost'
  BY <1>1, <1>6 DEF Codex!MarkSent, Codex!process, LeftoversCost, AllGone, Codex!Alive
<1> QED
  BY <1>2, <1>3, <1>4, <1>5, <1>6 DEF CodexInv

\* Codex!WriteTurn keeps CodexInv.
LEMMA CodexWriteTurnKeeps ==
  ASSUME CodexInv, Codex!CodexAssumption, Codex!WriteTurn
  PROVE  CodexInv'
<1>1. Codex!TypeOK /\ TurnIsTold /\ DogInv /\ (awake => SessionInv /\ LeftoversCost)
  BY DEF CodexInv
<1>2. Codex!TypeOK'
  <2>1. failures' \in 0 .. MaxFailures /\ turns' \in 0 .. MaxTurns
    BY <1>1 DEF Codex!WriteTurn, Codex!TypeOK
  <2>2. /\ at' \in CodexSteps /\ session' \in {1, 2} /\ result' \in CodexResults
        /\ {awake, tainted, latched, wish, sent, guardLine}' \subseteq BOOLEAN
    BY <1>1 DEF Codex!WriteTurn, Codex!Fail, Codex!TypeOK, CodexSteps, CodexResults
  <2>3. /\ rpc' \in {"none", "open", "cancelled", "closed"} /\ terminated' \in {"none", "yes", "no"}
        /\ canceller' \in {"idle", "stopping", "terminating"} /\ attempt' \in CodexAttempts
    BY <1>1 DEF Codex!WriteTurn, Codex!transport, Codex!TypeOK, CodexAttempts
  <2>4. dog' \in CodexDogs
    BY <1>1 DEF Codex!WriteTurn, Codex!TypeOK, CodexDogs
  <2>5. /\ proc' \in [Codex!Proc -> CodexFates] /\ known' \subseteq Codex!Proc
        /\ turn' \in CodexTurnEnds
    BY <1>1 DEF Codex!WriteTurn, Codex!TypeOK, CodexFates, CodexTurnEnds
  <2> QED
    BY <2>1, <2>2, <2>3, <2>4, <2>5
      DEF Codex!TypeOK, CodexSteps, CodexResults, CodexAttempts, CodexDogs, CodexFates,
          CodexTurnEnds
<1>3. TurnIsTold'
  BY <1>1 DEF Codex!WriteTurn, Codex!Here, Codex!Fail, TurnIsTold, Codex!ResultHonest
<1>4. DogInv'
  BY <1>1 DEF Codex!WriteTurn, DogInv, AllGone, Codex!Alive
<1>5. ASSUME awake' PROVE SessionInv'
  BY <1>1
    DEF Codex!WriteTurn, Codex!Here, Codex!Fail, Codex!transport, SessionInv, AllGone,
        Codex!Alive, Talking
<1>6. ASSUME awake' PROVE LeftoversCost'
  BY <1>1, <1>6 DEF Codex!WriteTurn, LeftoversCost, AllGone, Codex!Alive
<1> QED
  BY <1>2, <1>3, <1>4, <1>5, <1>6 DEF CodexInv

\* Codex!Collect keeps CodexInv.
LEMMA CodexCollectKeeps ==
  ASSUME CodexInv, Codex!CodexAssumption, Codex!Collect
  PROVE  CodexInv'
<1>1. Codex!TypeOK /\ TurnIsTold /\ DogInv /\ (awake => SessionInv /\ LeftoversCost)
  BY DEF CodexInv
<1>2. Codex!TypeOK'
  <2>1. failures' \in 0 .. MaxFailures /\ turns' \in 0 .. MaxTurns
    BY <1>1 DEF Codex!Collect, Codex!TalkUnchanged, Codex!TypeOK
  <2>2. /\ at' \in CodexSteps /\ session' \in {1, 2} /\ result' \in CodexResults
        /\ {awake, tainted, latched, wish, sent, guardLine}' \subseteq BOOLEAN
    BY <1>1
      DEF Codex!Collect, Codex!Fail, Codex!TalkUnchanged, Codex!process, Codex!TypeOK,
          CodexSteps, CodexResults
  <2>3. /\ rpc' \in {"none", "open", "cancelled", "closed"} /\ terminated' \in {"none", "yes", "no"}
        /\ canceller' \in {"idle", "stopping", "terminating"} /\ attempt' \in CodexAttempts
    BY <1>1 DEF Codex!Collect, Codex!TalkUnchanged, Codex!transport, Codex!TypeOK, CodexAttempts
  <2>4. dog' \in CodexDogs
    BY <1>1 DEF Codex!Collect, Codex!TalkUnchanged, Codex!process, Codex!TypeOK, CodexDogs
  <2>5. /\ proc' \in [Codex!Proc -> CodexFates] /\ known' \subseteq Codex!Proc
        /\ turn' \in CodexTurnEnds
    BY <1>1
      DEF Codex!Collect, Codex!TalkUnchanged, Codex!process, Codex!TypeOK, CodexFates,
          CodexTurnEnds
  <2> QED
    BY <2>1, <2>2, <2>3, <2>4, <2>5
      DEF Codex!TypeOK, CodexSteps, CodexResults, CodexAttempts, CodexDogs, CodexFates,
          CodexTurnEnds
<1>3. TurnIsTold'
  BY <1>1
    DEF Codex!Collect, Codex!Here, Codex!Fail, Codex!TalkUnchanged, Codex!process, TurnIsTold,
        Codex!ResultHonest
<1>4. DogInv'
  BY <1>1 DEF Codex!Collect, Codex!TalkUnchanged, Codex!process, DogInv, AllGone, Codex!Alive
<1>5. ASSUME awake' PROVE SessionInv'
  BY <1>1
    DEF Codex!Collect, Codex!Here, Codex!Fail, Codex!TalkUnchanged, Codex!transport,
        Codex!process, SessionInv, AllGone, Codex!Alive, Talking
<1>6. ASSUME awake' PROVE LeftoversCost'
  BY <1>1
    DEF Codex!Collect, Codex!Here, Codex!TalkUnchanged, Codex!process, LeftoversCost, AllGone,
        Codex!Alive
<1> QED
  BY <1>2, <1>3, <1>4, <1>5, <1>6 DEF CodexInv

\* Codex!Interrupt keeps CodexInv.
LEMMA CodexInterruptKeeps ==
  ASSUME CodexInv, Codex!CodexAssumption, Codex!Interrupt
  PROVE  CodexInv'
<1>1. Codex!TypeOK /\ TurnIsTold /\ DogInv /\ (awake => SessionInv /\ LeftoversCost)
  BY DEF CodexInv
<1>2. Codex!TypeOK'
  <2>1. failures' \in 0 .. MaxFailures /\ turns' \in 0 .. MaxTurns
    BY <1>1 DEF Codex!Interrupt, Codex!TypeOK
  <2>2. /\ at' \in CodexSteps /\ session' \in {1, 2} /\ result' \in CodexResults
        /\ {awake, tainted, latched, wish, sent, guardLine}' \subseteq BOOLEAN
    BY <1>1 DEF Codex!Interrupt, Codex!Fail, Codex!TypeOK, CodexSteps, CodexResults
  <2>3. /\ rpc' \in {"none", "open", "cancelled", "closed"} /\ terminated' \in {"none", "yes", "no"}
        /\ canceller' \in {"idle", "stopping", "terminating"} /\ attempt' \in CodexAttempts
    BY <1>1 DEF Codex!Interrupt, Codex!transport, Codex!TypeOK, CodexAttempts
  <2>4. dog' \in CodexDogs
    BY <1>1 DEF Codex!Interrupt, Codex!TypeOK, CodexDogs
  <2>5. /\ proc' \in [Codex!Proc -> CodexFates] /\ known' \subseteq Codex!Proc
        /\ turn' \in CodexTurnEnds
    BY <1>1 DEF Codex!Interrupt, Codex!TypeOK, CodexFates, CodexTurnEnds
  <2> QED
    BY <2>1, <2>2, <2>3, <2>4, <2>5
      DEF Codex!TypeOK, CodexSteps, CodexResults, CodexAttempts, CodexDogs, CodexFates,
          CodexTurnEnds
<1>3. TurnIsTold'
  BY DEF Codex!Interrupt, Codex!Fail, TurnIsTold, Codex!ResultHonest
<1>4. DogInv'
  BY <1>1 DEF Codex!Interrupt, DogInv, AllGone, Codex!Alive
<1>5. ASSUME awake' PROVE SessionInv'
  BY <1>1
    DEF Codex!Interrupt, Codex!Here, Codex!Fail, Codex!transport, SessionInv, AllGone,
        Codex!Alive, Talking
<1>6. ASSUME awake' PROVE LeftoversCost'
  BY <1>1, <1>6 DEF Codex!Interrupt, LeftoversCost, AllGone, Codex!Alive
<1> QED
  BY <1>2, <1>3, <1>4, <1>5, <1>6 DEF CodexInv

\* Codex!CloseTransport keeps CodexInv.
LEMMA CodexCloseTransportKeeps ==
  ASSUME CodexInv, Codex!CodexAssumption, Codex!CloseTransport
  PROVE  CodexInv'
<1>1. Codex!TypeOK /\ TurnIsTold /\ DogInv /\ (awake => SessionInv /\ LeftoversCost)
  BY DEF CodexInv
<1>2. Codex!TypeOK'
  <2>1. failures' \in 0 .. MaxFailures /\ turns' \in 0 .. MaxTurns
    BY <1>1 DEF Codex!CloseTransport, Codex!TypeOK
  <2>2. /\ at' \in CodexSteps /\ session' \in {1, 2} /\ result' \in CodexResults
        /\ {awake, tainted, latched, wish, sent, guardLine}' \subseteq BOOLEAN
    BY <1>1
      DEF Codex!CloseTransport, Codex!Here, Codex!StartTerminate, Codex!thread, Codex!process,
          Codex!TypeOK, CodexSteps, CodexResults
  <2>3. /\ rpc' \in {"none", "open", "cancelled", "closed"} /\ terminated' \in {"none", "yes", "no"}
        /\ canceller' \in {"idle", "stopping", "terminating"} /\ attempt' \in CodexAttempts
    BY <1>1 DEF Codex!CloseTransport, Codex!StartTerminate, Codex!TypeOK, CodexAttempts
  <2>4. dog' \in CodexDogs
    BY <1>1 DEF Codex!CloseTransport, Codex!process, Codex!TypeOK, CodexDogs
  <2>5. /\ proc' \in [Codex!Proc -> CodexFates] /\ known' \subseteq Codex!Proc
        /\ turn' \in CodexTurnEnds
    BY <1>1 DEF Codex!CloseTransport, Codex!process, Codex!TypeOK, CodexFates, CodexTurnEnds
  <2> QED
    BY <2>1, <2>2, <2>3, <2>4, <2>5
      DEF Codex!TypeOK, CodexSteps, CodexResults, CodexAttempts, CodexDogs, CodexFates,
          CodexTurnEnds
<1>3. TurnIsTold'
  BY <1>1 DEF Codex!CloseTransport, Codex!Here, Codex!process, TurnIsTold, Codex!ResultHonest
<1>4. DogInv'
  BY <1>1 DEF Codex!CloseTransport, Codex!process, DogInv, AllGone, Codex!Alive
<1>5. ASSUME awake' PROVE SessionInv'
  <2>1. AllGone' <=> AllGone
    BY DEF Codex!CloseTransport, Codex!process, AllGone, Codex!Alive
  <2>2. CASE terminated = "yes" /\ at' = "remove" /\ attempt' = attempt /\ tainted' = tainted
    BY <1>1, <2>1, <2>2 DEF Codex!CloseTransport, Codex!Here, Codex!process, SessionInv
  <2>3. CASE terminated # "yes" /\ Codex!StartTerminate("thread") /\ at' \in {"close", "reclose"}
             /\ tainted' = tainted
    <3>1. attempt' # Codex!NoAttempt /\ attempt'.step = "freeze"
      BY <2>3 DEF Codex!StartTerminate, Codex!NoAttempt
    <3> QED
      BY <1>1, <3>1 DEF Codex!CloseTransport, Codex!Here, Codex!process, SessionInv, Talking
  <2>4. CASE terminated = "no" /\ tainted' /\ at' = "remove" /\ attempt' = attempt
             /\ attempt = Codex!NoAttempt
    BY <1>1, <2>4 DEF Codex!CloseTransport, Codex!Here, Codex!process, SessionInv, Talking
  <2> QED
    BY <2>2, <2>3, <2>4 DEF Codex!CloseTransport, Codex!Here
<1>6. ASSUME awake' PROVE LeftoversCost'
  BY <1>1, <1>6 DEF Codex!CloseTransport, Codex!process, LeftoversCost, AllGone, Codex!Alive
<1> QED
  BY <1>2, <1>3, <1>4, <1>5, <1>6 DEF CodexInv

\* Codex!Reclose keeps CodexInv.
LEMMA CodexRecloseKeeps ==
  ASSUME CodexInv, Codex!CodexAssumption, Codex!Reclose
  PROVE  CodexInv'
<1>1. Codex!TypeOK /\ TurnIsTold /\ DogInv /\ (awake => SessionInv /\ LeftoversCost)
  BY DEF CodexInv
<1>2. Codex!TypeOK'
  <2>1. failures' \in 0 .. MaxFailures /\ turns' \in 0 .. MaxTurns
    BY <1>1 DEF Codex!Reclose, Codex!TypeOK
  <2>2. /\ at' \in CodexSteps /\ session' \in {1, 2} /\ result' \in CodexResults
        /\ {awake, tainted, latched, wish, sent, guardLine}' \subseteq BOOLEAN
    BY <1>1 DEF Codex!Reclose, Codex!process, Codex!TypeOK, CodexSteps, CodexResults
  <2>3. /\ rpc' \in {"none", "open", "cancelled", "closed"} /\ terminated' \in {"none", "yes", "no"}
        /\ canceller' \in {"idle", "stopping", "terminating"} /\ attempt' \in CodexAttempts
    BY <1>1 DEF Codex!Reclose, Codex!transport, Codex!TypeOK, CodexAttempts
  <2>4. dog' \in CodexDogs
    BY <1>1 DEF Codex!Reclose, Codex!process, Codex!TypeOK, CodexDogs
  <2>5. /\ proc' \in [Codex!Proc -> CodexFates] /\ known' \subseteq Codex!Proc
        /\ turn' \in CodexTurnEnds
    BY <1>1 DEF Codex!Reclose, Codex!process, Codex!TypeOK, CodexFates, CodexTurnEnds
  <2> QED
    BY <2>1, <2>2, <2>3, <2>4, <2>5
      DEF Codex!TypeOK, CodexSteps, CodexResults, CodexAttempts, CodexDogs, CodexFates,
          CodexTurnEnds
<1>3. TurnIsTold'
  BY <1>1 DEF Codex!Reclose, Codex!Here, Codex!process, TurnIsTold, Codex!ResultHonest
<1>4. DogInv'
  BY <1>1 DEF Codex!Reclose, Codex!process, DogInv, AllGone, Codex!Alive
<1>5. ASSUME awake' PROVE SessionInv'
  BY <1>1
    DEF Codex!Reclose, Codex!Here, Codex!transport, Codex!process, SessionInv, AllGone,
        Codex!Alive, Talking
<1>6. ASSUME awake' PROVE LeftoversCost'
  BY <1>1, <1>6 DEF Codex!Reclose, Codex!process, LeftoversCost, AllGone, Codex!Alive
<1> QED
  BY <1>2, <1>3, <1>4, <1>5, <1>6 DEF CodexInv

\* Codex!RemoveRun keeps CodexInv.
LEMMA CodexRemoveRunKeeps ==
  ASSUME CodexInv, Codex!CodexAssumption, Codex!RemoveRun
  PROVE  CodexInv'
<1>1. Codex!TypeOK /\ TurnIsTold /\ DogInv /\ (awake => SessionInv /\ LeftoversCost)
  BY DEF CodexInv
<1>2. Codex!TypeOK'
  <2>1. failures' \in 0 .. MaxFailures /\ turns' \in 0 .. MaxTurns
    BY <1>1 DEF Codex!RemoveRun, Codex!Failure, Codex!TypeOK, Codex!CodexAssumption
  <2>2. /\ at' \in CodexSteps /\ session' \in {1, 2} /\ result' \in CodexResults
        /\ {awake, tainted, latched, wish, sent, guardLine}' \subseteq BOOLEAN
    BY <1>1 DEF Codex!RemoveRun, Codex!process, Codex!TypeOK, CodexSteps, CodexResults
  <2>3. /\ rpc' \in {"none", "open", "cancelled", "closed"} /\ terminated' \in {"none", "yes", "no"}
        /\ canceller' \in {"idle", "stopping", "terminating"} /\ attempt' \in CodexAttempts
    BY <1>1 DEF Codex!RemoveRun, Codex!TypeOK, CodexAttempts
  <2>4. dog' \in CodexDogs
    BY <1>1 DEF Codex!RemoveRun, Codex!process, Codex!TypeOK, CodexDogs
  <2>5. /\ proc' \in [Codex!Proc -> CodexFates] /\ known' \subseteq Codex!Proc
        /\ turn' \in CodexTurnEnds
    BY <1>1 DEF Codex!RemoveRun, Codex!process, Codex!TypeOK, CodexFates, CodexTurnEnds
  <2> QED
    BY <2>1, <2>2, <2>3, <2>4, <2>5
      DEF Codex!TypeOK, CodexSteps, CodexResults, CodexAttempts, CodexDogs, CodexFates,
          CodexTurnEnds
<1>3. TurnIsTold'
  BY <1>1 DEF Codex!RemoveRun, Codex!Here, Codex!process, TurnIsTold, Codex!ResultHonest
<1>4. DogInv'
  BY <1>1 DEF Codex!RemoveRun, Codex!process, DogInv, AllGone, Codex!Alive
<1>5. ASSUME awake' PROVE SessionInv'
  BY <1>1
    DEF Codex!RemoveRun, Codex!Here, Codex!process, Codex!TypeOK, SessionInv, AllGone,
        Codex!Alive, Talking
<1>6. ASSUME awake' PROVE LeftoversCost'
  BY <1>1
    DEF Codex!RemoveRun, Codex!Here, Codex!Failure, Codex!process, Codex!TypeOK, LeftoversCost,
        AllGone, Codex!Alive
<1> QED
  BY <1>2, <1>3, <1>4, <1>5, <1>6 DEF CodexInv

\* Codex!Leave keeps CodexInv.
LEMMA CodexLeaveKeeps ==
  ASSUME CodexInv, Codex!CodexAssumption, Codex!Leave
  PROVE  CodexInv'
<1>1. Codex!TypeOK /\ TurnIsTold /\ DogInv /\ (awake => SessionInv /\ LeftoversCost)
  BY DEF CodexInv
<1>2. Codex!TypeOK'
  <2>1. failures' \in 0 .. MaxFailures /\ turns' \in 0 .. MaxTurns
    BY <1>1 DEF Codex!Leave, Codex!TypeOK
  <2>2. /\ at' \in CodexSteps /\ session' \in {1, 2} /\ result' \in CodexResults
        /\ {awake, tainted, latched, wish, sent, guardLine}' \subseteq BOOLEAN
    BY <1>1 DEF Codex!Leave, Codex!process, Codex!TypeOK, CodexSteps, CodexResults
  <2>3. /\ rpc' \in {"none", "open", "cancelled", "closed"} /\ terminated' \in {"none", "yes", "no"}
        /\ canceller' \in {"idle", "stopping", "terminating"} /\ attempt' \in CodexAttempts
    BY <1>1 DEF Codex!Leave, Codex!transport, Codex!TypeOK, CodexAttempts
  <2>4. dog' \in CodexDogs
    BY <1>1 DEF Codex!Leave, Codex!process, Codex!TypeOK, CodexDogs
  <2>5. /\ proc' \in [Codex!Proc -> CodexFates] /\ known' \subseteq Codex!Proc
        /\ turn' \in CodexTurnEnds
    BY <1>1 DEF Codex!Leave, Codex!process, Codex!TypeOK, CodexFates, CodexTurnEnds
  <2> QED
    BY <2>1, <2>2, <2>3, <2>4, <2>5
      DEF Codex!TypeOK, CodexSteps, CodexResults, CodexAttempts, CodexDogs, CodexFates,
          CodexTurnEnds
<1>3. TurnIsTold'
  BY <1>1 DEF Codex!Leave, Codex!process, TurnIsTold, Codex!ResultHonest
<1>4. DogInv'
  BY <1>1 DEF Codex!Leave, Codex!process, DogInv, AllGone, Codex!Alive
<1>5. ASSUME awake' PROVE SessionInv'
  BY <1>1
    DEF Codex!Leave, Codex!Here, Codex!transport, Codex!process, SessionInv, AllGone,
        Codex!Alive, Talking
<1>6. ASSUME awake' PROVE LeftoversCost'
  BY <1>1, <1>6 DEF Codex!Leave, Codex!process, LeftoversCost, AllGone, Codex!Alive
<1> QED
  BY <1>2, <1>3, <1>4, <1>5, <1>6 DEF CodexInv

\* Codex!Freeze keeps CodexInv.
LEMMA CodexFreezeKeeps ==
  ASSUME CodexInv, Codex!CodexAssumption, Codex!Freeze
  PROVE  CodexInv'
<1>1. Codex!TypeOK /\ TurnIsTold /\ DogInv /\ (awake => SessionInv /\ LeftoversCost)
  BY DEF CodexInv
<1>2. Codex!TypeOK'
  <2>1. failures' \in 0 .. MaxFailures /\ turns' \in 0 .. MaxTurns
    BY <1>1 DEF Codex!Freeze, Codex!Failure, Codex!thread, Codex!TypeOK, Codex!CodexAssumption
  <2>2. /\ at' \in CodexSteps /\ session' \in {1, 2} /\ result' \in CodexResults
        /\ {awake, tainted, latched, wish, sent, guardLine}' \subseteq BOOLEAN
    BY <1>1 DEF Codex!Freeze, Codex!thread, Codex!TypeOK, CodexSteps, CodexResults
  <2>3. /\ rpc' \in {"none", "open", "cancelled", "closed"} /\ terminated' \in {"none", "yes", "no"}
        /\ canceller' \in {"idle", "stopping", "terminating"} /\ attempt' \in CodexAttempts
    BY <1>1 DEF Codex!Freeze, Codex!TypeOK, CodexAttempts
  <2>4. dog' \in CodexDogs
    BY <1>1 DEF Codex!Freeze, Codex!TypeOK, CodexDogs
  <2>5. /\ proc' \in [Codex!Proc -> CodexFates] /\ known' \subseteq Codex!Proc
        /\ turn' \in CodexTurnEnds
    BY <1>1
      DEF Codex!Freeze, Codex!TypeOK, CodexFates, CodexTurnEnds, Codex!StopAll, Codex!Survivors
  <2> QED
    BY <2>1, <2>2, <2>3, <2>4, <2>5
      DEF Codex!TypeOK, CodexSteps, CodexResults, CodexAttempts, CodexDogs, CodexFates,
          CodexTurnEnds
<1>3. TurnIsTold'
  BY <1>1 DEF Codex!Freeze, Codex!thread, TurnIsTold, Codex!ResultHonest
<1>4. DogInv'
  BY <1>1 DEF Codex!Freeze, DogInv, AllGone, Codex!Alive, Codex!StopAll
<1>5. ASSUME awake' PROVE SessionInv'
  BY <1>1 DEF Codex!Freeze, Codex!thread, SessionInv, Codex!NoAttempt
<1>6. ASSUME awake' PROVE LeftoversCost'
  <2>1. AllGone => AllGone'
    BY DEF Codex!Freeze, AllGone, Codex!Alive, Codex!StopAll
  <2>2. dog' = dog /\ dog.at # "booting" /\ awake /\ failures' >= failures
    BY <1>1 DEF Codex!Freeze, SessionInv, Codex!NoAttempt, Codex!Failure, Codex!TypeOK
  <2>3. failures' = 0 => failures = 0
    BY <1>1 DEF Codex!Freeze, Codex!Failure, Codex!TypeOK
  <2>4. failures' < 2 => failures < 2
    BY <1>1 DEF Codex!Freeze, Codex!Failure, Codex!TypeOK
  <2> QED
    BY <1>1, <2>1, <2>2, <2>3, <2>4 DEF LeftoversCost
<1> QED
  BY <1>2, <1>3, <1>4, <1>5, <1>6 DEF CodexInv

\* Codex!AwaitDog keeps CodexInv.
LEMMA CodexAwaitDogKeeps ==
  ASSUME CodexInv, Codex!CodexAssumption, Codex!AwaitDog
  PROVE  CodexInv'
<1>1. Codex!TypeOK /\ TurnIsTold /\ DogInv /\ (awake => SessionInv /\ LeftoversCost)
  BY DEF CodexInv
<1>2. Codex!TypeOK'
  <2>1. failures' \in 0 .. MaxFailures /\ turns' \in 0 .. MaxTurns
    BY <1>1 DEF Codex!AwaitDog, Codex!Failure, Codex!thread, Codex!TypeOK, Codex!CodexAssumption
  <2>2. /\ at' \in CodexSteps /\ session' \in {1, 2} /\ result' \in CodexResults
        /\ {awake, tainted, latched, wish, sent, guardLine}' \subseteq BOOLEAN
    BY <1>1 DEF Codex!AwaitDog, Codex!thread, Codex!TypeOK, CodexSteps, CodexResults
  <2>3. /\ rpc' \in {"none", "open", "cancelled", "closed"} /\ terminated' \in {"none", "yes", "no"}
        /\ canceller' \in {"idle", "stopping", "terminating"} /\ attempt' \in CodexAttempts
    BY <1>1 DEF Codex!AwaitDog, Codex!TypeOK, CodexAttempts
  <2>4. dog' \in CodexDogs
    BY <1>1 DEF Codex!AwaitDog, Codex!KillDog, Codex!TypeOK, CodexDogs
  <2>5. /\ proc' \in [Codex!Proc -> CodexFates] /\ known' \subseteq Codex!Proc
        /\ turn' \in CodexTurnEnds
    BY <1>1 DEF Codex!AwaitDog, Codex!TypeOK, CodexFates, CodexTurnEnds
  <2> QED
    BY <2>1, <2>2, <2>3, <2>4, <2>5
      DEF Codex!TypeOK, CodexSteps, CodexResults, CodexAttempts, CodexDogs, CodexFates,
          CodexTurnEnds
<1>3. TurnIsTold'
  BY <1>1 DEF Codex!AwaitDog, Codex!thread, TurnIsTold, Codex!ResultHonest
<1>4. DogInv'
  BY <1>1 DEF Codex!AwaitDog, Codex!KillDog, Codex!TypeOK, DogInv, AllGone, Codex!Alive
<1>5. ASSUME awake' PROVE SessionInv'
  <2>1. dog'.at = "exited"
    BY <1>1 DEF Codex!AwaitDog, Codex!KillDog, Codex!TypeOK
  <2>2. attempt' # Codex!NoAttempt /\ attempt # Codex!NoAttempt
    <3>1. attempt.step = "wait" /\ attempt'.step = "finish"
      BY DEF Codex!AwaitDog
    <3> QED
      BY <3>1 DEF Codex!NoAttempt
  <2> QED
    BY <1>1, <2>1, <2>2 DEF Codex!AwaitDog, SessionInv, Codex!thread
<1>6. ASSUME awake' PROVE LeftoversCost'
  <2>1. CASE dog.at = "exited" /\ dog' = dog /\ failures' = failures
    <3>1. AllGone => AllGone'
      BY DEF Codex!AwaitDog, AllGone, Codex!Alive
    <3> QED
      BY <1>1, <2>1, <3>1 DEF Codex!AwaitDog, LeftoversCost
  <2>2. CASE Codex!DogLives /\ Codex!Failure /\ Codex!KillDog
    <3>1. failures' > 0 /\ dog'.code = "killed" /\ dog'.at = "exited"
      BY <1>1, <2>2 DEF Codex!Failure, Codex!KillDog, Codex!TypeOK
    <3> QED
      BY <3>1 DEF LeftoversCost
  <2> QED
    BY <2>1, <2>2 DEF Codex!AwaitDog
<1> QED
  BY <1>2, <1>3, <1>4, <1>5, <1>6 DEF CodexInv

\* Codex!FinishTerminate keeps CodexInv.
LEMMA CodexFinishTerminateKeeps ==
  ASSUME CodexInv, Codex!CodexAssumption, Codex!FinishTerminate
  PROVE  CodexInv'
<1>1. Codex!TypeOK /\ TurnIsTold /\ DogInv /\ (awake => SessionInv /\ LeftoversCost)
  BY DEF CodexInv
<1>2. Codex!TypeOK'
  <2>1. failures' \in 0 .. MaxFailures /\ turns' \in 0 .. MaxTurns
    BY <1>1
      DEF Codex!FinishTerminate, Codex!Failure, Codex!thread, Codex!TypeOK,
          Codex!CodexAssumption
  <2>2. /\ at' \in CodexSteps /\ session' \in {1, 2} /\ result' \in CodexResults
        /\ {awake, tainted, latched, wish, sent, guardLine}' \subseteq BOOLEAN
    BY <1>1 DEF Codex!FinishTerminate, Codex!thread, Codex!TypeOK, CodexSteps, CodexResults
  <2>3. /\ rpc' \in {"none", "open", "cancelled", "closed"} /\ terminated' \in {"none", "yes", "no"}
        /\ canceller' \in {"idle", "stopping", "terminating"} /\ attempt' \in CodexAttempts
    BY <1>1 DEF Codex!FinishTerminate, Codex!TypeOK, CodexAttempts, Codex!NoAttempt
  <2>4. dog' \in CodexDogs
    BY <1>1 DEF Codex!FinishTerminate, Codex!TypeOK, CodexDogs
  <2>5. /\ proc' \in [Codex!Proc -> CodexFates] /\ known' \subseteq Codex!Proc
        /\ turn' \in CodexTurnEnds
    BY <1>1 DEF Codex!FinishTerminate, Codex!TypeOK, CodexFates, CodexTurnEnds, Codex!KillAll
  <2> QED
    BY <2>1, <2>2, <2>3, <2>4, <2>5
      DEF Codex!TypeOK, CodexSteps, CodexResults, CodexAttempts, CodexDogs, CodexFates,
          CodexTurnEnds
<1>3. TurnIsTold'
  BY <1>1 DEF Codex!FinishTerminate, Codex!thread, TurnIsTold, Codex!ResultHonest
<1>4. DogInv'
  BY <1>1 DEF Codex!FinishTerminate, Codex!TypeOK, DogInv, AllGone, Codex!Alive, Codex!KillAll
<1>5. ASSUME awake' PROVE SessionInv'
  BY <1>1
    DEF Codex!FinishTerminate, Codex!thread, DogInv, SessionInv, AllGone, Codex!Alive,
        Codex!KillAll, Codex!NoAttempt
<1>6. ASSUME awake' PROVE LeftoversCost'
  BY <1>1
    DEF Codex!FinishTerminate, Codex!Failure, Codex!TypeOK, LeftoversCost, AllGone, Codex!Alive,
        Codex!Proc
<1> QED
  BY <1>2, <1>3, <1>4, <1>5, <1>6 DEF CodexInv

\* Codex!Wish keeps CodexInv.
LEMMA CodexWishKeeps ==
  ASSUME CodexInv, Codex!CodexAssumption, Codex!Wish
  PROVE  CodexInv'
<1>1. Codex!TypeOK /\ TurnIsTold /\ DogInv /\ (awake => SessionInv /\ LeftoversCost)
  BY DEF CodexInv
<1>2. Codex!TypeOK'
  <2>1. failures' \in 0 .. MaxFailures /\ turns' \in 0 .. MaxTurns
    BY <1>1 DEF Codex!Wish, Codex!thread, Codex!TypeOK
  <2>2. /\ at' \in CodexSteps /\ session' \in {1, 2} /\ result' \in CodexResults
        /\ {awake, tainted, latched, wish, sent, guardLine}' \subseteq BOOLEAN
    BY <1>1 DEF Codex!Wish, Codex!thread, Codex!process, Codex!TypeOK, CodexSteps, CodexResults
  <2>3. /\ rpc' \in {"none", "open", "cancelled", "closed"} /\ terminated' \in {"none", "yes", "no"}
        /\ canceller' \in {"idle", "stopping", "terminating"} /\ attempt' \in CodexAttempts
    BY <1>1 DEF Codex!Wish, Codex!transport, Codex!TypeOK, CodexAttempts
  <2>4. dog' \in CodexDogs
    BY <1>1 DEF Codex!Wish, Codex!process, Codex!TypeOK, CodexDogs
  <2>5. /\ proc' \in [Codex!Proc -> CodexFates] /\ known' \subseteq Codex!Proc
        /\ turn' \in CodexTurnEnds
    BY <1>1 DEF Codex!Wish, Codex!process, Codex!TypeOK, CodexFates, CodexTurnEnds
  <2> QED
    BY <2>1, <2>2, <2>3, <2>4, <2>5
      DEF Codex!TypeOK, CodexSteps, CodexResults, CodexAttempts, CodexDogs, CodexFates,
          CodexTurnEnds
<1>3. TurnIsTold'
  BY <1>1 DEF Codex!Wish, Codex!thread, Codex!process, TurnIsTold, Codex!ResultHonest
<1>4. DogInv'
  BY <1>1 DEF Codex!Wish, Codex!process, DogInv, AllGone, Codex!Alive
<1>5. ASSUME awake' PROVE SessionInv'
  BY <1>1
    DEF Codex!Wish, Codex!thread, Codex!transport, Codex!process, SessionInv, AllGone,
        Codex!Alive
<1>6. ASSUME awake' PROVE LeftoversCost'
  BY <1>1 DEF Codex!Wish, Codex!process, LeftoversCost, AllGone, Codex!Alive
<1> QED
  BY <1>2, <1>3, <1>4, <1>5, <1>6 DEF CodexInv

\* Codex!Cancel keeps CodexInv.
LEMMA CodexCancelKeeps ==
  ASSUME CodexInv, Codex!CodexAssumption, Codex!Cancel
  PROVE  CodexInv'
<1>1. Codex!TypeOK /\ TurnIsTold /\ DogInv /\ (awake => SessionInv /\ LeftoversCost)
  BY DEF CodexInv
<1>2. Codex!TypeOK'
  <2>1. failures' \in 0 .. MaxFailures /\ turns' \in 0 .. MaxTurns
    BY <1>1 DEF Codex!Cancel, Codex!thread, Codex!TypeOK
  <2>2. /\ at' \in CodexSteps /\ session' \in {1, 2} /\ result' \in CodexResults
        /\ {awake, tainted, latched, wish, sent, guardLine}' \subseteq BOOLEAN
    BY <1>1 DEF Codex!Cancel, Codex!thread, Codex!process, Codex!TypeOK, CodexSteps, CodexResults
  <2>3. /\ rpc' \in {"none", "open", "cancelled", "closed"} /\ terminated' \in {"none", "yes", "no"}
        /\ canceller' \in {"idle", "stopping", "terminating"} /\ attempt' \in CodexAttempts
    BY <1>1 DEF Codex!Cancel, Codex!TypeOK, CodexAttempts
  <2>4. dog' \in CodexDogs
    BY <1>1 DEF Codex!Cancel, Codex!process, Codex!TypeOK, CodexDogs
  <2>5. /\ proc' \in [Codex!Proc -> CodexFates] /\ known' \subseteq Codex!Proc
        /\ turn' \in CodexTurnEnds
    BY <1>1 DEF Codex!Cancel, Codex!process, Codex!TypeOK, CodexFates, CodexTurnEnds
  <2> QED
    BY <2>1, <2>2, <2>3, <2>4, <2>5
      DEF Codex!TypeOK, CodexSteps, CodexResults, CodexAttempts, CodexDogs, CodexFates,
          CodexTurnEnds
<1>3. TurnIsTold'
  BY <1>1 DEF Codex!Cancel, Codex!thread, Codex!process, TurnIsTold, Codex!ResultHonest
<1>4. DogInv'
  BY <1>1 DEF Codex!Cancel, Codex!process, DogInv, AllGone, Codex!Alive
<1>5. ASSUME awake' PROVE SessionInv'
  BY <1>1 DEF Codex!Cancel, Codex!thread, Codex!process, SessionInv, AllGone, Codex!Alive
<1>6. ASSUME awake' PROVE LeftoversCost'
  BY <1>1 DEF Codex!Cancel, Codex!process, LeftoversCost, AllGone, Codex!Alive
<1> QED
  BY <1>2, <1>3, <1>4, <1>5, <1>6 DEF CodexInv

\* Codex!CancelTransport keeps CodexInv.
LEMMA CodexCancelTransportKeeps ==
  ASSUME CodexInv, Codex!CodexAssumption, Codex!CancelTransport
  PROVE  CodexInv'
<1>1. Codex!TypeOK /\ TurnIsTold /\ DogInv /\ (awake => SessionInv /\ LeftoversCost)
  BY DEF CodexInv
<1>2. Codex!TypeOK'
  <2>1. failures' \in 0 .. MaxFailures /\ turns' \in 0 .. MaxTurns
    BY <1>1 DEF Codex!CancelTransport, Codex!thread, Codex!TypeOK
  <2>2. /\ at' \in CodexSteps /\ session' \in {1, 2} /\ result' \in CodexResults
        /\ {awake, tainted, latched, wish, sent, guardLine}' \subseteq BOOLEAN
    BY <1>1
      DEF Codex!CancelTransport, Codex!thread, Codex!process, Codex!TypeOK, CodexSteps,
          CodexResults
  <2>3. /\ rpc' \in {"none", "open", "cancelled", "closed"} /\ terminated' \in {"none", "yes", "no"}
        /\ canceller' \in {"idle", "stopping", "terminating"} /\ attempt' \in CodexAttempts
    BY <1>1 DEF Codex!CancelTransport, Codex!StartTerminate, Codex!TypeOK, CodexAttempts
  <2>4. dog' \in CodexDogs
    BY <1>1 DEF Codex!CancelTransport, Codex!process, Codex!TypeOK, CodexDogs
  <2>5. /\ proc' \in [Codex!Proc -> CodexFates] /\ known' \subseteq Codex!Proc
        /\ turn' \in CodexTurnEnds
    BY <1>1 DEF Codex!CancelTransport, Codex!process, Codex!TypeOK, CodexFates, CodexTurnEnds
  <2> QED
    BY <2>1, <2>2, <2>3, <2>4, <2>5
      DEF Codex!TypeOK, CodexSteps, CodexResults, CodexAttempts, CodexDogs, CodexFates,
          CodexTurnEnds
<1>3. TurnIsTold'
  BY <1>1 DEF Codex!CancelTransport, Codex!thread, Codex!process, TurnIsTold, Codex!ResultHonest
<1>4. DogInv'
  BY <1>1 DEF Codex!CancelTransport, Codex!process, DogInv, AllGone, Codex!Alive
<1>5. ASSUME awake' PROVE SessionInv'
  BY <1>1
    DEF Codex!CancelTransport, Codex!StartTerminate, Codex!thread, Codex!process, Codex!TypeOK,
        SessionInv, AllGone, Codex!Alive, Talking
<1>6. ASSUME awake' PROVE LeftoversCost'
  BY <1>1 DEF Codex!CancelTransport, Codex!process, LeftoversCost, AllGone, Codex!Alive
<1> QED
  BY <1>2, <1>3, <1>4, <1>5, <1>6 DEF CodexInv

\* Codex!Boot keeps CodexInv.
LEMMA CodexBootKeeps ==
  ASSUME CodexInv, Codex!CodexAssumption, Codex!Boot
  PROVE  CodexInv'
<1>1. Codex!TypeOK /\ TurnIsTold /\ DogInv /\ (awake => SessionInv /\ LeftoversCost)
  BY DEF CodexInv
<1>2. Codex!TypeOK'
  <2>1. failures' \in 0 .. MaxFailures /\ turns' \in 0 .. MaxTurns
    BY <1>1
      DEF Codex!Boot, Codex!DogUnchanged, Codex!Failure, Codex!thread, Codex!TypeOK,
          Codex!CodexAssumption
  <2>2. /\ at' \in CodexSteps /\ session' \in {1, 2} /\ result' \in CodexResults
        /\ {awake, tainted, latched, wish, sent, guardLine}' \subseteq BOOLEAN
    BY <1>1
      DEF Codex!Boot, Codex!DogUnchanged, Codex!thread, Codex!TypeOK, CodexSteps, CodexResults
  <2>3. /\ rpc' \in {"none", "open", "cancelled", "closed"} /\ terminated' \in {"none", "yes", "no"}
        /\ canceller' \in {"idle", "stopping", "terminating"} /\ attempt' \in CodexAttempts
    BY <1>1 DEF Codex!Boot, Codex!DogUnchanged, Codex!transport, Codex!TypeOK, CodexAttempts
  <2>4. dog' \in CodexDogs
    BY <1>1 DEF Codex!Boot, Codex!Exit, Codex!TypeOK, CodexDogs
  <2>5. /\ proc' \in [Codex!Proc -> CodexFates] /\ known' \subseteq Codex!Proc
        /\ turn' \in CodexTurnEnds
    BY <1>1 DEF Codex!Boot, Codex!DogUnchanged, Codex!TypeOK, CodexFates, CodexTurnEnds
  <2> QED
    BY <2>1, <2>2, <2>3, <2>4, <2>5
      DEF Codex!TypeOK, CodexSteps, CodexResults, CodexAttempts, CodexDogs, CodexFates,
          CodexTurnEnds
<1>3. TurnIsTold'
  BY <1>1 DEF Codex!Boot, Codex!DogUnchanged, Codex!thread, TurnIsTold, Codex!ResultHonest
<1>4. DogInv'
  BY <1>1 DEF Codex!Boot, Codex!Exit, Codex!TypeOK, DogInv
<1>5. ASSUME awake' PROVE SessionInv'
  BY <1>1, <1>5 DEF Codex!Boot, Codex!DogUnchanged, Codex!thread, Codex!transport, SessionInv
<1>6. ASSUME awake' PROVE LeftoversCost'
  BY <1>1, <1>6
    DEF Codex!Boot, Codex!DogUnchanged, Codex!Failure, Codex!TypeOK, LeftoversCost, AllGone,
        Codex!Alive
<1> QED
  BY <1>2, <1>3, <1>4, <1>5, <1>6 DEF CodexInv

\* Codex!Watch keeps CodexInv.
LEMMA CodexWatchKeeps ==
  ASSUME CodexInv, Codex!CodexAssumption, Codex!Watch
  PROVE  CodexInv'
<1>1. Codex!TypeOK /\ TurnIsTold /\ DogInv /\ (awake => SessionInv /\ LeftoversCost)
  BY DEF CodexInv
<1>2. Codex!TypeOK'
  <2>1. failures' \in 0 .. MaxFailures /\ turns' \in 0 .. MaxTurns
    BY <1>1
      DEF Codex!Watch, Codex!DogUnchanged, Codex!Failure, Codex!thread, Codex!TypeOK,
          Codex!CodexAssumption
  <2>2. /\ at' \in CodexSteps /\ session' \in {1, 2} /\ result' \in CodexResults
        /\ {awake, tainted, latched, wish, sent, guardLine}' \subseteq BOOLEAN
    BY <1>1
      DEF Codex!Watch, Codex!DogUnchanged, Codex!thread, Codex!TypeOK, CodexSteps, CodexResults
  <2>3. /\ rpc' \in {"none", "open", "cancelled", "closed"} /\ terminated' \in {"none", "yes", "no"}
        /\ canceller' \in {"idle", "stopping", "terminating"} /\ attempt' \in CodexAttempts
    BY <1>1 DEF Codex!Watch, Codex!DogUnchanged, Codex!transport, Codex!TypeOK, CodexAttempts
  <2>4. dog' \in CodexDogs
    BY <1>1 DEF Codex!Watch, Codex!TypeOK, CodexDogs, DogInv
  <2>5. /\ proc' \in [Codex!Proc -> CodexFates] /\ known' \subseteq Codex!Proc
        /\ turn' \in CodexTurnEnds
    BY <1>1 DEF Codex!Watch, Codex!DogUnchanged, Codex!TypeOK, CodexFates, CodexTurnEnds
  <2> QED
    BY <2>1, <2>2, <2>3, <2>4, <2>5
      DEF Codex!TypeOK, CodexSteps, CodexResults, CodexAttempts, CodexDogs, CodexFates,
          CodexTurnEnds
<1>3. TurnIsTold'
  BY <1>1 DEF Codex!Watch, Codex!DogUnchanged, Codex!thread, TurnIsTold, Codex!ResultHonest
<1>4. DogInv'
  BY <1>1 DEF Codex!Watch, Codex!TypeOK, DogInv
<1>5. ASSUME awake' PROVE SessionInv'
  BY <1>1, <1>5
    DEF Codex!Watch, Codex!DogUnchanged, Codex!Failure, Codex!Alive, Codex!thread,
        Codex!transport, Codex!TypeOK, DogInv, SessionInv, AllGone, Codex!Proc, Codex!NoAttempt,
        Talking, LeftoversCost
<1>6. ASSUME awake' PROVE LeftoversCost'
  BY <1>1, <1>6
    DEF Codex!Watch, Codex!DogUnchanged, Codex!Failure, Codex!Alive, Codex!thread,
        Codex!transport, Codex!TypeOK, DogInv, SessionInv, LeftoversCost, AllGone, Codex!Proc
<1> QED
  BY <1>2, <1>3, <1>4, <1>5, <1>6 DEF CodexInv

\* Codex!DogFreezes keeps CodexInv.
LEMMA CodexDogFreezesKeeps ==
  ASSUME CodexInv, Codex!CodexAssumption, Codex!DogFreezes
  PROVE  CodexInv'
<1>1. Codex!TypeOK /\ TurnIsTold /\ DogInv /\ (awake => SessionInv /\ LeftoversCost)
  BY DEF CodexInv
<1>2. Codex!TypeOK'
  <2>1. failures' \in 0 .. MaxFailures /\ turns' \in 0 .. MaxTurns
    BY <1>1
      DEF Codex!DogFreezes, Codex!DogUnchanged, Codex!Failure, Codex!thread, Codex!TypeOK,
          Codex!CodexAssumption
  <2>2. /\ at' \in CodexSteps /\ session' \in {1, 2} /\ result' \in CodexResults
        /\ {awake, tainted, latched, wish, sent, guardLine}' \subseteq BOOLEAN
    BY <1>1
      DEF Codex!DogFreezes, Codex!DogUnchanged, Codex!thread, Codex!TypeOK, CodexSteps,
          CodexResults
  <2>3. /\ rpc' \in {"none", "open", "cancelled", "closed"} /\ terminated' \in {"none", "yes", "no"}
        /\ canceller' \in {"idle", "stopping", "terminating"} /\ attempt' \in CodexAttempts
    BY <1>1 DEF Codex!DogFreezes, Codex!DogUnchanged, Codex!transport, Codex!TypeOK, CodexAttempts
  <2>4. dog' \in CodexDogs
    BY <1>1 DEF Codex!DogFreezes, Codex!TypeOK, CodexDogs
  <2>5. /\ proc' \in [Codex!Proc -> CodexFates] /\ known' \subseteq Codex!Proc
        /\ turn' \in CodexTurnEnds
    BY <1>1
      DEF Codex!DogFreezes, Codex!DogUnchanged, Codex!TypeOK, CodexFates, CodexTurnEnds,
          Codex!StopAll
  <2> QED
    BY <2>1, <2>2, <2>3, <2>4, <2>5
      DEF Codex!TypeOK, CodexSteps, CodexResults, CodexAttempts, CodexDogs, CodexFates,
          CodexTurnEnds
<1>3. TurnIsTold'
  BY <1>1 DEF Codex!DogFreezes, Codex!DogUnchanged, Codex!thread, TurnIsTold, Codex!ResultHonest
<1>4. DogInv'
  BY <1>1 DEF Codex!DogFreezes, Codex!TypeOK, DogInv
<1>5. ASSUME awake' PROVE SessionInv'
  BY <1>1, <1>5
    DEF Codex!DogFreezes, Codex!DogUnchanged, Codex!Failure, Codex!thread, Codex!transport,
        Codex!TypeOK, DogInv, SessionInv, AllGone, Codex!Alive, Codex!Proc, Codex!StopAll,
        Codex!Survivors, Codex!NoAttempt, Talking, LeftoversCost
<1>6. ASSUME awake' PROVE LeftoversCost'
  BY <1>1 DEF Codex!DogFreezes, Codex!TypeOK, LeftoversCost
<1> QED
  BY <1>2, <1>3, <1>4, <1>5, <1>6 DEF CodexInv

\* Codex!DogKills keeps CodexInv.
LEMMA CodexDogKillsKeeps ==
  ASSUME CodexInv, Codex!CodexAssumption, Codex!DogKills
  PROVE  CodexInv'
<1>1. Codex!TypeOK /\ TurnIsTold /\ DogInv /\ (awake => SessionInv /\ LeftoversCost)
  BY DEF CodexInv
<1>2. Codex!TypeOK'
  <2>1. failures' \in 0 .. MaxFailures /\ turns' \in 0 .. MaxTurns
    BY <1>1
      DEF Codex!DogKills, Codex!DogUnchanged, Codex!Failure, Codex!thread, Codex!TypeOK,
          Codex!CodexAssumption
  <2>2. /\ at' \in CodexSteps /\ session' \in {1, 2} /\ result' \in CodexResults
        /\ {awake, tainted, latched, wish, sent, guardLine}' \subseteq BOOLEAN
    BY <1>1
      DEF Codex!DogKills, Codex!DogUnchanged, Codex!thread, Codex!TypeOK, CodexSteps,
          CodexResults
  <2>3. /\ rpc' \in {"none", "open", "cancelled", "closed"} /\ terminated' \in {"none", "yes", "no"}
        /\ canceller' \in {"idle", "stopping", "terminating"} /\ attempt' \in CodexAttempts
    BY <1>1 DEF Codex!DogKills, Codex!DogUnchanged, Codex!transport, Codex!TypeOK, CodexAttempts
  <2>4. dog' \in CodexDogs
    BY <1>1 DEF Codex!DogKills, Codex!Exit, Codex!TypeOK, CodexDogs
  <2>5. /\ proc' \in [Codex!Proc -> CodexFates] /\ known' \subseteq Codex!Proc
        /\ turn' \in CodexTurnEnds
    BY <1>1
      DEF Codex!DogKills, Codex!DogUnchanged, Codex!TypeOK, CodexFates, CodexTurnEnds,
          Codex!KillAll
  <2> QED
    BY <2>1, <2>2, <2>3, <2>4, <2>5
      DEF Codex!TypeOK, CodexSteps, CodexResults, CodexAttempts, CodexDogs, CodexFates,
          CodexTurnEnds
<1>3. TurnIsTold'
  BY <1>1 DEF Codex!DogKills, Codex!DogUnchanged, Codex!thread, TurnIsTold, Codex!ResultHonest
<1>4. DogInv'
  <2>1. CASE proc' = Codex!KillAll
    <3>1. AllGone'
      BY <2>1 DEF AllGone, Codex!Alive, Codex!KillAll
    <3> QED
      BY <1>1, <3>1 DEF Codex!DogKills, DogInv
  <2>2. CASE Codex!Exit("unclean") /\ proc' = proc
    <3>1. dog'.at = "exited" /\ dog'.code = "unclean"
      BY <2>2 DEF Codex!Exit
    <3> QED
      BY <1>1, <3>1 DEF Codex!DogKills, DogInv
  <2> QED
    BY <2>1, <2>2 DEF Codex!DogKills
<1>5. ASSUME awake' PROVE SessionInv'
  BY <1>1, <1>5
    DEF Codex!DogKills, Codex!Exit, Codex!DogUnchanged, Codex!Failure, Codex!thread,
        Codex!transport, Codex!TypeOK, DogInv, SessionInv, AllGone, Codex!Alive, Codex!Proc,
        Codex!KillAll, Codex!NoAttempt, Talking, LeftoversCost
<1>6. ASSUME awake' PROVE LeftoversCost'
  <2>1. CASE proc' = Codex!KillAll
    <3>1. AllGone'
      BY <2>1 DEF AllGone, Codex!Alive, Codex!KillAll
    <3>2. dog'.at = "exited"
      BY <1>1 DEF Codex!DogKills, Codex!Exit, Codex!TypeOK
    <3> QED
      BY <3>1, <3>2 DEF LeftoversCost
  <2>2. CASE Codex!Failure /\ Codex!Exit("unclean")
    <3>1. dog'.at = "exited" /\ dog'.code = "unclean" /\ failures' > 0
      BY <1>1, <2>2 DEF Codex!Exit, Codex!Failure, Codex!TypeOK
    <3> QED
      BY <3>1 DEF LeftoversCost
  <2> QED
    BY <2>1, <2>2 DEF Codex!DogKills
<1> QED
  BY <1>2, <1>3, <1>4, <1>5, <1>6 DEF CodexInv

\* Codex!DogDies keeps CodexInv.
LEMMA CodexDogDiesKeeps ==
  ASSUME CodexInv, Codex!CodexAssumption, Codex!DogDies
  PROVE  CodexInv'
<1>1. Codex!TypeOK /\ TurnIsTold /\ DogInv /\ (awake => SessionInv /\ LeftoversCost)
  BY DEF CodexInv
<1>2. Codex!TypeOK'
  <2>1. failures' \in 0 .. MaxFailures /\ turns' \in 0 .. MaxTurns
    BY <1>1
      DEF Codex!DogDies, Codex!DogUnchanged, Codex!Failure, Codex!thread, Codex!TypeOK,
          Codex!CodexAssumption
  <2>2. /\ at' \in CodexSteps /\ session' \in {1, 2} /\ result' \in CodexResults
        /\ {awake, tainted, latched, wish, sent, guardLine}' \subseteq BOOLEAN
    BY <1>1
      DEF Codex!DogDies, Codex!DogUnchanged, Codex!thread, Codex!TypeOK, CodexSteps,
          CodexResults
  <2>3. /\ rpc' \in {"none", "open", "cancelled", "closed"} /\ terminated' \in {"none", "yes", "no"}
        /\ canceller' \in {"idle", "stopping", "terminating"} /\ attempt' \in CodexAttempts
    BY <1>1 DEF Codex!DogDies, Codex!DogUnchanged, Codex!transport, Codex!TypeOK, CodexAttempts
  <2>4. dog' \in CodexDogs
    BY <1>1 DEF Codex!DogDies, Codex!KillDog, Codex!TypeOK, CodexDogs
  <2>5. /\ proc' \in [Codex!Proc -> CodexFates] /\ known' \subseteq Codex!Proc
        /\ turn' \in CodexTurnEnds
    BY <1>1 DEF Codex!DogDies, Codex!DogUnchanged, Codex!TypeOK, CodexFates, CodexTurnEnds
  <2> QED
    BY <2>1, <2>2, <2>3, <2>4, <2>5
      DEF Codex!TypeOK, CodexSteps, CodexResults, CodexAttempts, CodexDogs, CodexFates,
          CodexTurnEnds
<1>3. TurnIsTold'
  BY <1>1 DEF Codex!DogDies, Codex!DogUnchanged, Codex!thread, TurnIsTold, Codex!ResultHonest
<1>4. DogInv'
  BY <1>1 DEF Codex!DogDies, Codex!KillDog, DogInv
<1>5. ASSUME awake' PROVE SessionInv'
  BY <1>1, <1>5
    DEF Codex!DogDies, Codex!KillDog, Codex!DogUnchanged, Codex!DogLives, Codex!thread,
        Codex!transport, SessionInv
<1>6. ASSUME awake' PROVE LeftoversCost'
  BY <1>1 DEF Codex!DogDies, Codex!KillDog, Codex!Failure, Codex!TypeOK, LeftoversCost
<1> QED
  BY <1>2, <1>3, <1>4, <1>5, <1>6 DEF CodexInv

\* Codex!AppExits keeps CodexInv.
LEMMA CodexAppExitsKeeps ==
  ASSUME CodexInv, Codex!CodexAssumption, NEW how \in {"ok", "fail"}, Codex!AppExits(how)
  PROVE  CodexInv'
<1>1. Codex!TypeOK /\ TurnIsTold /\ DogInv /\ (awake => SessionInv /\ LeftoversCost)
  BY DEF CodexInv
<1>2. Codex!TypeOK'
  <2>1. failures' \in 0 .. MaxFailures /\ turns' \in 0 .. MaxTurns
    BY <1>1 DEF Codex!AppExits, Codex!AppUnchanged, Codex!thread, Codex!TypeOK
  <2>2. /\ at' \in CodexSteps /\ session' \in {1, 2} /\ result' \in CodexResults
        /\ {awake, tainted, latched, wish, sent, guardLine}' \subseteq BOOLEAN
    BY <1>1
      DEF Codex!AppExits, Codex!AppUnchanged, Codex!thread, Codex!TypeOK, CodexSteps,
          CodexResults
  <2>3. /\ rpc' \in {"none", "open", "cancelled", "closed"} /\ terminated' \in {"none", "yes", "no"}
        /\ canceller' \in {"idle", "stopping", "terminating"} /\ attempt' \in CodexAttempts
    BY <1>1 DEF Codex!AppExits, Codex!AppUnchanged, Codex!transport, Codex!TypeOK, CodexAttempts
  <2>4. dog' \in CodexDogs
    BY <1>1 DEF Codex!AppExits, Codex!AppUnchanged, Codex!TypeOK, CodexDogs
  <2>5. /\ proc' \in [Codex!Proc -> CodexFates] /\ known' \subseteq Codex!Proc
        /\ turn' \in CodexTurnEnds
    BY <1>1
      DEF Codex!AppExits, Codex!AppUnchanged, Codex!TypeOK, CodexFates, CodexTurnEnds,
          Codex!Proc
  <2> QED
    BY <2>1, <2>2, <2>3, <2>4, <2>5
      DEF Codex!TypeOK, CodexSteps, CodexResults, CodexAttempts, CodexDogs, CodexFates,
          CodexTurnEnds
<1>3. TurnIsTold'
  BY <1>1 DEF Codex!AppExits, Codex!AppUnchanged, Codex!thread, TurnIsTold, Codex!ResultHonest
<1>4. DogInv'
  BY <1>1 DEF Codex!AppExits, Codex!AppUnchanged, DogInv, AllGone, Codex!Alive
<1>5. ASSUME awake' PROVE SessionInv'
  BY <1>1, <1>5
    DEF Codex!AppExits, Codex!AppUnchanged, Codex!thread, Codex!transport, SessionInv, AllGone,
        Codex!Alive
<1>6. ASSUME awake' PROVE LeftoversCost'
  BY <1>1, <1>6 DEF Codex!AppExits, Codex!AppUnchanged, LeftoversCost, AllGone, Codex!Alive
<1> QED
  BY <1>2, <1>3, <1>4, <1>5, <1>6 DEF CodexInv

\* Codex!Fork keeps CodexInv.
LEMMA CodexForkKeeps ==
  ASSUME CodexInv, Codex!CodexAssumption, Codex!Fork
  PROVE  CodexInv'
<1>1. Codex!TypeOK /\ TurnIsTold /\ DogInv /\ (awake => SessionInv /\ LeftoversCost)
  BY DEF CodexInv
<1>2. Codex!TypeOK'
  <2>1. failures' \in 0 .. MaxFailures /\ turns' \in 0 .. MaxTurns
    BY <1>1 DEF Codex!Fork, Codex!AppUnchanged, Codex!thread, Codex!TypeOK
  <2>2. /\ at' \in CodexSteps /\ session' \in {1, 2} /\ result' \in CodexResults
        /\ {awake, tainted, latched, wish, sent, guardLine}' \subseteq BOOLEAN
    BY <1>1
      DEF Codex!Fork, Codex!AppUnchanged, Codex!thread, Codex!TypeOK, CodexSteps, CodexResults
  <2>3. /\ rpc' \in {"none", "open", "cancelled", "closed"} /\ terminated' \in {"none", "yes", "no"}
        /\ canceller' \in {"idle", "stopping", "terminating"} /\ attempt' \in CodexAttempts
    BY <1>1 DEF Codex!Fork, Codex!AppUnchanged, Codex!transport, Codex!TypeOK, CodexAttempts
  <2>4. dog' \in CodexDogs
    BY <1>1 DEF Codex!Fork, Codex!AppUnchanged, Codex!TypeOK, CodexDogs
  <2>5. /\ proc' \in [Codex!Proc -> CodexFates] /\ known' \subseteq Codex!Proc
        /\ turn' \in CodexTurnEnds
    BY <1>1
      DEF Codex!Fork, Codex!AppUnchanged, Codex!TypeOK, CodexFates, CodexTurnEnds, Codex!Proc
  <2> QED
    BY <2>1, <2>2, <2>3, <2>4, <2>5
      DEF Codex!TypeOK, CodexSteps, CodexResults, CodexAttempts, CodexDogs, CodexFates,
          CodexTurnEnds
<1>3. TurnIsTold'
  BY <1>1 DEF Codex!Fork, Codex!AppUnchanged, Codex!thread, TurnIsTold, Codex!ResultHonest
<1>4. DogInv'
  BY <1>1 DEF Codex!Fork, Codex!AppUnchanged, DogInv, AllGone, Codex!Alive, Codex!Proc
<1>5. ASSUME awake' PROVE SessionInv'
  BY <1>1, <1>5
    DEF Codex!Fork, Codex!AppUnchanged, Codex!thread, Codex!transport, SessionInv, AllGone,
        Codex!Alive, Codex!Proc
<1>6. ASSUME awake' PROVE LeftoversCost'
  BY <1>1, <1>6
    DEF Codex!Fork, Codex!AppUnchanged, LeftoversCost, AllGone, Codex!Alive, Codex!Proc
<1> QED
  BY <1>2, <1>3, <1>4, <1>5, <1>6 DEF CodexInv

\* Codex!StrayExits keeps CodexInv.
LEMMA CodexStrayExitsKeeps ==
  ASSUME CodexInv, Codex!CodexAssumption, Codex!StrayExits
  PROVE  CodexInv'
<1>1. Codex!TypeOK /\ TurnIsTold /\ DogInv /\ (awake => SessionInv /\ LeftoversCost)
  BY DEF CodexInv
<1>2. Codex!TypeOK'
  <2>1. failures' \in 0 .. MaxFailures /\ turns' \in 0 .. MaxTurns
    BY <1>1 DEF Codex!StrayExits, Codex!AppUnchanged, Codex!thread, Codex!TypeOK
  <2>2. /\ at' \in CodexSteps /\ session' \in {1, 2} /\ result' \in CodexResults
        /\ {awake, tainted, latched, wish, sent, guardLine}' \subseteq BOOLEAN
    BY <1>1
      DEF Codex!StrayExits, Codex!AppUnchanged, Codex!thread, Codex!TypeOK, CodexSteps,
          CodexResults
  <2>3. /\ rpc' \in {"none", "open", "cancelled", "closed"} /\ terminated' \in {"none", "yes", "no"}
        /\ canceller' \in {"idle", "stopping", "terminating"} /\ attempt' \in CodexAttempts
    BY <1>1 DEF Codex!StrayExits, Codex!AppUnchanged, Codex!transport, Codex!TypeOK, CodexAttempts
  <2>4. dog' \in CodexDogs
    BY <1>1 DEF Codex!StrayExits, Codex!AppUnchanged, Codex!TypeOK, CodexDogs
  <2>5. /\ proc' \in [Codex!Proc -> CodexFates] /\ known' \subseteq Codex!Proc
        /\ turn' \in CodexTurnEnds
    BY <1>1
      DEF Codex!StrayExits, Codex!AppUnchanged, Codex!TypeOK, CodexFates, CodexTurnEnds,
          Codex!Proc
  <2> QED
    BY <2>1, <2>2, <2>3, <2>4, <2>5
      DEF Codex!TypeOK, CodexSteps, CodexResults, CodexAttempts, CodexDogs, CodexFates,
          CodexTurnEnds
<1>3. TurnIsTold'
  BY <1>1 DEF Codex!StrayExits, Codex!AppUnchanged, Codex!thread, TurnIsTold, Codex!ResultHonest
<1>4. DogInv'
  BY <1>1 DEF Codex!StrayExits, Codex!AppUnchanged, DogInv, AllGone, Codex!Alive
<1>5. ASSUME awake' PROVE SessionInv'
  BY <1>1, <1>5
    DEF Codex!StrayExits, Codex!AppUnchanged, Codex!thread, Codex!transport, SessionInv,
        AllGone, Codex!Alive
<1>6. ASSUME awake' PROVE LeftoversCost'
  BY <1>1, <1>6 DEF Codex!StrayExits, Codex!AppUnchanged, LeftoversCost, AllGone, Codex!Alive
<1> QED
  BY <1>2, <1>3, <1>4, <1>5, <1>6 DEF CodexInv

\* Codex!AnchorExits keeps CodexInv.
LEMMA CodexAnchorExitsKeeps ==
  ASSUME CodexInv, Codex!CodexAssumption, Codex!AnchorExits
  PROVE  CodexInv'
<1>1. Codex!TypeOK /\ TurnIsTold /\ DogInv /\ (awake => SessionInv /\ LeftoversCost)
  BY DEF CodexInv
<1>2. Codex!TypeOK'
  <2>1. failures' \in 0 .. MaxFailures /\ turns' \in 0 .. MaxTurns
    BY <1>1 DEF Codex!AnchorExits, Codex!AppUnchanged, Codex!thread, Codex!TypeOK
  <2>2. /\ at' \in CodexSteps /\ session' \in {1, 2} /\ result' \in CodexResults
        /\ {awake, tainted, latched, wish, sent, guardLine}' \subseteq BOOLEAN
    BY <1>1
      DEF Codex!AnchorExits, Codex!AppUnchanged, Codex!thread, Codex!TypeOK, CodexSteps,
          CodexResults
  <2>3. /\ rpc' \in {"none", "open", "cancelled", "closed"} /\ terminated' \in {"none", "yes", "no"}
        /\ canceller' \in {"idle", "stopping", "terminating"} /\ attempt' \in CodexAttempts
    BY <1>1
      DEF Codex!AnchorExits, Codex!AppUnchanged, Codex!transport, Codex!TypeOK, CodexAttempts
  <2>4. dog' \in CodexDogs
    BY <1>1 DEF Codex!AnchorExits, Codex!AppUnchanged, Codex!TypeOK, CodexDogs
  <2>5. /\ proc' \in [Codex!Proc -> CodexFates] /\ known' \subseteq Codex!Proc
        /\ turn' \in CodexTurnEnds
    BY <1>1
      DEF Codex!AnchorExits, Codex!AppUnchanged, Codex!TypeOK, CodexFates, CodexTurnEnds,
          Codex!Proc
  <2> QED
    BY <2>1, <2>2, <2>3, <2>4, <2>5
      DEF Codex!TypeOK, CodexSteps, CodexResults, CodexAttempts, CodexDogs, CodexFates,
          CodexTurnEnds
<1>3. TurnIsTold'
  BY <1>1 DEF Codex!AnchorExits, Codex!AppUnchanged, Codex!thread, TurnIsTold, Codex!ResultHonest
<1>4. DogInv'
  BY <1>1 DEF Codex!AnchorExits, Codex!AppUnchanged, DogInv, AllGone, Codex!Alive
<1>5. ASSUME awake' PROVE SessionInv'
  BY <1>5 DEF Codex!AnchorExits, Codex!AppUnchanged
<1>6. ASSUME awake' PROVE LeftoversCost'
  BY <1>6 DEF Codex!AnchorExits, Codex!AppUnchanged
<1> QED
  BY <1>2, <1>3, <1>4, <1>5, <1>6 DEF CodexInv

\* Codex!EndTurn keeps CodexInv.
LEMMA CodexEndTurnKeeps ==
  ASSUME CodexInv, Codex!CodexAssumption, NEW how \in {"completed", "failed", "interrupted"},
         Codex!EndTurn(how)
  PROVE  CodexInv'
<1>1. Codex!TypeOK /\ TurnIsTold /\ DogInv /\ (awake => SessionInv /\ LeftoversCost)
  BY DEF CodexInv
<1>2. Codex!TypeOK'
  <2>1. failures' \in 0 .. MaxFailures /\ turns' \in 0 .. MaxTurns
    BY <1>1 DEF Codex!EndTurn, Codex!AppUnchanged, Codex!thread, Codex!TypeOK
  <2>2. /\ at' \in CodexSteps /\ session' \in {1, 2} /\ result' \in CodexResults
        /\ {awake, tainted, latched, wish, sent, guardLine}' \subseteq BOOLEAN
    BY <1>1
      DEF Codex!EndTurn, Codex!AppUnchanged, Codex!thread, Codex!TypeOK, CodexSteps,
          CodexResults
  <2>3. /\ rpc' \in {"none", "open", "cancelled", "closed"} /\ terminated' \in {"none", "yes", "no"}
        /\ canceller' \in {"idle", "stopping", "terminating"} /\ attempt' \in CodexAttempts
    BY <1>1 DEF Codex!EndTurn, Codex!AppUnchanged, Codex!transport, Codex!TypeOK, CodexAttempts
  <2>4. dog' \in CodexDogs
    BY <1>1 DEF Codex!EndTurn, Codex!AppUnchanged, Codex!TypeOK, CodexDogs
  <2>5. /\ proc' \in [Codex!Proc -> CodexFates] /\ known' \subseteq Codex!Proc
        /\ turn' \in CodexTurnEnds
    BY <1>1 DEF Codex!EndTurn, Codex!AppUnchanged, Codex!TypeOK, CodexFates, CodexTurnEnds
  <2> QED
    BY <2>1, <2>2, <2>3, <2>4, <2>5
      DEF Codex!TypeOK, CodexSteps, CodexResults, CodexAttempts, CodexDogs, CodexFates,
          CodexTurnEnds
<1>3. TurnIsTold'
  BY <1>1 DEF Codex!EndTurn, Codex!AppUnchanged, Codex!thread, TurnIsTold, Codex!ResultHonest
<1>4. DogInv'
  BY <1>1 DEF Codex!EndTurn, Codex!AppUnchanged, DogInv, AllGone, Codex!Alive
<1>5. ASSUME awake' PROVE SessionInv'
  BY <1>1, <1>5
    DEF Codex!EndTurn, Codex!AppUnchanged, Codex!thread, Codex!transport, SessionInv, AllGone,
        Codex!Alive
<1>6. ASSUME awake' PROVE LeftoversCost'
  BY <1>1, <1>6 DEF Codex!EndTurn, Codex!AppUnchanged, LeftoversCost, AllGone, Codex!Alive
<1> QED
  BY <1>2, <1>3, <1>4, <1>5, <1>6 DEF CodexInv

\* Codex!ServerEnds keeps CodexInv.
LEMMA CodexServerEndsKeeps ==
  ASSUME CodexInv, Codex!CodexAssumption, Codex!ServerEnds
  PROVE  CodexInv'
<1>1. Codex!TypeOK /\ TurnIsTold /\ DogInv /\ (awake => SessionInv /\ LeftoversCost)
  BY DEF CodexInv
<1>2. Codex!TypeOK'
  <2>1. failures' \in 0 .. MaxFailures /\ turns' \in 0 .. MaxTurns
    BY <1>1 DEF Codex!ServerEnds, Codex!TypeOK
  <2>2. /\ at' \in CodexSteps /\ session' \in {1, 2} /\ result' \in CodexResults
        /\ {awake, tainted, latched, wish, sent, guardLine}' \subseteq BOOLEAN
    BY <1>1 DEF Codex!ServerEnds, Codex!TypeOK, CodexSteps, CodexResults
  <2>3. /\ rpc' \in {"none", "open", "cancelled", "closed"} /\ terminated' \in {"none", "yes", "no"}
        /\ canceller' \in {"idle", "stopping", "terminating"} /\ attempt' \in CodexAttempts
    BY <1>1 DEF Codex!ServerEnds, Codex!TypeOK, CodexAttempts, Codex!NoAttempt
  <2>4. dog' \in CodexDogs
    BY <1>1 DEF Codex!ServerEnds, Codex!TypeOK, CodexDogs
  <2>5. /\ proc' \in [Codex!Proc -> CodexFates] /\ known' \subseteq Codex!Proc
        /\ turn' \in CodexTurnEnds
    BY <1>1 DEF Codex!ServerEnds, Codex!TypeOK, CodexFates, CodexTurnEnds
  <2> QED
    BY <2>1, <2>2, <2>3, <2>4, <2>5
      DEF Codex!TypeOK, CodexSteps, CodexResults, CodexAttempts, CodexDogs, CodexFates,
          CodexTurnEnds
<1>3. TurnIsTold'
  BY <1>1 DEF Codex!ServerEnds, TurnIsTold, Codex!ResultHonest
<1>4. DogInv'
  BY <1>1 DEF Codex!ServerEnds, DogInv, AllGone, Codex!Alive
<1>5. ASSUME awake' PROVE SessionInv'
  BY <1>5 DEF Codex!ServerEnds
<1>6. ASSUME awake' PROVE LeftoversCost'
  BY <1>6 DEF Codex!ServerEnds
<1> QED
  BY <1>2, <1>3, <1>4, <1>5, <1>6 DEF CodexInv

\* A step of another part keeps CodexInv.
LEMMA CodexStutterKeeps ==
  ASSUME CodexInv, Codex!CodexAssumption, UNCHANGED Codex!gvars
  PROVE  CodexInv'
<1>1. Codex!TypeOK /\ TurnIsTold /\ DogInv /\ (awake => SessionInv /\ LeftoversCost)
  BY DEF CodexInv
<1>2. Codex!TypeOK'
  <2>1. failures' \in 0 .. MaxFailures /\ turns' \in 0 .. MaxTurns
    BY <1>1 DEF Codex!gvars, Codex!thread, Codex!TypeOK
  <2>2. /\ at' \in CodexSteps /\ session' \in {1, 2} /\ result' \in CodexResults
        /\ {awake, tainted, latched, wish, sent, guardLine}' \subseteq BOOLEAN
    BY <1>1 DEF Codex!gvars, Codex!thread, Codex!process, Codex!TypeOK, CodexSteps, CodexResults
  <2>3. /\ rpc' \in {"none", "open", "cancelled", "closed"} /\ terminated' \in {"none", "yes", "no"}
        /\ canceller' \in {"idle", "stopping", "terminating"} /\ attempt' \in CodexAttempts
    BY <1>1 DEF Codex!gvars, Codex!transport, Codex!TypeOK, CodexAttempts
  <2>4. dog' \in CodexDogs
    BY <1>1 DEF Codex!gvars, Codex!process, Codex!TypeOK, CodexDogs
  <2>5. /\ proc' \in [Codex!Proc -> CodexFates] /\ known' \subseteq Codex!Proc
        /\ turn' \in CodexTurnEnds
    BY <1>1 DEF Codex!gvars, Codex!process, Codex!TypeOK, CodexFates, CodexTurnEnds
  <2> QED
    BY <2>1, <2>2, <2>3, <2>4, <2>5
      DEF Codex!TypeOK, CodexSteps, CodexResults, CodexAttempts, CodexDogs, CodexFates,
          CodexTurnEnds
<1>3. TurnIsTold'
  BY <1>1 DEF Codex!gvars, Codex!thread, Codex!process, TurnIsTold, Codex!ResultHonest
<1>4. DogInv'
  BY <1>1 DEF Codex!gvars, Codex!process, DogInv, AllGone, Codex!Alive
<1>5. ASSUME awake' PROVE SessionInv'
  BY <1>1, <1>5
    DEF Codex!gvars, Codex!thread, Codex!transport, Codex!process, SessionInv, AllGone,
        Codex!Alive
<1>6. ASSUME awake' PROVE LeftoversCost'
  BY <1>1, <1>6 DEF Codex!gvars, Codex!process, LeftoversCost, AllGone, Codex!Alive
<1> QED
  BY <1>2, <1>3, <1>4, <1>5, <1>6 DEF CodexInv

\* Every step of the part keeps CodexInv.
LEMMA CodexNextKeeps ==
  ASSUME CodexInv, Codex!CodexAssumption, Codex!Next \/ UNCHANGED Codex!gvars
  PROVE  CodexInv'
<1>1. CASE Codex!Thread
  BY <1>1, CodexOpenSessionKeeps, CodexAttachKeeps, CodexStartFailsKeeps, CodexAbandonKeeps,
     CodexTalkMetadataKeeps, CodexTalkThreadKeeps, CodexMarkSentKeeps, CodexWriteTurnKeeps,
     CodexCollectKeeps, CodexInterruptKeeps, CodexCloseTransportKeeps, CodexRecloseKeeps,
     CodexRemoveRunKeeps, CodexLeaveKeeps
    DEF Codex!Thread
<1>2. CASE Codex!Begin \/ Codex!Terminate \/ Codex!Wish \/ Codex!Cancel \/ Codex!CancelTransport
  BY <1>2, CodexBeginKeeps, CodexFreezeKeeps, CodexAwaitDogKeeps, CodexFinishTerminateKeeps,
     CodexWishKeeps, CodexCancelKeeps, CodexCancelTransportKeeps
    DEF Codex!Terminate
<1>3. CASE Codex!Dog \/ Codex!DogDies
  BY <1>3, CodexBootKeeps, CodexWatchKeeps, CodexDogFreezesKeeps, CodexDogKillsKeeps,
     CodexDogDiesKeeps
    DEF Codex!Dog
<1>4. CASE \E how \in {"ok", "fail"} : Codex!AppExits(how)
  BY <1>4, CodexAppExitsKeeps
<1>5. CASE \E how \in {"completed", "failed", "interrupted"} : Codex!EndTurn(how)
  BY <1>5, CodexEndTurnKeeps
<1>6. CASE Codex!Fork \/ Codex!StrayExits \/ Codex!AnchorExits \/ Codex!ServerEnds
  BY <1>6, CodexForkKeeps, CodexStrayExitsKeeps, CodexAnchorExitsKeeps, CodexServerEndsKeeps
<1>7. CASE UNCHANGED Codex!gvars
  BY <1>7, CodexStutterKeeps
<1> QED
  BY <1>1, <1>2, <1>3, <1>4, <1>5, <1>6, <1>7 DEF Codex!Next

\* CodexInv holds of the initial states.
LEMMA CodexInitKeeps ==
  ASSUME Codex!CodexAssumption, Codex!Init
  PROVE  CodexInv
<1>1. Codex!TypeOK
  <2>1. dog \in CodexDogs /\ attempt \in CodexAttempts
    BY DEF Codex!Init, CodexDogs, CodexAttempts, Codex!NoAttempt
  <2>2. turns \in 0 .. MaxTurns /\ failures \in 0 .. MaxFailures
    BY DEF Codex!Init, Codex!CodexAssumption
  <2>3. {awake, tainted, latched, wish, sent, guardLine} \subseteq BOOLEAN
    BY DEF Codex!Init
  <2> QED
    BY <2>1, <2>2, <2>3 DEF Codex!Init, Codex!TypeOK, CodexAttempts
<1>2. TurnIsTold
  BY DEF Codex!Init, TurnIsTold, Codex!ResultHonest
<1>3. DogInv
  BY DEF Codex!Init, DogInv, AllGone, Codex!Alive
<1>4. SessionInv /\ LeftoversCost
  BY DEF Codex!Init, SessionInv, LeftoversCost, Codex!NoAttempt, AllGone, Codex!Alive, Talking
<1> QED
  BY <1>1, <1>2, <1>3, <1>4 DEF CodexInv

\* The invariant of a generation implies what the run checks of it.
LEMMA CodexInvIsSafe ==
  ASSUME CodexInv, Codex!CodexAssumption
  PROVE  Codex!CodexSafe
<1>1. AllGone => Codex!Survivors = {}
  BY DEF AllGone, Codex!Survivors
<1>2. Codex!ResultHonest
  BY DEF CodexInv, TurnIsTold
<1>3. Codex!TerminatedIsTrue
  BY <1>1 DEF CodexInv, SessionInv, Codex!TerminatedIsTrue
<1>4. Codex!NothingLeft
  <2> SUFFICES ASSUME awake, at = "idle", ~tainted, failures < 2, ~Codex!UnnoticedStart
                   PROVE AllGone
    BY <1>1 DEF Codex!NothingLeft
  <2>1. CASE terminated = "yes"
    BY <2>1 DEF CodexInv, SessionInv
  <2>2. CASE terminated # "yes"
    <3>1. dog.at \in {"none", "exited"} /\ dog.code \notin {"killed", "unclean"}
      BY <2>2 DEF CodexInv, SessionInv, Codex!UnnoticedStart
    <3> QED
      BY <3>1 DEF CodexInv, DogInv, LeftoversCost
  <2> QED
    BY <2>1, <2>2
<1> QED
  BY <1>2, <1>3, <1>4 DEF Codex!CodexSafe

(* CodexInv is an invariant: the inductive invariant of the generations.     *)
THEOREM CodexInvariant == Spec => []CodexInv
<1>1. Init => CodexInv
  BY CodexInitKeeps, ProvidersAssumption DEF Init
<1>2. CodexInv /\ [Next]_all => CodexInv'
  <2> SUFFICES ASSUME CodexInv, [Next]_all PROVE CodexInv'
    OBVIOUS
  <2>1. Codex!Next \/ UNCHANGED gvars
    BY DEF Next, all
  <2> QED
    BY <2>1, CodexNextKeeps, ProvidersAssumption
      DEF gvars, Codex!gvars, Codex!thread, Codex!transport, Codex!process
<1> QED
  BY <1>1, <1>2, PTL DEF Spec

(* A Codex generation that is over leaves no process of its tree, or a      *)
(* connection that cannot be used, and what it answers its caller is what   *)
(* became of the turn (codex/_supervisor.py, _process_tree.py).             *)
THEOREM CodexGenerationsAreSafe == Spec => []CodexSafe
<1>1. CodexInv => CodexSafe
  BY CodexInvIsSafe, ProvidersAssumption DEF CodexSafe
<1> QED
  BY <1>1, CodexInvariant, PTL

(* Every variable of the preparations, the Claude workers and the Codex        *)
(* generation keeps its type, whichever process dies (runtime.py,              *)
(* claude/transport.py, codex/_supervisor.py).                                 *)
THEOREM ProcessTypes == Spec => [](Runtime!TypeOK /\ Claude!TypeOK /\ Codex!TypeOK)
<1>1. RuntimeInv => Runtime!TypeOK
  BY DEF RuntimeInv
<1>2. ClaudeInv => Claude!TypeOK
  BY DEF ClaudeInv
<1>3. CodexInv => Codex!TypeOK
  BY DEF CodexInv
<1> QED
  BY <1>1, <1>2, <1>3, RuntimeInvariant, ClaudeInvariant, CodexInvariant, PTL
=============================================================================
