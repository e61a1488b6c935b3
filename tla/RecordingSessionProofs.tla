------------------------- MODULE RecordingSessionProofs --------------------------
(***************************************************************************)
(* Type correctness and the two promises of RecordingSession, for any      *)
(* number of meetings and of threads that start and stop recordings.       *)
(*                                                                         *)
(* What makes them hold is who may write what: the gate admits one start,  *)
(* a start holds its meeting's lock until its recorder runs, and a stop    *)
(* writes the manifest of the meeting it read only when that meeting is    *)
(* no longer the active one.  IInv says so for every place of a call.      *)
(***************************************************************************)
EXTENDS RecordingSession, TLAPS

(* A call is at a step of its own kind. *)
Places ==
  /\ \A s \in Starter : pc[s] \in {"idle", "side"} \cup StartSteps
  /\ \A t \in Stopping : pc[t] \notin {"side"} \cup StartSteps

(* Whoever starts or asks the recorder something holds the gate. *)
GateIsHeld == \A s \in Starter : pc[s] # "idle" => gate = s

(* A start holds the lock of a meeting of its own. *)
StartOwnsMeeting ==
  \A s \in Starter : pc[s] \in StartSteps =>
    /\ target[s] \in Meeting \ unused
    /\ lock[target[s]] = s

(* What there is of that meeting, step by step. *)
StartAtStep ==
  \A s \in Starter :
    /\ pc[s] = "reserved" => manifest[target[s]] = "absent" /\ recorder[target[s]] = "none"
    /\ pc[s] \in StartSteps \ {"reserved"} => manifest[target[s]] = "recording"
    /\ pc[s] = "created" => recorder[target[s]] = "none"
    /\ pc[s] = "launching" => recorder[target[s]] = "starting" /\ control = s /\ proc = target[s]
    /\ pc[s] = "started" => recorder[target[s]] \in Captured
    /\ pc[s] \in {"reserved", "created", "launching"} => active = NoMeeting

(* The controller's lock is a start's that waits for its recorder; without *)
(* it, the process and the active meeting are set and cleared together.    *)
ControlIsLaunching ==
  /\ control # NoThread => pc[control] = "launching"
  /\ control = NoThread => proc = active

(* Nothing is known of an id that was not given out. *)
UnusedIsFresh == \A m \in unused : recorder[m] = "none" /\ manifest[m] = "absent"

(* A recorder at work is the controller's. *)
RecordersAreKnown ==
  \A m \in Meeting : /\ recorder[m] = "starting" => proc = m /\ control # NoThread
                     /\ recorder[m] = "capturing" => active = m

(* The active meeting was captured and still says "recording". *)
ActiveIsRecording ==
  active # NoMeeting => manifest[active] = "recording" /\ recorder[active] \in Captured

(* A stop works on a meeting that was captured, under its lock once it has *)
(* it, and the meeting is not active any more when its manifest is due.    *)
StopAtStep ==
  \A t \in Stopping :
    /\ target[t] # NoMeeting => recorder[target[t]] \in Captured
    /\ pc[t] \in StopSteps => target[t] \in Meeting
    /\ pc[t] \in StopSteps \ {"waiting"} => lock[target[t]] = t
    /\ pc[t] \in {"finalizing", "recorded", "failing"} => active # target[t]

IInv ==
  /\ TypeOK /\ Places /\ GateIsHeld /\ StartOwnsMeeting /\ StartAtStep /\ ControlIsLaunching
  /\ UnusedIsFresh /\ RecordersAreKnown /\ ActiveIsRecording /\ StopAtStep
  /\ BundlesAreOfCaptures

-----------------------------------------------------------------------------
(* The steps *)

(* Nothing is recorded, locked or at work at first. *)
LEMMA InitInv == Init => IInv
<1> SUFFICES ASSUME Init PROVE IInv
  OBVIOUS
<1>1. TypeOK
  BY DEF Init, TypeOK
<1>2. Places
  BY DEF Init, Places, Thread, Stopping, StartSteps
<1>3. GateIsHeld
  BY DEF Init, GateIsHeld, Thread
<1>4. StartOwnsMeeting
  BY DEF Init, StartOwnsMeeting, Thread, StartSteps
<1>5. StartAtStep
  BY DEF Init, StartAtStep, Thread, StartSteps
<1>6. ControlIsLaunching
  BY DEF Init, ControlIsLaunching
<1>7. UnusedIsFresh
  BY DEF Init, UnusedIsFresh
<1>8. RecordersAreKnown
  BY DEF Init, RecordersAreKnown
<1>9. ActiveIsRecording
  BY DEF Init, ActiveIsRecording
<1>10. StopAtStep
  BY DEF Init, StopAtStep, Thread, Stopping, StopSteps
<1>11. BundlesAreOfCaptures
  BY DEF Init, BundlesAreOfCaptures, Captured
<1>12. QED
  BY <1>1, <1>2, <1>3, <1>4, <1>5, <1>6, <1>7, <1>8, <1>9, <1>10, <1>11 DEF IInv

(* A start takes the gate and the lock of a meeting of its own. *)
LEMMA ReserveKeeps ==
  ASSUME IInv, NEW s \in Starter, NEW m \in Meeting, Reserve(s, m)
  PROVE  IInv'
<1>1. (RecordersAreKnown /\ ActiveIsRecording)'
  BY DEF Reserve, IInv, RecordersAreKnown, ActiveIsRecording
<1>2. TypeOK'
  BY DEF Reserve, EnterGate, IInv, TypeOK, Thread, StartSteps
<1>3. Places'
  BY SessionAssumption DEF Reserve, IInv, Places, Stopping, StartSteps
<1>4. GateIsHeld'
  BY SessionAssumption DEF Reserve, EnterGate, IInv, GateIsHeld, Thread
<1>5. StartOwnsMeeting'
  BY DEF Reserve, IInv, StartOwnsMeeting, TypeOK
<1>6. StartAtStep'
  BY DEF Reserve, EnterGate, IInv, StartAtStep, TypeOK, UnusedIsFresh
<1>7. ControlIsLaunching'
  BY DEF Reserve, EnterGate, IInv, ControlIsLaunching
<1>8. UnusedIsFresh'
  BY DEF Reserve, IInv, UnusedIsFresh
<1>9. StopAtStep'
  BY SessionAssumption DEF Reserve, IInv, StopAtStep, UnusedIsFresh, Stopping, Captured
<1>10. BundlesAreOfCaptures'
  BY DEF Reserve, EnterGate, IInv, BundlesAreOfCaptures
<1>11. QED
  BY <1>1, <1>2, <1>3, <1>4, <1>5, <1>6, <1>7, <1>8, <1>9, <1>10 DEF IInv

(* Another operation on the recorder takes the gate. *)
LEMMA EnterSideOperationKeeps ==
  ASSUME IInv, NEW s \in Starter, EnterSideOperation(s)
  PROVE  IInv'
<1>1. (UnusedIsFresh /\ RecordersAreKnown /\ ActiveIsRecording)'
  BY DEF EnterSideOperation, bundles, IInv, UnusedIsFresh, RecordersAreKnown, ActiveIsRecording
<1>2. TypeOK'
  BY DEF EnterSideOperation, EnterGate, bundles, IInv, TypeOK, Thread
<1>3. Places'
  BY SessionAssumption DEF EnterSideOperation, IInv, Places, Stopping
<1>4. GateIsHeld'
  BY SessionAssumption DEF EnterSideOperation, EnterGate, IInv, GateIsHeld, Thread
<1>5. StartOwnsMeeting'
  BY DEF EnterSideOperation, bundles, IInv, StartOwnsMeeting, StartSteps
<1>6. StartAtStep'
  BY DEF EnterSideOperation, bundles, IInv, StartAtStep, StartSteps
<1>7. ControlIsLaunching'
  BY DEF EnterSideOperation, EnterGate, IInv, ControlIsLaunching
<1>8. StopAtStep'
  BY DEF EnterSideOperation, IInv, StopAtStep, StopSteps
<1>9. BundlesAreOfCaptures'
  BY DEF EnterSideOperation, EnterGate, bundles, IInv, BundlesAreOfCaptures
<1>10. QED
  BY <1>1, <1>2, <1>3, <1>4, <1>5, <1>6, <1>7, <1>8, <1>9 DEF IInv

(* Another operation on the recorder gives the gate back. *)
LEMMA LeaveSideOperationKeeps ==
  ASSUME IInv, NEW s \in Starter, LeaveSideOperation(s)
  PROVE  IInv'
<1>1. (UnusedIsFresh /\ RecordersAreKnown /\ ActiveIsRecording)'
  BY DEF LeaveSideOperation, bundles, IInv, UnusedIsFresh, RecordersAreKnown, ActiveIsRecording
<1>2. TypeOK'
  BY DEF LeaveSideOperation, Return, bundles, IInv, TypeOK, Thread
<1>3. Places'
  BY DEF LeaveSideOperation, Return, IInv, Places
<1>4. GateIsHeld'
  BY DEF LeaveSideOperation, Return, IInv, GateIsHeld, TypeOK, Thread
<1>5. StartOwnsMeeting'
  BY DEF LeaveSideOperation, Return, bundles, IInv, StartOwnsMeeting, StartSteps
<1>6. StartAtStep'
  BY DEF LeaveSideOperation, Return, bundles, IInv, StartAtStep, StartSteps
<1>7. ControlIsLaunching'
  BY DEF LeaveSideOperation, IInv, ControlIsLaunching, TypeOK, GateIsHeld
<1>8. StopAtStep'
  BY DEF LeaveSideOperation, Return, IInv, StopAtStep, Places
<1>9. BundlesAreOfCaptures'
  BY DEF LeaveSideOperation, Return, bundles, IInv, BundlesAreOfCaptures
<1>10. QED
  BY <1>1, <1>2, <1>3, <1>4, <1>5, <1>6, <1>7, <1>8, <1>9 DEF IInv

(* A start that is refused gives its meeting and the gate back. *)
LEMMA RefuseStartKeeps ==
  ASSUME IInv, NEW s \in Starter, RefuseStart(s)
  PROVE  IInv'
<1>1. (UnusedIsFresh /\ RecordersAreKnown /\ ActiveIsRecording)'
  BY DEF RefuseStart, bundles, IInv, UnusedIsFresh, RecordersAreKnown, ActiveIsRecording
<1>2. TypeOK'
  BY DEF RefuseStart, Return, ReleaseStart, bundles, IInv, TypeOK, Places, StartOwnsMeeting,
         Thread
<1>3. Places'
  BY DEF RefuseStart, Return, IInv, Places
<1>4. GateIsHeld'
  BY DEF RefuseStart, Return, ReleaseStart, IInv, GateIsHeld, TypeOK, Places, StartOwnsMeeting
<1>5. StartOwnsMeeting'
  BY DEF RefuseStart, Return, ReleaseStart, bundles, IInv, StartOwnsMeeting, TypeOK, StartSteps
<1>6. StartAtStep'
  BY DEF RefuseStart, Return, bundles, IInv, StartAtStep, TypeOK, StartSteps
<1>7. ControlIsLaunching'
  BY DEF RefuseStart, IInv, ControlIsLaunching, TypeOK, GateIsHeld
<1>8. StopAtStep'
  BY DEF RefuseStart, Return, ReleaseStart, IInv, StopAtStep, Places, StartOwnsMeeting
<1>9. BundlesAreOfCaptures'
  BY DEF RefuseStart, bundles, IInv, BundlesAreOfCaptures, GateIsHeld
<1>10. QED
  BY <1>1, <1>2, <1>3, <1>4, <1>5, <1>6, <1>7, <1>8, <1>9 DEF IInv

(* A start writes the manifest of its meeting. *)
LEMMA CreateBundleKeeps ==
  ASSUME IInv, NEW s \in Starter, CreateBundle(s)
  PROVE  IInv'
<1>1. (RecordersAreKnown)'
  BY DEF CreateBundle, controller, IInv, RecordersAreKnown
<1>2. TypeOK'
  BY DEF CreateBundle, controller, IInv, TypeOK, StartOwnsMeeting, Thread, StartSteps
<1>3. Places'
  BY DEF CreateBundle, IInv, Places, StartSteps
<1>4. GateIsHeld'
  BY DEF CreateBundle, controller, IInv, GateIsHeld
<1>5. StartOwnsMeeting'
  BY DEF CreateBundle, IInv, StartOwnsMeeting, Places
<1>6. StartAtStep'
  BY DEF CreateBundle, controller, IInv, StartAtStep, TypeOK, StartOwnsMeeting, Thread,
         StartSteps
<1>7. ControlIsLaunching'
  BY DEF CreateBundle, controller, IInv, ControlIsLaunching
<1>8. UnusedIsFresh'
  BY DEF CreateBundle, controller, IInv, UnusedIsFresh, Places, StartOwnsMeeting
<1>9. ActiveIsRecording'
  BY DEF CreateBundle, controller, IInv, ActiveIsRecording
<1>10. StopAtStep'
  BY DEF CreateBundle, controller, IInv, StopAtStep, TypeOK, StartOwnsMeeting
<1>11. BundlesAreOfCaptures'
  BY DEF CreateBundle, controller, IInv, BundlesAreOfCaptures, TypeOK, Thread
<1>12. QED
  BY <1>1, <1>2, <1>3, <1>4, <1>5, <1>6, <1>7, <1>8, <1>9, <1>10, <1>11 DEF IInv

(* A start runs the recorder under the controller's lock. *)
LEMMA LaunchKeeps ==
  ASSUME IInv, NEW s \in Starter, Launch(s)
  PROVE  IInv'
<1>1. TypeOK'
  BY DEF Launch, bundles, IInv, TypeOK, StartOwnsMeeting, Thread, Alive, StartSteps
<1>2. Places'
  BY DEF Launch, IInv, Places, StartSteps
<1>3. GateIsHeld'
  BY DEF Launch, IInv, GateIsHeld
<1>4. StartOwnsMeeting'
  BY DEF Launch, bundles, IInv, StartOwnsMeeting, Places
<1>5. StartAtStep'
  BY SessionAssumption
    DEF Launch, bundles, IInv, StartAtStep, TypeOK, StartOwnsMeeting, Thread, StartSteps
<1>6. ControlIsLaunching'
  BY SessionAssumption DEF Launch, IInv, ControlIsLaunching, TypeOK, Thread
<1>7. UnusedIsFresh'
  BY DEF Launch, bundles, IInv, UnusedIsFresh, Places, StartAtStep
<1>8. RecordersAreKnown'
  BY SessionAssumption DEF Launch, IInv, RecordersAreKnown, Thread
<1>9. ActiveIsRecording'
  BY DEF Launch, ActiveIsRecording
<1>10. StopAtStep'
  BY DEF Launch, IInv, StopAtStep, TypeOK, StartOwnsMeeting, StartAtStep, Captured
<1>11. BundlesAreOfCaptures'
  BY DEF Launch, bundles, IInv, BundlesAreOfCaptures, TypeOK, Places, StartAtStep
<1>12. QED
  BY <1>1, <1>2, <1>3, <1>4, <1>5, <1>6, <1>7, <1>8, <1>9, <1>10, <1>11 DEF IInv

(* A recorder that cannot be run leaves no bundle. *)
LEMMA LaunchFailsKeeps ==
  ASSUME IInv, NEW s \in Starter, LaunchFails(s)
  PROVE  IInv'
<1>1. (RecordersAreKnown)'
  BY DEF LaunchFails, IInv, RecordersAreKnown
<1>2. TypeOK'
  BY DEF LaunchFails, Return, ReleaseStart, IInv, TypeOK, Places, StartOwnsMeeting, Thread
<1>3. Places'
  BY DEF LaunchFails, Return, IInv, Places
<1>4. GateIsHeld'
  BY DEF LaunchFails, Return, ReleaseStart, IInv, GateIsHeld, TypeOK, Places, StartOwnsMeeting
<1>5. StartOwnsMeeting'
  BY DEF LaunchFails, Return, ReleaseStart, IInv, StartOwnsMeeting, TypeOK, StartSteps
<1>6. StartAtStep'
  BY DEF LaunchFails, Return, IInv, StartAtStep, TypeOK, StartOwnsMeeting, Thread, StartSteps
<1>7. ControlIsLaunching'
  BY DEF LaunchFails, IInv, ControlIsLaunching
<1>8. UnusedIsFresh'
  BY DEF LaunchFails, IInv, UnusedIsFresh
<1>9. ActiveIsRecording'
  BY DEF LaunchFails, IInv, ActiveIsRecording, StartAtStep
<1>10. StopAtStep'
  BY DEF LaunchFails, Return, ReleaseStart, IInv, StopAtStep, Places, StartOwnsMeeting
<1>11. BundlesAreOfCaptures'
  BY DEF LaunchFails, IInv, BundlesAreOfCaptures, TypeOK, GateIsHeld, StartAtStep, Captured
<1>12. QED
  BY <1>1, <1>2, <1>3, <1>4, <1>5, <1>6, <1>7, <1>8, <1>9, <1>10, <1>11 DEF IInv

(* The recorder reports that it captures: its meeting is active. *)
LEMMA StartedKeeps ==
  ASSUME IInv, NEW s \in Starter, Started(s)
  PROVE  IInv'
<1>1. TypeOK'
  BY DEF Started, bundles, IInv, TypeOK, StartOwnsMeeting, Thread, Captured, StartSteps
<1>2. Places'
  BY DEF Started, IInv, Places, StartSteps
<1>3. GateIsHeld'
  BY DEF Started, IInv, GateIsHeld
<1>4. StartOwnsMeeting'
  BY DEF Started, bundles, IInv, StartOwnsMeeting, Places
<1>5. StartAtStep'
  BY SessionAssumption
    DEF Started, bundles, IInv, StartAtStep, TypeOK, Places, GateIsHeld, StartOwnsMeeting,
        ControlIsLaunching, Captured
<1>6. ControlIsLaunching'
  BY DEF Started, IInv, ControlIsLaunching, StartAtStep
<1>7. UnusedIsFresh'
  BY DEF Started, bundles, IInv, UnusedIsFresh, StartAtStep
<1>8. RecordersAreKnown'
  BY SessionAssumption DEF Started, IInv, RecordersAreKnown, TypeOK, StartAtStep
<1>9. ActiveIsRecording'
  BY DEF Started, bundles, IInv, ActiveIsRecording, TypeOK, StartAtStep, Captured, StartSteps
<1>10. StopAtStep'
  BY DEF Started, IInv, StopAtStep, TypeOK, StartOwnsMeeting, StartAtStep, Captured
<1>11. BundlesAreOfCaptures'
  BY DEF Started, bundles, IInv, BundlesAreOfCaptures, Places, StartAtStep
<1>12. QED
  BY <1>1, <1>2, <1>3, <1>4, <1>5, <1>6, <1>7, <1>8, <1>9, <1>10, <1>11 DEF IInv

(* A recorder that does not start is gone before its bundle is. *)
LEMMA StartFailsKeeps ==
  ASSUME IInv, NEW s \in Starter, StartFails(s)
  PROVE  IInv'
<1>1. TypeOK'
  BY SessionAssumption
    DEF StartFails, Return, ReleaseStart, IInv, TypeOK, Places, StartOwnsMeeting, StartAtStep,
        ControlIsLaunching
<1>2. Places'
  BY DEF StartFails, Return, IInv, Places
<1>3. GateIsHeld'
  BY DEF StartFails, Return, ReleaseStart, IInv, GateIsHeld, TypeOK, Places, StartOwnsMeeting
<1>4. StartOwnsMeeting'
  BY DEF StartFails, Return, ReleaseStart, IInv, StartOwnsMeeting, TypeOK, StartSteps
<1>5. StartAtStep'
  BY DEF StartFails, Return, IInv, StartAtStep, TypeOK, Thread, Captured, StartSteps
<1>6. ControlIsLaunching'
  BY DEF StartFails, IInv, ControlIsLaunching, StartAtStep
<1>7. UnusedIsFresh'
  BY DEF StartFails, IInv, UnusedIsFresh, Places, StartOwnsMeeting
<1>8. RecordersAreKnown'
  BY DEF StartFails, IInv, RecordersAreKnown, TypeOK, StartAtStep
<1>9. ActiveIsRecording'
  BY DEF StartFails, IInv, ActiveIsRecording, StartAtStep
<1>10. StopAtStep'
  BY SessionAssumption
    DEF StartFails, Return, ReleaseStart, IInv, StopAtStep, StartAtStep, Stopping, Captured
<1>11. BundlesAreOfCaptures'
  BY DEF StartFails, IInv, BundlesAreOfCaptures, TypeOK, GateIsHeld, Captured
<1>12. QED
  BY <1>1, <1>2, <1>3, <1>4, <1>5, <1>6, <1>7, <1>8, <1>9, <1>10, <1>11 DEF IInv

(* The start that succeeded saves the manifest and returns. *)
LEMMA SaveStartedKeeps ==
  ASSUME IInv, NEW s \in Starter, SaveStarted(s)
  PROVE  IInv'
<1>1. (RecordersAreKnown)'
  BY DEF SaveStarted, IInv, RecordersAreKnown
<1>2. TypeOK'
  BY DEF SaveStarted, Return, ReleaseStart, IInv, TypeOK, Places, StartOwnsMeeting, Thread
<1>3. Places'
  BY DEF SaveStarted, Return, IInv, Places
<1>4. GateIsHeld'
  BY DEF SaveStarted, Return, ReleaseStart, IInv, GateIsHeld, TypeOK, Places, StartOwnsMeeting
<1>5. StartOwnsMeeting'
  BY DEF SaveStarted, Return, ReleaseStart, IInv, StartOwnsMeeting, TypeOK, StartSteps
<1>6. StartAtStep'
  BY DEF SaveStarted, Return, IInv, StartAtStep, TypeOK, StartSteps
<1>7. ControlIsLaunching'
  BY DEF SaveStarted, IInv, ControlIsLaunching, TypeOK, GateIsHeld
<1>8. UnusedIsFresh'
  BY DEF SaveStarted, IInv, UnusedIsFresh, Places, StartOwnsMeeting
<1>9. ActiveIsRecording'
  BY DEF SaveStarted, IInv, ActiveIsRecording
<1>10. StopAtStep'
  BY DEF SaveStarted, Return, ReleaseStart, IInv, StopAtStep, Places, StartOwnsMeeting
<1>11. BundlesAreOfCaptures'
  BY DEF SaveStarted, IInv, BundlesAreOfCaptures, GateIsHeld, StartAtStep
<1>12. QED
  BY <1>1, <1>2, <1>3, <1>4, <1>5, <1>6, <1>7, <1>8, <1>9, <1>10, <1>11 DEF IInv

(* A start that fails after the recorder started leaves it active. *)
LEMMA FailAfterStartedKeeps ==
  ASSUME IInv, NEW s \in Starter, FailAfterStarted(s)
  PROVE  IInv'
<1>1. (UnusedIsFresh /\ RecordersAreKnown /\ ActiveIsRecording)'
  BY DEF FailAfterStarted, bundles, IInv, UnusedIsFresh, RecordersAreKnown, ActiveIsRecording
<1>2. TypeOK'
  BY DEF FailAfterStarted, Return, ReleaseStart, bundles, IInv, TypeOK, Places,
         StartOwnsMeeting, Thread
<1>3. Places'
  BY DEF FailAfterStarted, Return, IInv, Places
<1>4. GateIsHeld'
  BY DEF FailAfterStarted, Return, ReleaseStart, IInv, GateIsHeld, TypeOK, Places,
         StartOwnsMeeting
<1>5. StartOwnsMeeting'
  BY DEF FailAfterStarted, Return, ReleaseStart, bundles, IInv, StartOwnsMeeting, TypeOK,
         StartSteps
<1>6. StartAtStep'
  BY DEF FailAfterStarted, Return, bundles, IInv, StartAtStep, TypeOK, StartSteps
<1>7. ControlIsLaunching'
  BY DEF FailAfterStarted, IInv, ControlIsLaunching, TypeOK, GateIsHeld
<1>8. StopAtStep'
  BY DEF FailAfterStarted, Return, ReleaseStart, IInv, StopAtStep, Places, StartOwnsMeeting
<1>9. BundlesAreOfCaptures'
  BY DEF FailAfterStarted, bundles, IInv, BundlesAreOfCaptures, GateIsHeld
<1>10. QED
  BY <1>1, <1>2, <1>3, <1>4, <1>5, <1>6, <1>7, <1>8, <1>9 DEF IInv

(* A stop reads which meeting is active. *)
LEMMA ReadActiveKeeps ==
  ASSUME IInv, NEW t \in Stopping, ReadActive(t)
  PROVE  IInv'
<1>1. (UnusedIsFresh /\ RecordersAreKnown /\ ActiveIsRecording)'
  BY DEF ReadActive, controller, bundles, IInv, UnusedIsFresh, RecordersAreKnown,
         ActiveIsRecording
<1>2. TypeOK'
  BY DEF ReadActive, controller, bundles, IInv, TypeOK, Thread, Stopping, StopSteps
<1>3. Places'
  BY SessionAssumption DEF ReadActive, IInv, Places, Stopping, StartSteps
<1>4. GateIsHeld'
  BY SessionAssumption DEF ReadActive, controller, IInv, GateIsHeld, Stopping
<1>5. StartOwnsMeeting'
  BY DEF ReadActive, bundles, IInv, StartOwnsMeeting, StartSteps
<1>6. StartAtStep'
  BY DEF ReadActive, controller, bundles, IInv, StartAtStep, StartSteps
<1>7. ControlIsLaunching'
  BY DEF ReadActive, controller, IInv, ControlIsLaunching
<1>8. StopAtStep'
  BY DEF ReadActive, controller, IInv, StopAtStep, TypeOK, ActiveIsRecording
<1>9. BundlesAreOfCaptures'
  BY DEF ReadActive, controller, bundles, IInv, BundlesAreOfCaptures
<1>10. QED
  BY <1>1, <1>2, <1>3, <1>4, <1>5, <1>6, <1>7, <1>8, <1>9 DEF IInv

(* A stop takes the lock of the meeting it read. *)
LEMMA TakeLockKeeps ==
  ASSUME IInv, NEW t \in Stopping, TakeLock(t)
  PROVE  IInv'
<1>1. (UnusedIsFresh /\ RecordersAreKnown /\ ActiveIsRecording)'
  BY DEF TakeLock, controller, bundles, IInv, UnusedIsFresh, RecordersAreKnown,
         ActiveIsRecording
<1>2. TypeOK'
  BY DEF TakeLock, controller, bundles, IInv, TypeOK, StopAtStep, Thread, Stopping, StopSteps
<1>3. Places'
  BY DEF TakeLock, IInv, Places, StartSteps
<1>4. GateIsHeld'
  BY DEF TakeLock, controller, IInv, GateIsHeld
<1>5. StartOwnsMeeting'
  BY SessionAssumption DEF TakeLock, bundles, IInv, StartOwnsMeeting, Thread, Stopping
<1>6. StartAtStep'
  BY DEF TakeLock, controller, bundles, IInv, StartAtStep, Places
<1>7. ControlIsLaunching'
  BY DEF TakeLock, controller, IInv, ControlIsLaunching
<1>8. StopAtStep'
  BY SessionAssumption
    DEF TakeLock, controller, IInv, StopAtStep, TypeOK, Places, Thread, Stopping
<1>9. BundlesAreOfCaptures'
  BY DEF TakeLock, controller, bundles, IInv, BundlesAreOfCaptures
<1>10. QED
  BY <1>1, <1>2, <1>3, <1>4, <1>5, <1>6, <1>7, <1>8, <1>9 DEF IInv

(* A stop that waited too long for the lock gives up. *)
LEMMA LockTimeoutKeeps ==
  ASSUME IInv, NEW t \in Stopping, LockTimeout(t)
  PROVE  IInv'
<1>1. (UnusedIsFresh /\ RecordersAreKnown /\ ActiveIsRecording)'
  BY DEF LockTimeout, controller, bundles, IInv, UnusedIsFresh, RecordersAreKnown,
         ActiveIsRecording
<1>2. TypeOK'
  BY DEF LockTimeout, Raise, Return, controller, bundles, IInv, TypeOK
<1>3. Places'
  BY DEF LockTimeout, Raise, Return, IInv, Places, TypeOK, Thread, Stopping, StartSteps
<1>4. GateIsHeld'
  BY DEF LockTimeout, Raise, Return, controller, IInv, GateIsHeld, TypeOK, Thread
<1>5. StartOwnsMeeting'
  BY SessionAssumption
    DEF LockTimeout, Raise, Return, bundles, IInv, StartOwnsMeeting, TypeOK, Thread, Stopping
<1>6. StartAtStep'
  BY SessionAssumption
    DEF LockTimeout, Raise, Return, controller, bundles, IInv, StartAtStep, TypeOK, Thread,
        Stopping
<1>7. ControlIsLaunching'
  BY DEF LockTimeout, Raise, Return, controller, IInv, ControlIsLaunching, TypeOK, Places,
         StartOwnsMeeting
<1>8. StopAtStep'
  BY DEF LockTimeout, Raise, Return, controller, IInv, StopAtStep, TypeOK, Thread, Stopping,
         StopSteps
<1>9. BundlesAreOfCaptures'
  BY DEF LockTimeout, Raise, Return, controller, bundles, IInv, BundlesAreOfCaptures, TypeOK,
         Thread
<1>10. QED
  BY <1>1, <1>2, <1>3, <1>4, <1>5, <1>6, <1>7, <1>8, <1>9 DEF IInv

(* A stop that finds no bundle gives up. *)
LEMMA BundleGoneKeeps ==
  ASSUME IInv, NEW t \in Stopping, BundleGone(t)
  PROVE  IInv'
<1>1. (UnusedIsFresh /\ RecordersAreKnown /\ ActiveIsRecording)'
  BY DEF BundleGone, controller, bundles, IInv, UnusedIsFresh, RecordersAreKnown,
         ActiveIsRecording
<1>2. TypeOK'
  BY DEF BundleGone, Raise, Unlock, Return, controller, bundles, IInv, TypeOK, StopAtStep,
         Thread, Stopping, StartSteps
<1>3. Places'
  BY DEF BundleGone, Raise, Return, IInv, Places, TypeOK, Thread, Stopping, StartSteps
<1>4. GateIsHeld'
  BY DEF BundleGone, Raise, Return, controller, IInv, GateIsHeld, TypeOK, Thread
<1>5. StartOwnsMeeting'
  BY DEF BundleGone, Raise, Unlock, Return, bundles, IInv, StartOwnsMeeting, TypeOK, Places,
         StopAtStep, Thread, Stopping
<1>6. StartAtStep'
  BY DEF BundleGone, Raise, Return, controller, bundles, IInv, StartAtStep, TypeOK, Places,
         Thread
<1>7. ControlIsLaunching'
  BY DEF BundleGone, Raise, Return, controller, IInv, ControlIsLaunching, TypeOK, Thread
<1>8. StopAtStep'
  BY DEF BundleGone, Raise, Unlock, Return, controller, IInv, StopAtStep, TypeOK, Thread,
         Stopping, StopSteps
<1>9. BundlesAreOfCaptures'
  BY DEF BundleGone, Raise, Return, controller, bundles, IInv, BundlesAreOfCaptures, TypeOK,
         Thread
<1>10. QED
  BY <1>1, <1>2, <1>3, <1>4, <1>5, <1>6, <1>7, <1>8, <1>9 DEF IInv

(* A stop ends the active recorder: its meeting is no longer active. *)
LEMMA StopRecorderKeeps ==
  ASSUME IInv, NEW t \in Stopping, StopRecorder(t)
  PROVE  IInv'
<1>1. TypeOK'
  BY DEF StopRecorder, Cleanup, bundles, IInv, TypeOK, Thread, Stopping, Captured, StopSteps
<1>2. Places'
  BY DEF StopRecorder, IInv, Places, StartSteps
<1>3. GateIsHeld'
  BY DEF StopRecorder, Cleanup, IInv, GateIsHeld
<1>4. StartOwnsMeeting'
  BY DEF StopRecorder, bundles, IInv, StartOwnsMeeting, Places
<1>5. StartAtStep'
  BY SessionAssumption DEF StopRecorder, bundles, IInv, StartAtStep, Stopping, Captured
<1>6. ControlIsLaunching'
  BY DEF StopRecorder, Cleanup, ControlIsLaunching
<1>7. UnusedIsFresh'
  BY DEF StopRecorder, bundles, IInv, UnusedIsFresh
<1>8. RecordersAreKnown'
  BY DEF StopRecorder, IInv, RecordersAreKnown, TypeOK
<1>9. ActiveIsRecording'
  BY DEF StopRecorder, Cleanup, ActiveIsRecording
<1>10. StopAtStep'
  BY SessionAssumption
    DEF StopRecorder, Cleanup, IInv, StopAtStep, TypeOK, Places, Thread, Stopping, Captured
<1>11. BundlesAreOfCaptures'
  BY DEF StopRecorder, bundles, IInv, BundlesAreOfCaptures, Captured
<1>12. QED
  BY <1>1, <1>2, <1>3, <1>4, <1>5, <1>6, <1>7, <1>8, <1>9, <1>10, <1>11 DEF IInv

(* A recorder that will not stop in order is not active any more. *)
LEMMA StopFailsKeeps ==
  ASSUME IInv, NEW t \in Stopping, StopFails(t)
  PROVE  IInv'
<1>1. TypeOK'
  BY DEF StopFails, Cleanup, bundles, IInv, TypeOK, Thread, Stopping, Captured, StopSteps
<1>2. Places'
  BY DEF StopFails, IInv, Places, StartSteps
<1>3. GateIsHeld'
  BY DEF StopFails, Cleanup, IInv, GateIsHeld
<1>4. StartOwnsMeeting'
  BY DEF StopFails, bundles, IInv, StartOwnsMeeting, Places
<1>5. StartAtStep'
  BY SessionAssumption DEF StopFails, bundles, IInv, StartAtStep, Stopping, Captured
<1>6. ControlIsLaunching'
  BY DEF StopFails, Cleanup, ControlIsLaunching
<1>7. UnusedIsFresh'
  BY DEF StopFails, bundles, IInv, UnusedIsFresh
<1>8. RecordersAreKnown'
  BY DEF StopFails, IInv, RecordersAreKnown, TypeOK
<1>9. ActiveIsRecording'
  BY DEF StopFails, Cleanup, ActiveIsRecording
<1>10. StopAtStep'
  BY SessionAssumption
    DEF StopFails, Cleanup, IInv, StopAtStep, TypeOK, Places, Thread, Stopping, Captured
<1>11. BundlesAreOfCaptures'
  BY DEF StopFails, bundles, IInv, BundlesAreOfCaptures, Captured
<1>12. QED
  BY <1>1, <1>2, <1>3, <1>4, <1>5, <1>6, <1>7, <1>8, <1>9, <1>10, <1>11 DEF IInv

(* A stop finds no recording any more. *)
LEMMA NothingToStopKeeps ==
  ASSUME IInv, NEW t \in Stopping, NothingToStop(t)
  PROVE  IInv'
<1>1. (UnusedIsFresh /\ RecordersAreKnown /\ ActiveIsRecording)'
  BY DEF NothingToStop, controller, bundles, IInv, UnusedIsFresh, RecordersAreKnown,
         ActiveIsRecording
<1>2. TypeOK'
  BY DEF NothingToStop, controller, bundles, IInv, TypeOK, Thread, Stopping, StopSteps
<1>3. Places'
  BY DEF NothingToStop, IInv, Places, StartSteps
<1>4. GateIsHeld'
  BY DEF NothingToStop, controller, IInv, GateIsHeld
<1>5. StartOwnsMeeting'
  BY DEF NothingToStop, bundles, IInv, StartOwnsMeeting, Places
<1>6. StartAtStep'
  BY DEF NothingToStop, controller, bundles, IInv, StartAtStep, Places
<1>7. ControlIsLaunching'
  BY DEF NothingToStop, controller, IInv, ControlIsLaunching
<1>8. StopAtStep'
  BY SessionAssumption DEF NothingToStop, controller, IInv, StopAtStep, TypeOK, Places
<1>9. BundlesAreOfCaptures'
  BY DEF NothingToStop, controller, bundles, IInv, BundlesAreOfCaptures
<1>10. QED
  BY <1>1, <1>2, <1>3, <1>4, <1>5, <1>6, <1>7, <1>8, <1>9 DEF IInv

(* A stop writes that its meeting was recorded. *)
LEMMA MarkRecordedKeeps ==
  ASSUME IInv, NEW t \in Stopping, MarkRecorded(t)
  PROVE  IInv'
<1>1. (RecordersAreKnown)'
  BY DEF MarkRecorded, controller, IInv, RecordersAreKnown
<1>2. TypeOK'
  BY DEF MarkRecorded, controller, IInv, TypeOK, StopAtStep, Thread, Stopping, StopSteps
<1>3. Places'
  BY DEF MarkRecorded, IInv, Places, StartSteps
<1>4. GateIsHeld'
  BY DEF MarkRecorded, controller, IInv, GateIsHeld
<1>5. StartOwnsMeeting'
  BY DEF MarkRecorded, IInv, StartOwnsMeeting, Places
<1>6. StartAtStep'
  BY DEF MarkRecorded, controller, IInv, StartAtStep, TypeOK, StartOwnsMeeting, StopAtStep,
         Thread, Stopping, StartSteps
<1>7. ControlIsLaunching'
  BY DEF MarkRecorded, controller, IInv, ControlIsLaunching
<1>8. UnusedIsFresh'
  BY SessionAssumption
    DEF MarkRecorded, controller, IInv, UnusedIsFresh, TypeOK, StopAtStep, BundlesAreOfCaptures
<1>9. ActiveIsRecording'
  BY DEF MarkRecorded, controller, IInv, ActiveIsRecording, StopAtStep
<1>10. StopAtStep'
  BY DEF MarkRecorded, controller, IInv, StopAtStep, TypeOK, Places
<1>11. BundlesAreOfCaptures'
  BY SessionAssumption DEF MarkRecorded, controller, IInv, BundlesAreOfCaptures, StopAtStep
<1>12. QED
  BY <1>1, <1>2, <1>3, <1>4, <1>5, <1>6, <1>7, <1>8, <1>9, <1>10, <1>11 DEF IInv

(* A stop writes that its meeting failed. *)
LEMMA MarkFailedKeeps ==
  ASSUME IInv, NEW t \in Stopping, MarkFailed(t)
  PROVE  IInv'
<1>1. (RecordersAreKnown)'
  BY DEF MarkFailed, controller, IInv, RecordersAreKnown
<1>2. TypeOK'
  BY DEF MarkFailed, Raise, Unlock, Return, controller, IInv, TypeOK, StopAtStep, StopSteps
<1>3. Places'
  BY DEF MarkFailed, Raise, Return, IInv, Places, TypeOK, Thread, Stopping, StartSteps
<1>4. GateIsHeld'
  BY DEF MarkFailed, Raise, Return, controller, IInv, GateIsHeld, TypeOK, Thread
<1>5. StartOwnsMeeting'
  BY DEF MarkFailed, Raise, Unlock, Return, IInv, StartOwnsMeeting, TypeOK, StopAtStep, Thread,
         StartSteps, StopSteps
<1>6. StartAtStep'
  BY DEF MarkFailed, Raise, Return, controller, IInv, StartAtStep, TypeOK, Places,
         StartOwnsMeeting, StopAtStep, Thread, Stopping
<1>7. ControlIsLaunching'
  BY DEF MarkFailed, Raise, Return, controller, IInv, ControlIsLaunching, TypeOK, Places,
         StartOwnsMeeting
<1>8. UnusedIsFresh'
  BY SessionAssumption
    DEF MarkFailed, controller, IInv, UnusedIsFresh, TypeOK, StopAtStep, BundlesAreOfCaptures
<1>9. ActiveIsRecording'
  BY DEF MarkFailed, controller, IInv, ActiveIsRecording, StopAtStep
<1>10. StopAtStep'
  BY DEF MarkFailed, Raise, Unlock, Return, controller, IInv, StopAtStep, TypeOK, Thread,
         Stopping, StopSteps
<1>11. BundlesAreOfCaptures'
  BY SessionAssumption
    DEF MarkFailed, Raise, Return, controller, IInv, BundlesAreOfCaptures, TypeOK, StopAtStep,
        Thread
<1>12. QED
  BY <1>1, <1>2, <1>3, <1>4, <1>5, <1>6, <1>7, <1>8, <1>9, <1>10, <1>11 DEF IInv

(* A stop that fails in between leaves the manifest as it is. *)
LEMMA UnexpectedKeeps ==
  ASSUME IInv, NEW t \in Stopping, Unexpected(t)
  PROVE  IInv'
<1>1. (UnusedIsFresh /\ RecordersAreKnown /\ ActiveIsRecording)'
  BY DEF Unexpected, controller, bundles, IInv, UnusedIsFresh, RecordersAreKnown,
         ActiveIsRecording
<1>2. TypeOK'
  BY DEF Unexpected, Raise, Unlock, Return, controller, bundles, IInv, TypeOK, StopAtStep,
         Thread, Stopping, StartSteps
<1>3. Places'
  BY DEF Unexpected, Raise, Return, IInv, Places, TypeOK, Thread, Stopping, StartSteps
<1>4. GateIsHeld'
  BY DEF Unexpected, Raise, Return, controller, IInv, GateIsHeld, TypeOK, Thread
<1>5. StartOwnsMeeting'
  BY DEF Unexpected, Raise, Unlock, Return, bundles, IInv, StartOwnsMeeting, TypeOK, Places,
         StopAtStep, Thread, Stopping
<1>6. StartAtStep'
  BY DEF Unexpected, Raise, Return, controller, bundles, IInv, StartAtStep, TypeOK, Places,
         Thread
<1>7. ControlIsLaunching'
  BY DEF Unexpected, Raise, Return, controller, IInv, ControlIsLaunching, TypeOK, Thread
<1>8. StopAtStep'
  BY DEF Unexpected, Raise, Unlock, Return, controller, IInv, StopAtStep, TypeOK, Thread,
         Stopping, StopSteps
<1>9. BundlesAreOfCaptures'
  BY DEF Unexpected, Raise, Return, controller, bundles, IInv, BundlesAreOfCaptures, TypeOK,
         Thread
<1>10. QED
  BY <1>1, <1>2, <1>3, <1>4, <1>5, <1>6, <1>7, <1>8, <1>9 DEF IInv

(* A stop asks for the meeting to be processed. *)
LEMMA EnqueueKeeps ==
  ASSUME IInv, NEW t \in Stopping, Enqueue(t)
  PROVE  IInv'
<1>1. (UnusedIsFresh /\ RecordersAreKnown /\ ActiveIsRecording)'
  BY DEF Enqueue, controller, IInv, UnusedIsFresh, RecordersAreKnown, ActiveIsRecording
<1>2. TypeOK'
  BY DEF Enqueue, Finish, Unlock, Return, controller, IInv, TypeOK, StopAtStep, StopSteps
<1>3. Places'
  BY DEF Enqueue, Finish, Return, IInv, Places, TypeOK, Thread, Stopping, StartSteps
<1>4. GateIsHeld'
  BY DEF Enqueue, Finish, Return, controller, IInv, GateIsHeld, TypeOK, Thread
<1>5. StartOwnsMeeting'
  BY DEF Enqueue, Finish, Unlock, Return, IInv, StartOwnsMeeting, TypeOK, StopAtStep, Thread,
         StartSteps, StopSteps
<1>6. StartAtStep'
  BY SessionAssumption
    DEF Enqueue, Finish, Return, controller, IInv, StartAtStep, TypeOK, Thread, Stopping
<1>7. ControlIsLaunching'
  BY DEF Enqueue, Finish, Return, controller, IInv, ControlIsLaunching, TypeOK, Places,
         StartOwnsMeeting
<1>8. StopAtStep'
  BY DEF Enqueue, Finish, Unlock, Return, controller, IInv, StopAtStep, TypeOK, Thread,
         Stopping, StopSteps
<1>9. BundlesAreOfCaptures'
  BY DEF Enqueue, Finish, Return, controller, IInv, BundlesAreOfCaptures, TypeOK, Thread
<1>10. QED
  BY <1>1, <1>2, <1>3, <1>4, <1>5, <1>6, <1>7, <1>8, <1>9 DEF IInv

(* A stop ends without a job. *)
LEMMA SkipJobKeeps ==
  ASSUME IInv, NEW t \in Stopping, SkipJob(t)
  PROVE  IInv'
<1>1. (UnusedIsFresh /\ RecordersAreKnown /\ ActiveIsRecording)'
  BY DEF SkipJob, controller, bundles, IInv, UnusedIsFresh, RecordersAreKnown, ActiveIsRecording
<1>2. TypeOK'
  BY DEF SkipJob, Finish, Unlock, Return, controller, bundles, IInv, TypeOK, StopAtStep, Thread,
         Stopping, StartSteps
<1>3. Places'
  BY DEF SkipJob, Finish, Return, IInv, Places, TypeOK, Thread, Stopping, StartSteps
<1>4. GateIsHeld'
  BY DEF SkipJob, Finish, Return, controller, IInv, GateIsHeld, TypeOK, Thread
<1>5. StartOwnsMeeting'
  BY DEF SkipJob, Finish, Unlock, Return, bundles, IInv, StartOwnsMeeting, TypeOK, Places,
         StopAtStep, Thread, Stopping
<1>6. StartAtStep'
  BY DEF SkipJob, Finish, Return, controller, bundles, IInv, StartAtStep, TypeOK, Places, Thread
<1>7. ControlIsLaunching'
  BY DEF SkipJob, Finish, Return, controller, IInv, ControlIsLaunching, TypeOK, Thread
<1>8. StopAtStep'
  BY DEF SkipJob, Finish, Unlock, Return, controller, IInv, StopAtStep, TypeOK, Thread,
         Stopping, StopSteps
<1>9. BundlesAreOfCaptures'
  BY DEF SkipJob, Finish, Return, controller, bundles, IInv, BundlesAreOfCaptures, TypeOK,
         Thread
<1>10. QED
  BY <1>1, <1>2, <1>3, <1>4, <1>5, <1>6, <1>7, <1>8, <1>9 DEF IInv

(* The closing thread finds nothing to stop. *)
LEMMA NothingActiveKeeps ==
  ASSUME IInv, NothingActive
  PROVE  IInv'
<1>1. (UnusedIsFresh /\ RecordersAreKnown /\ ActiveIsRecording)'
  BY DEF NothingActive, controller, bundles, IInv, UnusedIsFresh, RecordersAreKnown,
         ActiveIsRecording
<1>2. TypeOK'
  BY DEF NothingActive, Raise, controller, bundles, IInv, TypeOK
<1>3. Places'
  BY DEF NothingActive, Raise, IInv, Places, TypeOK, Thread, Stopping, StartSteps
<1>4. GateIsHeld'
  BY DEF NothingActive, Raise, controller, IInv, GateIsHeld, TypeOK, Thread
<1>5. StartOwnsMeeting'
  BY SessionAssumption DEF NothingActive, Raise, bundles, IInv, StartOwnsMeeting, TypeOK, Thread
<1>6. StartAtStep'
  BY SessionAssumption
    DEF NothingActive, Raise, controller, bundles, IInv, StartAtStep, TypeOK, Thread
<1>7. ControlIsLaunching'
  BY DEF NothingActive, Raise, controller, IInv, ControlIsLaunching, TypeOK, Places,
         StartOwnsMeeting
<1>8. StopAtStep'
  BY DEF NothingActive, Raise, controller, IInv, StopAtStep, TypeOK, Thread, Stopping, StopSteps
<1>9. BundlesAreOfCaptures'
  BY DEF NothingActive, Raise, controller, bundles, IInv, BundlesAreOfCaptures, TypeOK, Thread
<1>10. QED
  BY <1>1, <1>2, <1>3, <1>4, <1>5, <1>6, <1>7, <1>8, <1>9 DEF IInv

(* The server closes. *)
LEMMA CloseKeeps ==
  ASSUME IInv, Close
  PROVE  IInv'
<1>1. (UnusedIsFresh /\ RecordersAreKnown /\ ActiveIsRecording)'
  BY DEF Close, controller, bundles, IInv, UnusedIsFresh, RecordersAreKnown, ActiveIsRecording
<1>2. TypeOK'
  BY DEF Close, controller, bundles, IInv, TypeOK, Thread
<1>3. Places'
  BY SessionAssumption DEF Close, IInv, Places, StartSteps
<1>4. GateIsHeld'
  BY SessionAssumption DEF Close, controller, IInv, GateIsHeld
<1>5. StartOwnsMeeting'
  BY SessionAssumption DEF Close, bundles, IInv, StartOwnsMeeting
<1>6. StartAtStep'
  BY SessionAssumption DEF Close, controller, bundles, IInv, StartAtStep
<1>7. ControlIsLaunching'
  BY DEF Close, controller, IInv, ControlIsLaunching
<1>8. StopAtStep'
  BY DEF Close, controller, IInv, StopAtStep, StopSteps
<1>9. BundlesAreOfCaptures'
  BY DEF Close, controller, bundles, IInv, BundlesAreOfCaptures
<1>10. QED
  BY <1>1, <1>2, <1>3, <1>4, <1>5, <1>6, <1>7, <1>8, <1>9 DEF IInv

(* The server gives up waiting and ends the recorder. *)
LEMMA AbortKeeps ==
  ASSUME IInv, NEW final \in {"ended", "lost"}, Abort(final)
  PROVE  IInv'
<1>1. TypeOK'
  BY DEF Abort, Cleanup, bundles, IInv, TypeOK, Thread, Captured
<1>2. Places'
  BY DEF Abort, IInv, Places, StartSteps
<1>3. GateIsHeld'
  BY DEF Abort, Cleanup, IInv, GateIsHeld
<1>4. StartOwnsMeeting'
  BY SessionAssumption DEF Abort, bundles, IInv, StartOwnsMeeting
<1>5. StartAtStep'
  BY SessionAssumption DEF Abort, Cleanup, bundles, IInv, StartAtStep, Thread, Captured
<1>6. ControlIsLaunching'
  BY DEF Abort, Cleanup, ControlIsLaunching
<1>7. UnusedIsFresh'
  BY DEF Abort, bundles, IInv, UnusedIsFresh
<1>8. RecordersAreKnown'
  BY SessionAssumption DEF Abort, IInv, RecordersAreKnown, TypeOK, ControlIsLaunching
<1>9. ActiveIsRecording'
  BY DEF Abort, Cleanup, ActiveIsRecording
<1>10. StopAtStep'
  BY SessionAssumption DEF Abort, Cleanup, IInv, StopAtStep, Captured, StopSteps
<1>11. BundlesAreOfCaptures'
  BY DEF Abort, bundles, IInv, BundlesAreOfCaptures, Captured
<1>12. QED
  BY <1>1, <1>2, <1>3, <1>4, <1>5, <1>6, <1>7, <1>8, <1>9, <1>10, <1>11 DEF IInv

(* A recorder may exit by itself at any time. *)
LEMMA RecorderExitsKeeps ==
  ASSUME IInv, NEW m \in Meeting, RecorderExits(m)
  PROVE  IInv'
<1>1. (Places /\ GateIsHeld /\ StartOwnsMeeting /\ ControlIsLaunching)'
  BY DEF RecorderExits, bundles, IInv, Places, GateIsHeld, StartOwnsMeeting, ControlIsLaunching
<1>2. TypeOK'
  BY DEF RecorderExits, bundles, IInv, TypeOK, Captured
<1>3. StartAtStep'
  BY DEF RecorderExits, bundles, IInv, StartAtStep, Captured
<1>4. UnusedIsFresh'
  BY DEF RecorderExits, bundles, IInv, UnusedIsFresh
<1>5. RecordersAreKnown'
  BY DEF RecorderExits, IInv, RecordersAreKnown
<1>6. ActiveIsRecording'
  BY DEF RecorderExits, bundles, IInv, ActiveIsRecording, Captured
<1>7. StopAtStep'
  BY DEF RecorderExits, IInv, StopAtStep, Captured
<1>8. BundlesAreOfCaptures'
  BY DEF RecorderExits, bundles, IInv, BundlesAreOfCaptures, Captured
<1>9. QED
  BY <1>1, <1>2, <1>3, <1>4, <1>5, <1>6, <1>7, <1>8 DEF IInv

(* A meeting that is not active is deleted under its lock. *)
LEMMA DeleteMeetingKeeps ==
  ASSUME IInv, NEW m \in Meeting, DeleteMeeting(m)
  PROVE  IInv'
<1>1. (/\ Places /\ GateIsHeld /\ StartOwnsMeeting
       /\ ControlIsLaunching /\ RecordersAreKnown /\ StopAtStep)'
  BY DEF DeleteMeeting, controller, IInv, Places, GateIsHeld, StartOwnsMeeting,
         ControlIsLaunching, RecordersAreKnown, StopAtStep
<1>2. TypeOK'
  BY DEF DeleteMeeting, controller, IInv, TypeOK
<1>3. StartAtStep'
  BY SessionAssumption
    DEF DeleteMeeting, controller, IInv, StartAtStep, StartOwnsMeeting, Thread
<1>4. UnusedIsFresh'
  BY DEF DeleteMeeting, controller, IInv, UnusedIsFresh
<1>5. ActiveIsRecording'
  BY DEF DeleteMeeting, controller, IInv, ActiveIsRecording
<1>6. BundlesAreOfCaptures'
  BY DEF DeleteMeeting, controller, IInv, BundlesAreOfCaptures
<1>7. QED
  BY <1>1, <1>2, <1>3, <1>4, <1>5, <1>6 DEF IInv

(* A recorder at work is the controller's, and its meeting has a bundle. *)
LEMMA Safe == IInv => NoStrayRecorder
  BY SessionAssumption
    DEF NoStrayRecorder, IInv, TypeOK, StartAtStep, ControlIsLaunching, RecordersAreKnown,
        ActiveIsRecording, Alive, StartSteps

(* A step of a call that starts a recording keeps the invariant. *)
LEMMA StartStepKeeps ==
  ASSUME IInv, NEW s \in Starter, StartStep(s)
  PROVE  IInv'
<1>1. CASE LeaveSideOperation(s) \/ RefuseStart(s) \/ CreateBundle(s)
  BY <1>1, LeaveSideOperationKeeps, RefuseStartKeeps, CreateBundleKeeps
<1>2. CASE Launch(s) \/ LaunchFails(s) \/ Started(s) \/ StartFails(s)
  BY <1>2, LaunchKeeps, LaunchFailsKeeps, StartedKeeps, StartFailsKeeps
<1>3. CASE SaveStarted(s) \/ FailAfterStarted(s)
  BY <1>3, SaveStartedKeeps, FailAfterStartedKeeps
<1> QED
  BY <1>1, <1>2, <1>3 DEF StartStep

(* A step of a call that stops one does, the closing thread's included. *)
LEMMA StopStepKeeps ==
  ASSUME IInv, NEW t \in Stopping, StopStep(t)
  PROVE  IInv'
<1>1. CASE TakeLock(t) \/ LockTimeout(t) \/ BundleGone(t)
  BY <1>1, TakeLockKeeps, LockTimeoutKeeps, BundleGoneKeeps
<1>2. CASE StopRecorder(t) \/ StopFails(t) \/ NothingToStop(t)
  BY <1>2, StopRecorderKeeps, StopFailsKeeps, NothingToStopKeeps
<1>3. CASE MarkRecorded(t) \/ MarkFailed(t) \/ Unexpected(t)
  BY <1>3, MarkRecordedKeeps, MarkFailedKeeps, UnexpectedKeeps
<1>4. CASE Enqueue(t) \/ SkipJob(t)
  BY <1>4, EnqueueKeeps, SkipJobKeeps
<1> QED
  BY <1>1, <1>2, <1>3, <1>4 DEF StopStep

(* Steps of other modules change nothing here. *)
LEMMA StutterKeeps ==
  ASSUME IInv, UNCHANGED vars
  PROVE  IInv'
<1> USE DEF vars, controller, bundles
<1>1. (TypeOK /\ Places /\ GateIsHeld /\ StartOwnsMeeting /\ StartAtStep)'
  BY DEF IInv, TypeOK, Places, GateIsHeld, StartOwnsMeeting, StartAtStep
<1>2. (ControlIsLaunching /\ UnusedIsFresh /\ RecordersAreKnown /\ ActiveIsRecording)'
  BY DEF IInv, ControlIsLaunching, UnusedIsFresh, RecordersAreKnown, ActiveIsRecording
<1>3. (StopAtStep /\ BundlesAreOfCaptures)'
  BY DEF IInv, StopAtStep, BundlesAreOfCaptures
<1> QED
  BY <1>1, <1>2, <1>3 DEF IInv

(* Every step keeps the invariant. *)
LEMMA NextKeeps == IInv /\ [Next]_vars => IInv'
<1> SUFFICES ASSUME IInv, [Next]_vars PROVE IInv'
  OBVIOUS
<1>1. ASSUME NEW s \in Starter,
             (\E m \in Meeting : Reserve(s, m)) \/ EnterSideOperation(s) \/ StartStep(s)
      PROVE  IInv'
  BY <1>1, ReserveKeeps, EnterSideOperationKeeps, StartStepKeeps
<1>2. ASSUME NEW t \in Stopping, ReadActive(t) \/ StopStep(t)
      PROVE  IInv'
  BY <1>2, ReadActiveKeeps, StopStepKeeps
<1>3. CASE Close \/ NothingActive \/ \E final \in {"ended", "lost"} : Abort(final)
  BY <1>3, CloseKeeps, NothingActiveKeeps, AbortKeeps
<1>4. ASSUME NEW m \in Meeting, RecorderExits(m) \/ DeleteMeeting(m)
      PROVE  IInv'
  BY <1>4, RecorderExitsKeeps, DeleteMeetingKeeps
<1> QED
  BY <1>1, <1>2, <1>3, <1>4, StutterKeeps DEF Next, CloseStep, Stopping

(***************************************************************************)
(* Theorems                                                                *)
(***************************************************************************)
(* The invariant holds in every reachable state. *)
THEOREM Invariance == Spec => []IInv
  BY InitInv, NextKeeps, PTL DEF Spec

(* Gate, controller, locks, manifests and calls keep their types. *)
THEOREM TypeCorrect == Spec => []TypeOK
<1>1. IInv => TypeOK
  BY DEF IInv
<1> QED
  BY <1>1, Invariance, PTL

(* No recorder process is ever left behind, and no other call touches the  *)
(* bundle of an active recording (RecordingController, start_recording,    *)
(* stop_recording, ServerContext.close, delete_meeting).                   *)
THEOREM RecordersAreNeverStray == Spec => []NoStrayRecorder
  BY Safe, Invariance, PTL

(* A bundle exists just for the recorders that reported `started`, or      *)
(* while a start is at work (start_recording's clean-up of a failed start).*)
THEOREM BundlesMatchCaptures == Spec => []BundlesAreOfCaptures
<1>1. IInv => BundlesAreOfCaptures
  BY DEF IInv
<1> QED
  BY <1>1, Invariance, PTL
=============================================================================
