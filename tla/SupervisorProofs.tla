-------------------------- MODULE SupervisorProofs --------------------------
(***************************************************************************)
(* Proofs about the helper process, for any set of tunnels and both kinds  *)
(* of backend.                                                             *)
(*                                                                         *)
(* DeviceIsActive speaks only of the phases in which the helper waits, so  *)
(* it is not inductive: the phases in between must say how far a start or  *)
(* a stop has got, and what an undo will find.                             *)
(***************************************************************************)
EXTENDS Supervisor, TLAPS

USE SupervisorAssumption

\* A start is under way only while nothing is on record; a stop, only while
\* something is; and the transient states belong to these phases.
PhaseInv ==
  /\ phase \in {"starting", "configuring", "rollback"} =>
       active = NoSpec /\ asked \in Specs /\ state = "Starting"
  /\ phase \in {"stopping", "clearing"} => active # NoSpec /\ state = "Stopping"
  /\ phase \in Waiting \cup {"cleaning"} => state \in {"Idle", "Running", "Failed"}
  /\ phase \in {"configuring"} => backend = "libwg"
  /\ phase \in {"clearing"} => backend # "libwg"

\* How the shipped backend and its device stand in every phase.
LibwgInv ==
  backend = "libwg" =>
    /\ phase \in Waiting \cup {"cleaning"} =>
         device = active /\ running = (active # NoSpec)
         /\ state = IF active = NoSpec THEN "Idle" ELSE "Running"
    /\ phase \in {"starting", "rollback"} => device = NoSpec /\ running = FALSE
    /\ phase = "configuring" => device = asked /\ running = FALSE
    /\ phase = "stopping" => device = active /\ running = TRUE

\* What any backend's device has in common while the state reads Running.
RunningInv ==
  phase \in Waiting \cup {"cleaning"} /\ state = "Running" =>
    active # NoSpec /\ device = active

IInv == TypeOK /\ PhaseInv /\ LibwgInv /\ RunningInv

LEMMA InitInv == Init => IInv
<1> SUFFICES ASSUME Init PROVE IInv
  OBVIOUS
<1> USE DEF Init, Waiting, Working
<1>1. TypeOK
  BY DEF TypeOK, NoAnswer, HelperState, AnswerKind
<1>2. PhaseInv /\ RunningInv
  BY DEF PhaseInv, RunningInv
<1>3. LibwgInv
  BY Zenon DEF LibwgInv
<1>4. QED
  BY <1>1, <1>2, <1>3 DEF IInv

(* What the shared fragments of the actions establish.                     *)

LEMMA RespondType ==
  ASSUME NEW kind \in AnswerKind, NEW spec \in Specs \cup {NoSpec}, Respond(kind, spec),
         active' \in Specs \cup {NoSpec}, state' \in HelperState
  PROVE  /\ phase' = "answering"
         /\ answer' \in [kind : AnswerKind, asked : Specs \cup {NoSpec},
                         tunnel : Specs \cup {NoSpec}, state : HelperState]
         /\ answer'.kind = kind /\ answer'.asked = spec /\ answer'.tunnel = active'
BY DEF Respond

LEMMA TurnInv == ASSUME IInv, phase \in Waiting, Turn PROVE IInv'
BY DEF IInv, TypeOK, PhaseInv, LibwgInv, RunningInv, Turn, NoAnswer, Waiting, Working,
       HelperState, AnswerKind

LEMMA ExitInv == ASSUME IInv, Exit PROVE IInv'
BY DEF IInv, TypeOK, PhaseInv, LibwgInv, RunningInv, Exit, Settle, NoAnswer, Waiting, Working,
       HelperState, AnswerKind

LEMMA ServeInv == ASSUME IInv, Serve PROVE IInv'
<1> USE DEF Waiting, Working
<1>1. ASSUME NEW kind \in {"hello", "status", "stats", "error"}, Inspect(kind)
      PROVE  IInv'
  <2>1. kind \in AnswerKind /\ active' = active /\ state' = state
    BY <1>1 DEF Inspect, svars, AnswerKind
  <2>2. TypeOK'
    BY <1>1, <2>1, RespondType DEF Inspect, IInv, TypeOK
  <2>3. QED
    BY <1>1, <2>1, <2>2 DEF Inspect, Respond, IInv, TypeOK, PhaseInv, LibwgInv, RunningInv
<1>2. ASSUME NEW s \in Specs, AlreadyActive(s)
      PROVE  IInv'
  <2>1. active' = active /\ state' = state
    BY <1>2 DEF AlreadyActive, svars
  <2>2. PICK kind \in AnswerKind : Respond(kind, s)
    BY <1>2 DEF AlreadyActive, AnswerKind
  <2>3. TypeOK'
    BY <1>2, <2>1, <2>2, RespondType DEF AlreadyActive, IInv, TypeOK
  <2>4. QED
    BY <1>2, <2>1, <2>2, <2>3
       DEF AlreadyActive, Respond, IInv, TypeOK, PhaseInv, LibwgInv, RunningInv
<1>3. ASSUME NEW s \in Specs, StartTunnel(s)
      PROVE  IInv'
  BY <1>3 DEF StartTunnel, IInv, TypeOK, PhaseInv, LibwgInv, RunningInv, HelperState
<1>4. CASE StopIdle
  <2>1. active' = NoSpec /\ state' = "Idle" /\ Respond("stopped", NoSpec)
    BY <1>4 DEF StopIdle, Settle
  <2>2. TypeOK'
    BY <1>4, <2>1, RespondType DEF StopIdle, IInv, TypeOK, HelperState, AnswerKind
  <2>3. QED
    BY <1>4, <2>1, <2>2
       DEF StopIdle, Respond, IInv, TypeOK, PhaseInv, LibwgInv, RunningInv
<1>5. CASE StopTunnel
  BY <1>5 DEF StopTunnel, IInv, TypeOK, PhaseInv, LibwgInv, RunningInv, HelperState
<1>6. CASE Cleanup
  BY <1>6 DEF Cleanup, IInv, TypeOK, PhaseInv, LibwgInv, RunningInv
<1>7. QED
  BY <1>1, <1>2, <1>3, <1>4, <1>5, <1>6 DEF Serve

LEMMA EndBackendType ==
  ASSUME TypeOK, NEW ok \in BOOLEAN, EndBackend(ok)
  PROVE  /\ running' \in BOOLEAN /\ device' \in Specs \cup {NoSpec}
         /\ backend = "libwg" =>
              ok /\ running' = FALSE /\ device' = IF running THEN NoSpec ELSE device
BY DEF TypeOK, EndBackend

LEMMA WorkInv == ASSUME IInv, Work PROVE IInv'
<1> USE DEF Waiting, Working
<1>1. CASE OpenDevice
  BY <1>1 DEF OpenDevice, IInv, TypeOK, PhaseInv, LibwgInv, RunningInv
<1>2. CASE ConfigureOk
  <2>1. /\ active' = asked /\ asked \in Specs /\ state' = "Running"
        /\ Respond("started", asked)
    BY <1>2 DEF ConfigureOk, BackendStarted, IInv, PhaseInv
  <2>2. TypeOK'
    BY <1>2, <2>1, RespondType DEF ConfigureOk, IInv, TypeOK, HelperState, AnswerKind
  <2>3. QED
    BY <1>2, <2>1, <2>2
       DEF ConfigureOk, Respond, IInv, TypeOK, PhaseInv, LibwgInv, RunningInv
<1>3. CASE ConfigureFailed
  BY <1>3 DEF ConfigureFailed, IInv, TypeOK, PhaseInv, LibwgInv, RunningInv
<1>4. CASE FallibleStart
  <2>1. asked \in Specs /\ active = NoSpec
    BY <1>4 DEF FallibleStart, IInv, PhaseInv
  <2>2. CASE device' = asked /\ BackendStarted
    <3>1. active' = asked /\ state' = "Running" /\ Respond("started", asked)
      BY <2>2 DEF BackendStarted
    <3>2. TypeOK'
      BY <1>4, <2>1, <2>2, <3>1, RespondType
         DEF FallibleStart, IInv, TypeOK, HelperState, AnswerKind
    <3>3. QED
      BY <1>4, <2>1, <2>2, <3>1, <3>2
         DEF FallibleStart, Respond, IInv, TypeOK, PhaseInv, LibwgInv, RunningInv
  <2>3. CASE /\ device' \in {device, asked}
             /\ phase' = "rollback"
             /\ UNCHANGED <<state, active, answer>>
    BY <1>4, <2>1, <2>3 DEF FallibleStart, IInv, TypeOK, PhaseInv, LibwgInv, RunningInv
  <2>4. QED
    BY <1>4, <2>2, <2>3 DEF FallibleStart
<1>5. ASSUME NEW ok \in BOOLEAN, Rollback(ok)
      PROVE  IInv'
  <2>1. active' = NoSpec /\ state' \in {"Idle", "Failed"} /\ (ok => state' = "Idle")
    BY <1>5 DEF Rollback, Settle
  <2>2. Respond("error", asked) /\ asked \in Specs
    BY <1>5 DEF Rollback, IInv, PhaseInv
  <2>3. TypeOK'
    BY <1>5, <2>1, <2>2, RespondType, EndBackendType
       DEF Rollback, IInv, TypeOK, HelperState, AnswerKind
  <2>4. QED
    BY <1>5, <2>1, <2>2, <2>3, EndBackendType
       DEF Rollback, Respond, IInv, TypeOK, PhaseInv, LibwgInv, RunningInv
<1>6. ASSUME NEW ok \in BOOLEAN, StopBackend(ok)
      PROVE  IInv'
  <2>1. CASE ok
    <3>1. active' = NoSpec /\ state' = "Idle" /\ Respond("stopped", NoSpec)
      BY <1>6, <2>1 DEF StopBackend, Settle
    <3>2. TypeOK'
      BY <1>6, <3>1, RespondType, EndBackendType
         DEF StopBackend, IInv, TypeOK, HelperState, AnswerKind
    <3>3. QED
      BY <1>6, <2>1, <3>1, <3>2, EndBackendType
         DEF StopBackend, Respond, IInv, TypeOK, PhaseInv, LibwgInv, RunningInv
  <2>2. CASE ~ok
    BY <1>6, <2>2, EndBackendType
       DEF StopBackend, IInv, TypeOK, PhaseInv, LibwgInv, RunningInv
  <2>3. QED
    BY <2>1, <2>2
<1>7. ASSUME NEW ok \in BOOLEAN, ClearAfterStop(ok)
      PROVE  IInv'
  <2>1. /\ active' = (IF ok THEN NoSpec ELSE active)
        /\ state' = (IF ok THEN "Idle" ELSE "Failed")
        /\ Respond("error", NoSpec)
    BY <1>7 DEF ClearAfterStop, Settle
  <2>2. TypeOK'
    BY <1>7, <2>1, RespondType, EndBackendType
       DEF ClearAfterStop, IInv, TypeOK, HelperState, AnswerKind
  <2>3. QED
    BY <1>7, <2>1, <2>2, EndBackendType
       DEF ClearAfterStop, Respond, IInv, TypeOK, PhaseInv, LibwgInv, RunningInv
<1>8. ASSUME NEW ok \in BOOLEAN, CleanupBackend(ok)
      PROVE  IInv'
  <2>1. /\ active' = (IF ok THEN NoSpec ELSE active)
        /\ state' = (IF ok THEN "Idle" ELSE "Failed")
    BY <1>8 DEF CleanupBackend, Settle
  <2>2. PICK kind \in {"cleaned", "error"} : Respond(kind, NoSpec)
    BY <1>8 DEF CleanupBackend
  <2>3. TypeOK'
    BY <1>8, <2>1, <2>2, RespondType, EndBackendType
       DEF CleanupBackend, IInv, TypeOK, HelperState, AnswerKind
  <2>4. QED
    BY <1>8, <2>1, <2>2, <2>3, EndBackendType
       DEF CleanupBackend, Respond, IInv, TypeOK, PhaseInv, LibwgInv, RunningInv
<1>9. QED
  BY <1>1, <1>2, <1>3, <1>4, <1>5, <1>6, <1>7, <1>8 DEF Work

LEMMA StepInv == IInv /\ [Next]_vars => IInv'
<1> SUFFICES ASSUME IInv, [Next]_vars
             PROVE  IInv'
  OBVIOUS
<1>1. CASE Accept
  BY <1>1 DEF Accept, IInv, TypeOK, PhaseInv, LibwgInv, RunningInv, Waiting, Working
<1>2. CASE RejectPeer \/ DropConnection \/ Answer
  BY <1>2, TurnInv DEF RejectPeer, DropConnection, Answer, Waiting
<1>3. CASE Serve
  BY <1>3, ServeInv
<1>4. CASE Work
  BY <1>4, WorkInv
<1>5. CASE Shutdown \/ ParentGone \/ Kill
  BY <1>5, ExitInv DEF Shutdown, ParentGone, Kill
<1>6. CASE ParentExits \/ Terminate
  BY <1>6 DEF ParentExits, Terminate, IInv, TypeOK, PhaseInv, LibwgInv, RunningInv
<1>7. CASE UNCHANGED vars
  BY <1>7 DEF vars, IInv, TypeOK, PhaseInv, LibwgInv, RunningInv
<1>8. QED
  BY <1>1, <1>2, <1>3, <1>4, <1>5, <1>6, <1>7 DEF Next
-----------------------------------------------------------------------------
\* The strengthened invariant holds in every reachable state.
THEOREM SupervisorInv == Spec => []IInv
<1>1. QED
  BY InitInv, StepInv, PTL DEF Spec

\* Every variable keeps its type.
THEOREM SupervisorTypeOK == Spec => []TypeOK
<1>1. IInv => TypeOK
  BY DEF IInv
<1>2. QED
  BY <1>1, SupervisorInv, PTL

\* With the shipped backend the device is exactly the tunnel on record whenever
\* a client can look: setup and teardown are transactional.
THEOREM DeviceIsAlwaysActive == Spec => []DeviceIsActive
<1>1. IInv => DeviceIsActive
  BY DEF IInv, LibwgInv, DeviceIsActive, Waiting
<1>2. QED
  BY <1>1, SupervisorInv, PTL

\* Whatever the backend, a helper that reports Running has its tunnel up.
THEOREM RunningIsAlwaysReal == Spec => []RunningIsReal
<1>1. IInv => RunningIsReal
  BY DEF IInv, RunningInv, RunningIsReal, Waiting
<1>2. QED
  BY <1>1, SupervisorInv, PTL
-----------------------------------------------------------------------------
(* The helper keeps its promise: every step of the supervisor is a step of *)
(* TunnelHelper on the recorded tunnel, or leaves tunnel and answer alone. *)

LEMMA RespondTells ==
  ASSUME NEW kind, NEW spec, Respond(kind, spec)
  PROVE  answer'.kind = kind /\ answer'.asked = spec /\ answer'.tunnel = active'
BY DEF Respond

LEMMA ServePromise == ASSUME IInv, Serve PROVE [Promise!Next]_Promise!hvars
<1>1. ASSUME NEW kind \in {"hello", "status", "stats", "error"}, Inspect(kind)
      PROVE  Promise!Next
  <2>1. active' = active /\ Respond(kind, NoSpec)
    BY <1>1 DEF Inspect, svars
  <2>2. CASE kind = "status"
    BY <2>1, <2>2, RespondTells DEF Promise!Next, Promise!Reported, Promise!Tell
  <2>3. CASE kind \in {"hello", "stats", "error"}
    BY <2>1, <2>3, RespondTells DEF Promise!Next, Promise!Aside, Promise!Tell
  <2>4. QED
    BY <2>2, <2>3
<1>2. ASSUME NEW s \in Specs, AlreadyActive(s)
      PROVE  Promise!Next
  <2>1. active' = active
    BY <1>2 DEF AlreadyActive, svars
  <2>2. CASE active = s /\ state = "Running"
    <3>1. Respond("started", s)
      BY <1>2, <2>2 DEF AlreadyActive
    <3>2. Promise!Started(s)
      BY <2>1, <2>2, <3>1, RespondTells DEF Promise!Started, Promise!Tell
    <3>3. QED
      BY <3>2 DEF Promise!Next
  <2>3. CASE ~(active = s /\ state = "Running")
    <3>1. Respond("error", s)
      BY <1>2, <2>3 DEF AlreadyActive
    <3>2. Promise!StartFailed(s)
      BY <2>1, <3>1, RespondTells DEF Promise!StartFailed, Promise!Tell
    <3>3. QED
      BY <3>2 DEF Promise!Next
  <2>4. QED
    BY <2>2, <2>3
<1>3. ASSUME NEW s \in Specs, StartTunnel(s)
      PROVE  UNCHANGED Promise!hvars
  BY <1>3 DEF StartTunnel, Promise!hvars
<1>4. CASE StopIdle
  <2>1. active' = NoSpec /\ Respond("stopped", NoSpec)
    BY <1>4 DEF StopIdle, Settle
  <2>2. Promise!Ended("stopped")
    BY <2>1, RespondTells DEF Promise!Ended, Promise!Tell
  <2>3. QED
    BY <2>2 DEF Promise!Next
<1>5. CASE StopTunnel \/ Cleanup
  BY <1>5 DEF StopTunnel, Cleanup, Promise!hvars
<1>6. QED
  BY <1>1, <1>2, <1>3, <1>4, <1>5 DEF Serve

LEMMA WorkPromise == ASSUME IInv, Work PROVE [Promise!Next]_Promise!hvars
<1>1. CASE OpenDevice \/ ConfigureFailed
  BY <1>1 DEF OpenDevice, ConfigureFailed, Promise!hvars
<1>2. ASSUME BackendStarted, active = NoSpec, asked \in Specs
      PROVE  Promise!Next
  <2>1. active' = asked /\ Respond("started", asked)
    BY <1>2 DEF BackendStarted
  <2>2. Promise!Started(asked)
    BY <1>2, <2>1, RespondTells DEF Promise!Started, Promise!Tell
  <2>3. QED
    BY <1>2, <2>2 DEF Promise!Next
<1>3. CASE ConfigureOk
  BY <1>2, <1>3 DEF ConfigureOk, IInv, PhaseInv
<1>4. CASE FallibleStart
  <2>1. CASE BackendStarted
    BY <1>2, <1>4, <2>1 DEF FallibleStart, IInv, PhaseInv
  <2>2. CASE UNCHANGED <<state, active, answer>>
    BY <2>2 DEF Promise!hvars
  <2>3. QED
    BY <1>4, <2>1, <2>2 DEF FallibleStart
<1>5. ASSUME NEW ok \in BOOLEAN, Rollback(ok)
      PROVE  Promise!Next
  <2>1. active = NoSpec /\ active' = NoSpec /\ asked \in Specs /\ Respond("error", asked)
    BY <1>5 DEF Rollback, Settle, IInv, PhaseInv
  <2>2. Promise!StartFailed(asked)
    BY <2>1, RespondTells DEF Promise!StartFailed, Promise!Tell
  <2>3. QED
    BY <2>1, <2>2 DEF Promise!Next
<1>6. ASSUME Respond("error", NoSpec), active' \in {active, NoSpec}
      PROVE  Promise!Next
  <2>1. Promise!EndFailed
    BY <1>6, RespondTells DEF Promise!EndFailed, Promise!Tell
  <2>2. QED
    BY <2>1 DEF Promise!Next
<1>7. ASSUME NEW kind \in {"stopped", "cleaned"}, Respond(kind, NoSpec), active' = NoSpec
      PROVE  Promise!Next
  <2>1. Promise!Ended(kind)
    BY <1>7, RespondTells DEF Promise!Ended, Promise!Tell
  <2>2. QED
    BY <2>1 DEF Promise!Next
<1>8. ASSUME NEW ok \in BOOLEAN, StopBackend(ok)
      PROVE  [Promise!Next]_Promise!hvars
  <2>1. CASE ok
    BY <1>7, <1>8, <2>1 DEF StopBackend, Settle
  <2>2. CASE ~ok
    BY <1>8, <2>2 DEF StopBackend, Promise!hvars
  <2>3. QED
    BY <2>1, <2>2
<1>9. ASSUME NEW ok \in BOOLEAN, ClearAfterStop(ok)
      PROVE  Promise!Next
  BY <1>6, <1>9 DEF ClearAfterStop, Settle
<1>10. ASSUME NEW ok \in BOOLEAN, CleanupBackend(ok)
       PROVE  Promise!Next
  <2>1. CASE ok
    BY <1>7, <1>10, <2>1 DEF CleanupBackend, Settle
  <2>2. CASE ~ok
    BY <1>6, <1>10, <2>2 DEF CleanupBackend, Settle
  <2>3. QED
    BY <2>1, <2>2
<1>11. QED
  BY <1>1, <1>3, <1>4, <1>5, <1>8, <1>9, <1>10 DEF Work

LEMMA StepPromise == IInv /\ [Next]_vars => [Promise!Next]_Promise!hvars
<1> SUFFICES ASSUME IInv, [Next]_vars
             PROVE  [Promise!Next]_Promise!hvars
  OBVIOUS
<1>1. CASE RejectPeer \/ DropConnection \/ Answer
  <2>1. answer'.kind = "none" /\ active' = active
    BY <1>1 DEF RejectPeer, DropConnection, Answer, Turn, NoAnswer
  <2>2. QED
    BY <2>1 DEF Promise!Next, Promise!Closed
<1>2. CASE Shutdown \/ ParentGone \/ Kill
  <2>1. answer'.kind = "none" /\ active' = NoSpec
    BY <1>2 DEF Shutdown, ParentGone, Kill, Exit, Settle, NoAnswer
  <2>2. QED
    BY <2>1 DEF Promise!Next, Promise!Gone
<1>3. CASE Accept \/ ParentExits \/ Terminate \/ UNCHANGED vars
  BY <1>3 DEF Accept, ParentExits, Terminate, vars, Promise!hvars
<1>4. QED
  BY <1>1, <1>2, <1>3, ServePromise, WorkPromise DEF Next

\* The supervisor implements TunnelHelper, whatever its backend.
THEOREM SupervisorKeepsPromise == Spec => HelperPromise
<1>1. Init => Promise!Init
  BY DEF Init, Promise!Init, NoAnswer
<1>2. QED
  BY <1>1, StepPromise, SupervisorInv, PTL DEF Spec, HelperPromise, Promise!Spec
=============================================================================
