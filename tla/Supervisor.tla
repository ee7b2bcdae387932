----------------------------- MODULE Supervisor -----------------------------
(***************************************************************************)
(* The tunnel helper process (apps/helper): its accept loop, the           *)
(* Supervisor that serves one request at a time, and the backend that owns *)
(* the tunnel device.                                                      *)
(*                                                                         *)
(* A request is served without a suspension point: the accept loop can     *)
(* leave for a termination signal or a parent that is gone only while it   *)
(* waits for a connection or for a connection's bytes.  The phases in      *)
(* between are separate steps because the process can be killed in any of  *)
(* them and because a signal can arrive during any of them.                *)
(***************************************************************************)
CONSTANTS Specs,    \* tunnel specifications (their fingerprints)
          NoSpec,   \* no tunnel
          Backends  \* implementations of the TunnelBackend trait: "libwg", the one
                    \* that is shipped, and "fallible", any other the trait allows

ASSUME SupervisorAssumption == /\ NoSpec \notin Specs
                               /\ Backends \subseteq {"libwg", "fallible"}

VARIABLES backend,  \* the backend this Supervisor was built with; it never changes
          phase,    \* what the accept loop is doing
          asked,    \* the specification of the start being served, or NoSpec
          state,    \* Supervisor.state
          active,   \* Supervisor.active: the fingerprint it holds, or NoSpec
          running,  \* LibwgBackend.running
          device,   \* external: the tunnel device that exists, or NoSpec
          answer,   \* the response being sent
          parent,   \* the desktop that launched this helper is alive
          signal    \* SIGTERM: not sent, known to this turn's listener, or dropped

svars == <<state, active>>
bvars == <<running, device>>
vars  == <<backend, phase, asked, state, active, running, device, answer, parent, signal>>

HelperState == {"Idle", "Starting", "Running", "Stopping", "Failed"}
Waiting     == {"accept", "reading", "answering"}
Working     == {"starting", "configuring", "rollback", "stopping", "clearing", "cleaning"}
AnswerKind  == {"none", "hello", "started", "stopped", "cleaned", "status", "stats", "error"}

NoAnswer == [kind |-> "none", asked |-> NoSpec, tunnel |-> NoSpec, state |-> "Idle"]

TypeOK == /\ backend \in Backends
          /\ phase \in Waiting \cup Working \cup {"exited"}
          /\ asked \in Specs \cup {NoSpec}
          /\ state \in HelperState
          /\ active \in Specs \cup {NoSpec}
          /\ running \in BOOLEAN
          /\ device \in Specs \cup {NoSpec}
          /\ answer \in [kind : AnswerKind, asked : Specs \cup {NoSpec},
                         tunnel : Specs \cup {NoSpec}, state : HelperState]
          /\ parent \in BOOLEAN
          /\ signal \in {"none", "pending", "dropped"}

Init == /\ backend \in Backends
        /\ phase = "accept"
        /\ asked = NoSpec
        /\ state = "Idle"
        /\ active = NoSpec
        /\ running = FALSE
        /\ device = NoSpec
        /\ answer = NoAnswer
        /\ parent = TRUE
        /\ signal = "none"
-----------------------------------------------------------------------------
(* The accept loop and its connections.                                    *)

Accept == /\ phase = "accept"
          /\ phase' = "reading"
          /\ UNCHANGED <<backend, asked, state, active, running, device, answer, parent, signal>>

\* The connection is over, one way or another, and the loop turns: select! drops
\* the signal listener of the finished turn with whatever it had been told.
Turn == /\ phase' = "accept"
        /\ asked' = NoSpec
        /\ answer' = NoAnswer
        /\ signal' = IF signal = "pending" THEN "dropped" ELSE signal
        /\ UNCHANGED <<backend, state, active, running, device, parent>>

\* A peer of another uid.
RejectPeer == phase = "accept" /\ Turn

\* Mutant: a silent peer is waited for without a limit.
NeverDropConnection == phase = "reading" /\ ~parent /\ Turn

\* The peer closes, sends an oversized frame, or stays silent for the ten
\* seconds a connection may take.
DropConnection == phase = "reading" /\ Turn

\* The response is written, or the peer has gone without reading it.
Answer == phase = "answering" /\ Turn

\* The response carries the supervisor's status() as it will be after the step.
Respond(kind, spec) ==
  /\ phase' = "answering"
  /\ answer' = [kind |-> kind, asked |-> spec, tunnel |-> active', state |-> state']
-----------------------------------------------------------------------------
(* Requests that leave the tunnel alone: hello, status, stats, and frames  *)
(* that do not decode or carry another protocol version.                   *)

Inspect(kind) == /\ phase = "reading"
                 /\ UNCHANGED svars
                 /\ Respond(kind, NoSpec)
                 /\ UNCHANGED <<backend, asked, running, device, parent, signal>>
-----------------------------------------------------------------------------
(* start_tunnel                                                            *)

AlreadyActive(s) ==
  /\ phase = "reading"
  /\ active # NoSpec
  /\ UNCHANGED svars
  /\ Respond(IF active = s /\ state = "Running" THEN "started" ELSE "error", s)
  /\ UNCHANGED <<backend, asked, running, device, parent, signal>>

\* Mutant: the check for an active tunnel is lost, and a start always goes ahead.
StartUnchecked(s) ==
  /\ phase = "reading"
  /\ asked' = s
  /\ state' = "Starting"
  /\ phase' = "starting"
  /\ UNCHANGED <<backend, active, running, device, answer, parent, signal>>

StartTunnel(s) ==
  /\ phase = "reading"
  /\ active = NoSpec
  /\ asked' = s
  /\ state' = "Starting"
  /\ phase' = "starting"
  /\ UNCHANGED <<backend, active, running, device, answer, parent, signal>>

\* LibwgBackend::start opens the device; a backend already running refuses.
OpenDevice ==
  /\ phase = "starting" /\ backend = "libwg"
  /\ \/ ~running /\ device' = asked /\ phase' = "configuring"
     \/ device' = device /\ phase' = "rollback"
  /\ UNCHANGED <<backend, asked, state, active, running, answer, parent, signal>>

BackendStarted ==
  /\ active' = asked
  /\ state' = "Running"
  /\ Respond("started", asked)

ConfigureOk ==
  /\ phase = "configuring"
  /\ running' = TRUE
  /\ BackendStarted
  /\ UNCHANGED <<backend, asked, device, parent, signal>>

\* Mutant: the failed configuration returns without closing the device.
ConfigureLeaks ==
  /\ phase = "configuring"
  /\ phase' = "rollback"
  /\ UNCHANGED <<backend, asked, state, active, running, device, answer, parent, signal>>

\* The device exists but would not take its configuration: it is closed again.
ConfigureFailed ==
  /\ phase = "configuring"
  /\ device' = NoSpec
  /\ phase' = "rollback"
  /\ UNCHANGED <<backend, asked, state, active, running, answer, parent, signal>>

\* The trait lets a start that fails leave anything behind.
FallibleStart ==
  /\ phase = "starting" /\ backend = "fallible"
  /\ \/ device' = asked /\ BackendStarted
     \/ /\ device' \in {device, asked}
        /\ phase' = "rollback"
        /\ UNCHANGED <<state, active, answer>>
  /\ UNCHANGED <<backend, asked, running, parent, signal>>
-----------------------------------------------------------------------------
(* stop_tunnel, cleanup, and what a failed start or stop undoes            *)

\* backend.stop() and backend.cleanup(): LibwgBackend closes a running device and
\* cannot fail; another backend may fail, with or without closing its device.
EndBackend(ok) ==
  CASE backend = "libwg" -> /\ ok
                            /\ running' = FALSE
                            /\ device' = IF running THEN NoSpec ELSE device
    [] OTHER -> /\ UNCHANGED running
                /\ device' \in IF ok THEN {NoSpec} ELSE {device, NoSpec}

\* Mutant: the supervisor settles in a state the protocol does not have.
SettleUnknown(tunnel, st) == active' = tunnel /\ state' = IF st = "Failed" THEN "Broken" ELSE st

Settle(tunnel, st) == active' = tunnel /\ state' = st

\* backend.start() failed: whatever it left is cleaned up before the answer.
Rollback(ok) ==
  /\ phase = "rollback"
  /\ EndBackend(ok)
  /\ Settle(NoSpec, IF ok THEN "Idle" ELSE "Failed")
  /\ Respond("error", asked)
  /\ UNCHANGED <<backend, asked, parent, signal>>

\* Nothing active: the answer is immediate and the backend is not consulted.
StopIdle ==
  /\ phase = "reading"
  /\ active = NoSpec
  /\ Settle(NoSpec, "Idle")
  /\ Respond("stopped", NoSpec)
  /\ UNCHANGED <<backend, asked, running, device, parent, signal>>

StopTunnel ==
  /\ phase = "reading"
  /\ active # NoSpec
  /\ state' = "Stopping"
  /\ phase' = "stopping"
  /\ UNCHANGED <<backend, asked, active, running, device, answer, parent, signal>>

StopBackend(ok) ==
  /\ phase = "stopping"
  /\ EndBackend(ok)
  /\ IF ok THEN Settle(NoSpec, "Idle") /\ Respond("stopped", NoSpec)
           ELSE phase' = "clearing" /\ UNCHANGED <<state, active, answer>>
  /\ UNCHANGED <<backend, asked, parent, signal>>

\* Mutant: a stop whose cleanup failed too goes back to Running instead of Failed.
ClearedAsRunning(ok) ==
  /\ phase = "clearing"
  /\ EndBackend(ok)
  /\ IF ok THEN Settle(NoSpec, "Idle") ELSE Settle(active, "Running")
  /\ Respond("error", NoSpec)
  /\ UNCHANGED <<backend, asked, parent, signal>>

\* backend.stop() failed and cleanup is tried: the client gets the error even
\* when the cleanup succeeds, and an active tunnel stays on record when it fails.
ClearAfterStop(ok) ==
  /\ phase = "clearing"
  /\ EndBackend(ok)
  /\ IF ok THEN Settle(NoSpec, "Idle") ELSE Settle(active, "Failed")
  /\ Respond("error", NoSpec)
  /\ UNCHANGED <<backend, asked, parent, signal>>

Cleanup ==
  /\ phase = "reading"
  /\ phase' = "cleaning"
  /\ UNCHANGED <<backend, asked, state, active, running, device, answer, parent, signal>>

CleanupBackend(ok) ==
  /\ phase = "cleaning"
  /\ EndBackend(ok)
  /\ IF ok THEN Settle(NoSpec, "Idle") /\ Respond("cleaned", NoSpec)
           ELSE Settle(active, "Failed") /\ Respond("error", NoSpec)
  /\ UNCHANGED <<backend, asked, parent, signal>>
-----------------------------------------------------------------------------
(* The ends of the process, and the events it watches for                  *)

\* The process is gone, and the device with it: dropping the backend closes it,
\* and a userspace device does not outlive a killed process.
Exit == /\ phase' = "exited"
        /\ asked' = NoSpec
        /\ Settle(NoSpec, "Idle")
        /\ running' = FALSE
        /\ device' = NoSpec
        /\ answer' = NoAnswer
        /\ UNCHANGED <<backend, parent, signal>>

Shutdown == phase \in Waiting /\ signal = "pending" /\ Exit

\* Mutant: the parent is looked for only while no client is connected and no
\* tunnel is up.
ParentGoneWhenIdle == phase = "accept" /\ ~parent /\ active = NoSpec /\ Exit

\* Once a second, and at the start of every turn of the loop.
ParentGone == phase \in Waiting /\ ~parent /\ Exit

Kill == phase # "exited" /\ Exit

ParentExits == /\ phase # "exited" /\ parent
               /\ parent' = FALSE
               /\ UNCHANGED <<backend, phase, asked, state, active, running, device, answer,
                              signal>>

\* One SIGTERM is enough to ask the question.
Terminate == /\ phase # "exited" /\ signal = "none"
             /\ signal' = "pending"
             /\ UNCHANGED <<backend, phase, asked, state, active, running, device, answer,
                            parent>>
-----------------------------------------------------------------------------
Serve == \/ \E kind \in {"hello", "status", "stats", "error"} : Inspect(kind)
         \/ \E s \in Specs : AlreadyActive(s) \/ StartTunnel(s)
         \/ StopIdle \/ StopTunnel \/ Cleanup

\* What the code goes on to do by itself once a request is being served.
Work == \/ OpenDevice \/ ConfigureOk \/ ConfigureFailed \/ FallibleStart
        \/ \E ok \in BOOLEAN : Rollback(ok) \/ StopBackend(ok) \/ ClearAfterStop(ok)
                               \/ CleanupBackend(ok)

Next == \/ Accept \/ RejectPeer \/ DropConnection \/ Answer
        \/ Serve \/ Work
        \/ Shutdown \/ ParentGone \/ Kill \/ ParentExits \/ Terminate

\* A request being served runs to its answer, an answer is written or abandoned,
\* and a silent connection times out.  select! polls its branches in a random
\* order, so a branch that is ready turn after turn is taken.  Clients, parents
\* and signals owe nothing.
Fairness == /\ WF_vars(Work) /\ WF_vars(Answer) /\ WF_vars(DropConnection)
            /\ SF_vars(Shutdown) /\ SF_vars(ParentGone)

Spec     == Init /\ [][Next]_vars
FairSpec == Spec /\ Fairness
-----------------------------------------------------------------------------
(* Properties                                                              *)

\* With the shipped backend, whenever the helper waits (so whenever a client can
\* learn or change anything) the device is exactly the tunnel on record: a failed
\* start has left nothing up, a stop has left nothing up, and the recorded state
\* says which.  docs/architecture.md: "Tunnel setup is transactional".
DeviceIsActive ==
  backend = "libwg" /\ phase \in Waiting =>
    /\ device = active
    /\ running = (active # NoSpec)
    /\ state = IF active = NoSpec THEN "Idle" ELSE "Running"

\* With any backend, a helper that reports Running has its recorded tunnel up,
\* and one whose record and device disagree never reports Running: a stop or a
\* cleanup that failed halfway is never taken for a healthy tunnel.
RunningIsReal ==
  phase \in Waiting /\ state = "Running" => active # NoSpec /\ device = active

\* The supervisor keeps the helper's promise about the tunnel it has on record.
Promise == INSTANCE TunnelHelper WITH tunnel <- active, told <- answer

HelperPromise == Promise!Spec

\* A helper whose desktop has gone exits, in whatever state it was and whatever
\* its clients do.  docs/architecture.md: "exits through its normal cleanup path
\* after that parent disappears".
ParentExitStopsHelper == ~parent ~> phase = "exited"

\* No client holds the accept loop: every connection ends.
ConnectionsEnd == phase \notin {"accept", "exited"} ~> phase \in {"accept", "exited"}

\* docs/architecture.md: the tunnel is cleaned up after a termination signal, also one that
\* is pending while a request is being served.  It is not when that request's own turn ends
\* first: the signal is dropped with it.
SignalStopsHelper == phase \in Working /\ signal = "pending" ~> phase = "exited"
=============================================================================
