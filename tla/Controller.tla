----------------------------- MODULE Controller -----------------------------
(***************************************************************************)
(* The desktop's AppController (apps/desktop/src-tauri/src/controller.rs)  *)
(* between the window that invokes it, the tunnel helpers it drives over   *)
(* their sockets, and the VPN server that hands it sessions.               *)
(*                                                                         *)
(* Every invocation is a task.  The auth mutex is held by connect from its *)
(* checks to its end, over every await in between; stop and cleanup call   *)
(* the helper without it and take it only to release the server session.   *)
(* A helper is asked one thing at a time (exchange_lock), but a request    *)
(* that timed out stays in the socket and is served late.  Commands that   *)
(* run start to end under the auth mutex and never call a helper are one   *)
(* step each: whatever they await, nobody else can see the session.        *)
(***************************************************************************)
EXTENDS Naturals, Sequences

CONSTANTS Tasks,     \* invocations that can be in progress at once
          NoTask,
          Modes,     \* HelperMode: one helper, one socket and one client for each
          NoMode,
          MaxConf,   \* bound: server sessions that can be asked for
          MaxFaults, \* bound: request timeouts and helper deaths, together
          Gated      \* the window lets one connect, stop or cleanup run at a time

ASSUME ControllerAssumption == /\ NoTask \notin Tasks
                               /\ NoMode \notin Modes
                               /\ MaxConf \in Nat
                               /\ MaxFaults \in Nat
                               /\ Gated \in BOOLEAN

VARIABLES session,   \* AuthState: not loaded, no session, or one that needs a login or has it
          challenge, \* AuthSession.challenge is there
          nodes,     \* AuthSession.nodes has the node the user picks
          active,    \* AuthSession.active_connection
          lock,      \* the task that holds the auth mutex
          task,      \* each task: where it is, the helper mode it was invoked with, and the
                     \* WgConf it holds or, for a stop, the one it was asked to end
          exchange,  \* HelperClient.exchange_lock of each mode: the task that holds it
          queue,     \* requests in each helper's socket; a lock holder's is the last
          up,        \* external: the helper process of each mode is there
          tunnel,    \* external: the tunnel each helper has up
          live,      \* external: the sessions the VPN server keeps for this client
          stray,     \* history: sessions whose release failed, or was never tried because
                     \* connect_vpn failed after the server had granted them
          timedOut,  \* history: starts and ends whose caller gave up, left in a socket
          nextConf, faults

authVars   == <<session, challenge, nodes>>
helperVars == <<exchange, queue, up, tunnel>>
serverVars == <<live, stray, nextConf>>
faultVars  == <<timedOut, faults>>
vars == <<authVars, active, lock, task, helperVars, serverVars, faultVars>>

NoConf == 0
Confs  == 1..MaxConf
NoConn == [mode |-> NoMode, conf |-> NoConf]
Idle   == [pc |-> "idle", mode |-> NoMode, conf |-> NoConf]

Calling == {"hello", "start", "end", "status", "stats"}          \* in HelperClient::send
Owning  == {"start", "record", "undo", "disconnect"}             \* has a session's WgConf
Holding == {"hello", "launch", "prepare"} \cup Owning            \* has the auth mutex
Main    == {"connect", "end", "release"} \cup Holding            \* App.vue: busy
Places  == {"idle", "configure", "status", "stats"} \cup Main

Task == [pc : Places, mode : Modes \cup {NoMode}, conf : Confs \cup {NoConf}]

LoggedIn == {"guest", "member"}   \* a session whose client needs a login, or does not

TypeOK == /\ session \in {"unloaded", "absent"} \cup LoggedIn
          /\ challenge \in BOOLEAN
          /\ nodes \in BOOLEAN
          /\ active \in [mode : Modes, conf : Confs] \cup {NoConn}
          /\ lock \in Tasks \cup {NoTask}
          /\ task \in [Tasks -> Task]
          /\ exchange \in [Modes -> Tasks \cup {NoTask}]
          /\ queue \in [Modes -> Seq([cmd : Calling, conf : Confs \cup {NoConf}])]
          /\ up \in [Modes -> BOOLEAN]
          /\ tunnel \in [Modes -> Confs \cup {NoConf}]
          /\ live \subseteq Confs
          /\ stray \subseteq Confs
          /\ timedOut \subseteq [cmd : {"start", "end"}, conf : Confs \cup {NoConf}]
          /\ nextConf \in 1..(MaxConf + 1)
          /\ faults \in 0..MaxFaults

Init == /\ session = "unloaded" /\ challenge = FALSE /\ nodes = FALSE
        /\ active = NoConn
        /\ lock = NoTask
        /\ task = [t \in Tasks |-> Idle]
        /\ exchange = [m \in Modes |-> NoTask]
        /\ queue = [m \in Modes |-> <<>>]
        /\ up = [m \in Modes |-> FALSE]
        /\ tunnel = [m \in Modes |-> NoConf]
        /\ live = {} /\ stray = {} /\ timedOut = {}
        /\ nextConf = 1 /\ faults = 0
-----------------------------------------------------------------------------
Goto(t, place) == task' = [task EXCEPT ![t] = IF place = "idle" THEN Idle
                                              ELSE [@ EXCEPT !.pc = place]]

Enter(t, place, m, c) == task' = [task EXCEPT ![t] = [pc |-> place, mode |-> m, conf |-> c]]

Free == lock = NoTask

\* A task ends and drops the auth mutex it held.
Finish(t) == Goto(t, "idle") /\ lock' = NoTask

Configuring == \E t \in Tasks : task[t].pc = "configure"

\* App.vue keeps its buttons disabled while a connect, a stop or a cleanup is in progress.
MayBegin == Gated => \A t \in Tasks : task[t].pc \notin Main

\* load_auth_if_needed: the session after it; "unloaded" again when loading failed.
Loads == IF session = "unloaded" THEN {"unloaded", "absent"} \cup LoggedIn ELSE {session}

\* A request whose HTTP status is an error logs the client out (handle_logout_err).
Expire(s) == IF s = "member" THEN {"member", "guest"} ELSE {s}
-----------------------------------------------------------------------------
(* Commands that run under the auth mutex alone                            *)

AuthStatus == /\ Free
              /\ session' \in Loads
              /\ UNCHANGED <<challenge, nodes, active, lock, task, helperVars,
                             serverVars, faultVars>>

AuthBeginQr ==
  /\ Free /\ ~Configuring
  /\ \E s \in Loads : \/ s \in LoggedIn /\ session' = s /\ challenge' = TRUE
                      \/ session' \in Expire(s) /\ UNCHANGED challenge
  /\ UNCHANGED <<nodes, active, lock, task, helperVars, serverVars, faultVars>>

\* The login is on record before the TOTP secret is stored and the nodes are
\* listed: when either fails the client is logged in all the same.
AuthPollQr ==
  /\ Free /\ challenge
  /\ \/ session' \in Expire(session) /\ UNCHANGED <<challenge, nodes>>
     \/ session' = "member" /\ UNCHANGED <<challenge, nodes>>
     \/ session' = "member" /\ challenge' = FALSE /\ nodes' \in BOOLEAN
     \/ session' \in LoggedIn /\ challenge' = FALSE /\ UNCHANGED nodes
  /\ UNCHANGED <<active, lock, task, helperVars, serverVars, faultVars>>

AuthRefreshNodes ==
  /\ Free /\ ~Configuring
  /\ \E s \in Loads : \/ s = "member" /\ session' = s /\ nodes' \in BOOLEAN
                      \/ session' \in Expire(s) /\ UNCHANGED nodes
  /\ UNCHANGED <<challenge, active, lock, task, helperVars, serverVars, faultVars>>

\* Refused while a connection is on record.  Otherwise the session goes, unless the
\* secret store would not let go of its entries.
AuthReset ==
  /\ Free /\ active = NoConn
  /\ session' = "absent" /\ challenge' = FALSE /\ nodes' = FALSE
  /\ UNCHANGED <<active, lock, task, helperVars, serverVars, faultVars>>

\* Mutant: the window offers the enterprise form at any time.
ConfigureAnyTime(t) ==
  /\ task[t].pc = "idle" /\ ~Configuring
  /\ Goto(t, "configure")
  /\ UNCHANGED <<authVars, active, lock, helperVars, serverVars, faultVars>>

\* auth_configure writes the profile and its secrets before it takes the mutex.  The
\* window shows the form only while it knows of no enterprise, and one at a time.
ConfigureBegin(t) ==
  /\ task[t].pc = "idle" /\ ~Configuring
  /\ session \notin LoggedIn
  /\ Goto(t, "configure")
  /\ UNCHANGED <<authVars, active, lock, helperVars, serverVars, faultVars>>

\* The old session is replaced with whatever it recorded; or a write failed before that.
AuthConfigure(t) ==
  /\ task[t].pc = "configure"
  /\ \/ Free /\ session' = "guest" /\ challenge' = FALSE /\ nodes' = FALSE /\ active' = NoConn
     \/ UNCHANGED <<authVars, active>>
  /\ Goto(t, "idle")
  /\ UNCHANGED <<lock, helperVars, serverVars, faultVars>>
-----------------------------------------------------------------------------
(* connect                                                                 *)

ConnectBegin(t, m) ==
  /\ task[t].pc = "idle" /\ MayBegin
  /\ Enter(t, "connect", m, NoConf)
  /\ UNCHANGED <<authVars, active, lock, helperVars, serverVars, faultVars>>

\* Mutant: a second connect is not refused.
ConnectAgain(t) ==
  /\ task[t].pc = "connect" /\ Free
  /\ session' \in Loads
  /\ session' = "member" /\ nodes /\ lock' = t /\ Goto(t, "hello")
  /\ UNCHANGED <<challenge, nodes, active, helperVars, serverVars, faultVars>>

\* The checks; a node that is not in the list fails even when they pass.
ConnectCheck(t) ==
  /\ task[t].pc = "connect" /\ Free
  /\ session' \in Loads
  /\ \/ session' = "member" /\ active = NoConn /\ nodes /\ lock' = t /\ Goto(t, "hello")
     \/ lock' = lock /\ Goto(t, "idle")
  /\ UNCHANGED <<challenge, nodes, active, helperVars, serverVars, faultVars>>

\* ensure_running after a hello that failed: the helper is launched and answers, or
\* the command gives up, whether or not the helper still comes up.
Launch(t) ==
  /\ task[t].pc = "launch"
  /\ \/ up' = [up EXCEPT ![task[t].mode] = TRUE] /\ Goto(t, "prepare") /\ UNCHANGED lock
     \/ up' \in {up, [up EXCEPT ![task[t].mode] = TRUE]} /\ Finish(t)
  /\ UNCHANGED <<authVars, active, exchange, queue, tunnel, serverVars, faultVars>>

\* connect_vpn_node: a session is granted and becomes a WgConf; or it is granted and
\* what came with it is unusable; or the server refuses.
Prepare(t) ==
  /\ task[t].pc = "prepare"
  /\ \/ /\ nextConf <= MaxConf
        /\ nextConf' = nextConf + 1
        /\ live' = live \cup {nextConf}
        /\ \/ /\ Enter(t, "start", task[t].mode, nextConf)
              /\ UNCHANGED <<session, stray, lock>>
           \/ /\ stray' = stray \cup {nextConf}
              /\ Finish(t)
              /\ UNCHANGED session
     \/ /\ session' \in Expire(session)
        /\ Finish(t)
        /\ UNCHANGED serverVars
  /\ UNCHANGED <<challenge, nodes, active, helperVars, faultVars>>

\* Mutant: the guard is not dropped when a connect succeeds.
RecordKeepsLock(t) ==
  /\ task[t].pc = "record"
  /\ active' = [mode |-> task[t].mode, conf |-> task[t].conf]
  /\ Goto(t, "idle") /\ UNCHANGED lock
  /\ UNCHANGED <<authVars, helperVars, serverVars, faultVars>>

Record(t) ==
  /\ task[t].pc = "record"
  /\ active' = [mode |-> task[t].mode, conf |-> task[t].conf]
  /\ Finish(t)
  /\ UNCHANGED <<authVars, helperVars, serverVars, faultVars>>
-----------------------------------------------------------------------------
(* stop and cleanup                                                        *)

EndBegin(t, m) ==
  /\ task[t].pc = "idle" /\ MayBegin
  /\ Enter(t, "end", m, IF active.mode = m THEN active.conf ELSE NoConf)
  /\ UNCHANGED <<authVars, active, lock, helperVars, serverVars, faultVars>>

\* Mutant: the configuration is taken and the record left behind.
ReleaseHalf(t) ==
  /\ task[t].pc = "release" /\ Free
  /\ IF active # NoConn /\ active.mode = task[t].mode
     THEN /\ active' = [active EXCEPT !.conf = NoConf]
          /\ Enter(t, "disconnect", task[t].mode, active.conf)
          /\ lock' = t
     ELSE Goto(t, "idle") /\ UNCHANGED <<active, lock>>
  /\ UNCHANGED <<authVars, helperVars, serverVars, faultVars>>

\* release_server_connection: the record is taken before the server is asked, and
\* put back when it belongs to the other mode.
Release(t) ==
  /\ task[t].pc = "release" /\ Free
  /\ IF active # NoConn /\ active.mode = task[t].mode
     THEN /\ active' = NoConn
          /\ Enter(t, "disconnect", task[t].mode, active.conf)
          /\ lock' = t
     ELSE Goto(t, "idle") /\ UNCHANGED <<active, lock>>
  /\ UNCHANGED <<authVars, helperVars, serverVars, faultVars>>

\* disconnect_vpn, after a stop or after a start that failed.
Disconnect(t) ==
  /\ task[t].pc \in {"undo", "disconnect"}
  /\ \/ live' = live \ {task[t].conf} /\ UNCHANGED <<session, stray>>
     \/ stray' = stray \cup {task[t].conf} /\ session' \in Expire(session) /\ UNCHANGED live
  /\ Finish(t)
  /\ UNCHANGED <<challenge, nodes, active, helperVars, nextConf, faultVars>>
-----------------------------------------------------------------------------
(* status, and the exchange with a helper                                  *)

StatusBegin(t, m) ==
  /\ task[t].pc = "idle"
  /\ Enter(t, "status", m, NoConf)
  /\ UNCHANGED <<authVars, active, lock, helperVars, serverVars, faultVars>>

\* What a task does with the answer to its request; a tunnel that is not running
\* has no statistics to ask for.
OnSuccess == [hello |-> "prepare", start |-> "record", end |-> "release",
              status |-> "stats", stats |-> "idle"]

\* Mutant: a start without an answer is taken for started.
OnFailureRecorded == [hello |-> "launch", start |-> "record", end |-> "idle",
                      status |-> "idle", stats |-> "idle"]

\* Mutant: the server session is released whether or not the helper stopped.
OnFailureReleased == [hello |-> "launch", start |-> "undo", end |-> "release",
                      status |-> "idle", stats |-> "idle"]

OnFailure == [hello |-> "launch", start |-> "undo", end |-> "idle",
              status |-> "idle", stats |-> "idle"]

Reply(t, ok) == Goto(t, IF ok THEN OnSuccess[task[t].pc] ELSE OnFailure[task[t].pc])

\* The exchange lock is taken; without a helper the connection is refused at once.
Send(t) ==
  /\ task[t].pc \in Calling /\ exchange[task[t].mode] = NoTask
  /\ LET m == task[t].mode
     IN IF up[m]
        THEN /\ exchange' = [exchange EXCEPT ![m] = t]
             /\ queue' = [queue EXCEPT ![m] = Append(@, [cmd |-> task[t].pc, conf |-> task[t].conf])]
             /\ UNCHANGED task
        ELSE Reply(t, FALSE) /\ UNCHANGED <<exchange, queue>>
  /\ UNCHANGED <<authVars, active, lock, up, tunnel, serverVars, faultVars>>

\* What the helper does with a request, as module TunnelHelper promises it: a start
\* finds the helper free or its own specification up, or it fails and changes nothing.
Obey(m, request, ok) ==
  \/ request.cmd = "start" /\ ok /\ tunnel' = [tunnel EXCEPT ![m] = request.conf]
  \/ request.cmd = "start" /\ ~ok /\ UNCHANGED tunnel
  \/ request.cmd = "end" /\ ok /\ tunnel' = [tunnel EXCEPT ![m] = NoConf]
  \/ request.cmd \in {"hello", "stats"} /\ ok /\ UNCHANGED tunnel
  \/ request.cmd = "status" /\ ok = (tunnel[m] # NoConf) /\ UNCHANGED tunnel

\* The oldest request is served; its answer reaches the task that still waits for
\* one, if it is that task's.
Serve(m) ==
  /\ queue[m] # <<>>
  /\ queue' = [queue EXCEPT ![m] = Tail(@)]
  /\ \E ok \in BOOLEAN :
       /\ Obey(m, Head(queue[m]), ok)
       /\ IF Len(queue[m]) = 1 /\ exchange[m] # NoTask
          THEN Reply(exchange[m], ok) /\ exchange' = [exchange EXCEPT ![m] = NoTask]
          ELSE UNCHANGED <<task, exchange>>
  /\ UNCHANGED <<authVars, active, lock, up, serverVars, faultVars>>

\* Ten seconds without an answer: the request never got through, or it stays in the
\* socket (one that only asks would change nothing when it is served: it is left out).
TimeOut(m) ==
  /\ exchange[m] # NoTask /\ faults < MaxFaults
  /\ LET t == exchange[m]
     IN /\ Reply(t, FALSE)
        /\ \/ queue' = [queue EXCEPT ![m] = SubSeq(@, 1, Len(@) - 1)] /\ UNCHANGED timedOut
           \/ /\ task[t].pc \in {"start", "end"} /\ UNCHANGED queue
              /\ timedOut' = timedOut \cup {[cmd |-> task[t].pc, conf |-> task[t].conf]}
  /\ exchange' = [exchange EXCEPT ![m] = NoTask]
  /\ faults' = faults + 1
  /\ UNCHANGED <<authVars, active, lock, up, tunnel, serverVars>>

\* The helper's process ends, its tunnel with it, and every request in its socket.
HelperDies(m) ==
  /\ up[m] /\ faults < MaxFaults
  /\ up' = [up EXCEPT ![m] = FALSE]
  /\ tunnel' = [tunnel EXCEPT ![m] = NoConf]
  /\ queue' = [queue EXCEPT ![m] = <<>>]
  /\ IF exchange[m] # NoTask
     THEN Reply(exchange[m], FALSE) /\ exchange' = [exchange EXCEPT ![m] = NoTask]
     ELSE UNCHANGED <<task, exchange>>
  /\ faults' = faults + 1
  /\ UNCHANGED <<authVars, active, lock, serverVars, timedOut>>
-----------------------------------------------------------------------------
TakeLock(t) == ConnectCheck(t) \/ Release(t) \/ AuthConfigure(t)
Proceed(t)  == Launch(t) \/ Prepare(t) \/ Record(t) \/ Disconnect(t)
Begin(t)    == \/ ConfigureBegin(t)
               \/ \E m \in Modes : ConnectBegin(t, m) \/ EndBegin(t, m) \/ StatusBegin(t, m)

Next == \/ AuthStatus \/ AuthBeginQr \/ AuthPollQr \/ AuthRefreshNodes \/ AuthReset
        \/ \E t \in Tasks : Begin(t) \/ TakeLock(t) \/ Proceed(t) \/ Send(t)
        \/ \E m \in Modes : Serve(m) \/ TimeOut(m) \/ HelperDies(m)

\* tokio's mutexes are first come, first served, a future that is ready is polled, and
\* every await has a timeout; a helper serves what it accepts.  Users owe nothing.
Fairness == /\ \A t \in Tasks : WF_vars(Proceed(t)) /\ SF_vars(TakeLock(t)) /\ SF_vars(Send(t))
            /\ \A m \in Modes : WF_vars(Serve(m))

\* A user who tries again, with every command the window has for a connection.
Retries == \A m \in Modes : /\ SF_vars(\E t \in Tasks : ConnectBegin(t, m))
                            /\ SF_vars(\E t \in Tasks : EndBegin(t, m))
                            /\ SF_vars(AuthReset)

Spec      == Init /\ [][Next]_vars
FairSpec  == Spec /\ Fairness
RetrySpec == FairSpec /\ Retries
-----------------------------------------------------------------------------
(* Properties                                                              *)

\* The server sessions this program can still release: the one on record, and the one
\* a task has in hand.
Owned == ({active.conf} \cup {task[t].conf : t \in {u \in Tasks : task[u].pc \in Owning}}) \ {NoConf}

\* The VPN server keeps a session exactly while the desktop has it on record or in
\* hand, unless its release failed: a connection that is on record was not released,
\* and none is forgotten by a reset, a new enterprise, a stop of the other mode or a
\* helper that would not start.  README.md: a disconnect and a failed helper start
\* release the server's session.
SessionAccounted == stray \subseteq live /\ live \ stray = Owned

Ledger == INSTANCE SessionLedger
            WITH Sessions <- Confs, granted <- 1..(nextConf - 1), kept <- live,
                 held <- Owned, lost <- stray

\* However the commands overlap and whatever fails, a session is asked for only while
\* none is on record or in hand, and one that is leaves neither but through
\* disconnect_vpn: not by a reset, a second connect, a record put back or a late answer.
\* README.md: a disconnect and a failed helper start release the server's session.
LedgerPromise == Ledger!Spec

\* With one command at a time, a tunnel that is up is the recorded one or about to be
\* recorded, unless its start timed out: a stop that failed does not forget it, and no
\* session is released while its tunnel is up.
TunnelAccounted ==
  Gated => \A m \in Modes : tunnel[m] # NoConf =>
             \/ active = [mode |-> m, conf |-> tunnel[m]]
             \/ \E t \in Tasks : task[t].pc = "record" /\ task[t].mode = m /\ task[t].conf = tunnel[m]
             \/ [cmd |-> "start", conf |-> tunnel[m]] \in timedOut

\* With one command at a time, the recorded connection's tunnel is up while its helper
\* is, unless its end was asked for: a stop or a cleanup that timed out before the
\* connection was made is served before it, never after.
ActiveHasTunnel ==
  Gated /\ active # NoConn /\ up[active.mode] =>
    \/ tunnel[active.mode] = active.conf
    \/ \E t \in Tasks : task[t].pc \in {"end", "release"} /\ task[t].mode = active.mode
    \/ [cmd |-> "end", conf |-> active.conf] \in timedOut

\* No command waits for ever for a mutex another one holds, whatever fails.
CommandsFinish == \A t \in Tasks : task[t].pc # "idle" ~> task[t].pc = "idle"

\* docs/architecture.md: "Helper absence is represented as a retryable state".  It is
\* not once a connection is on record: a user who retries for ever stays without helper.
AbsenceIsRetryable ==
  \A m \in Modes : active.mode = m /\ ~up[m] ~> active.mode # m \/ up[m]
=============================================================================
