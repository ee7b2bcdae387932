-------------------------------- MODULE Window --------------------------------
(***************************************************************************)
(* The desktop's window (apps/desktop/src/App.vue and AuthFlow.vue) over   *)
(* the commands of its controller.  Every button and timer makes an        *)
(* invocation and goes on; its answer comes back in any order with the     *)
(* others', and what the window shows is what came back last.  The         *)
(* controller, the helpers and the VPN server are as module Controller     *)
(* has them, with one step for what a command does under its locks.        *)
(***************************************************************************)
EXTENDS Naturals, FiniteSets

CONSTANTS Modes,      \* HelperMode
          NoMode,
          FirstMode,  \* the mode that localStorage remembers
          MaxCalls    \* bound: invocations in progress

ASSUME WindowAssumption == /\ NoMode \notin Modes
                           /\ FirstMode \in Modes
                           /\ MaxCalls \in Nat

VARIABLES mode,     \* the tunnel mode that is selected
          snapshot, \* the HelperSnapshot on the screen: its mode, and whether it runs
          busy,     \* a connect, a stop or a cleanup is in progress
          auth,     \* the AuthSnapshot on the screen; the enterprise form is "form"
          authBusy, \* an invocation of authApi is in progress
          calls,    \* invocations in progress: on their way, or answered and not yet shown
          tunnels,  \* external: the modes whose helper has a tunnel up
          active,   \* the mode of the controller's active_connection
          session,  \* the controller's AuthState, as in module Controller
          challenge \* AuthSession.challenge is there

window  == <<mode, snapshot, busy, auth, authBusy>>
backend == <<tunnels, active, session, challenge>>
vars    == <<window, calls, backend>>

Commands == {"connect", "end"}                            \* helperApi; "end" is stop or cleanup
Requests == {"load", "configure", "begin", "refresh", "reset"}  \* authApi
Polls    == {"poll", "recheck"}                           \* pollQr, and the status it falls back to

LoggedIn == {"guest", "member"}
Screens  == {"form", "ready", "qr", "home"}   \* AuthFlow's three phases, or signed in
Asked    == "asked"

Answers(what) == IF what \in {"status", "end"} THEN {"on", "off"}
                 ELSE IF what = "connect" THEN {"on", "error"} ELSE Screens \cup {"error"}

Call == {c \in [what   : {"status"} \cup Commands \cup Requests \cup Polls,
                mode   : Modes \cup {NoMode},
                answer : {Asked, "on", "off", "error"} \cup Screens] :
           /\ c.answer \in Answers(c.what) \cup {Asked}
           /\ (c.mode = NoMode) = (c.what \in Requests \cup Polls)}

TypeOK == /\ mode \in Modes
          /\ snapshot \in [mode : Modes, is : {"on", "off"}] \cup {[mode |-> NoMode, is |-> "off"]}
          /\ busy \in BOOLEAN
          /\ auth \in Screens \cup {"none"}
          /\ authBusy \in BOOLEAN
          /\ calls \subseteq Call
          /\ tunnels \subseteq Modes
          /\ active \in Modes \cup {NoMode}
          /\ session \in {"unloaded", "absent"} \cup LoggedIn
          /\ challenge \in BOOLEAN

Invoke(what, m) == [what |-> what, mode |-> m, answer |-> Asked]

\* onMounted: the first status and the first snapshot of the session.  The setup hook
\* has waited for initialize, which may have failed to load the profile.
Init == /\ mode = FirstMode /\ snapshot = [mode |-> NoMode, is |-> "off"] /\ busy = FALSE
        /\ auth = "none" /\ authBusy = FALSE
        /\ calls = {Invoke("status", FirstMode), Invoke("load", NoMode)}
        /\ tunnels = {} /\ active = NoMode
        /\ session \in {"unloaded", "absent"} \cup LoggedIn /\ challenge = FALSE

\* AuthFlow covers the page (.auth-backdrop) while it asks for a login.
Uncovered == auth \in {"none", "home"}

isRunning == snapshot.is = "on"

InProgress(whats) == {c \in calls : c.what \in whats}
-----------------------------------------------------------------------------
(* The buttons and timers of the connection                                *)

Room == Cardinality(calls) < MaxCalls

\* helperApi.status.  Bound: one of a mode in progress.
Status(m) == /\ {c \in InProgress({"status"}) : c.mode = m} = {}
             /\ Room /\ calls' = calls \cup {Invoke("status", m)}

\* Mutant: the timer polls the mode that was selected when it was set.
RefreshFirst ==
  /\ snapshot.mode # NoMode /\ auth # "none"
  /\ Status(FirstMode)
  /\ UNCHANGED <<window, backend>>

\* The five-second timer, set when the first two answers are there.
Refresh ==
  /\ snapshot.mode # NoMode /\ auth # "none"
  /\ Status(mode)
  /\ UNCHANGED <<window, backend>>

\* The mode buttons look at isRunning and not at busy.
ChangeMode(m) ==
  /\ Uncovered /\ ~isRunning /\ m # mode
  /\ mode' = m
  /\ Status(m)
  /\ UNCHANGED <<snapshot, busy, auth, authBusy, backend>>

\* canConnect, with a node of the list selected.
Connect ==
  /\ auth = "home" /\ ~busy /\ ~isRunning /\ Room
  /\ busy' = TRUE
  /\ calls' = calls \cup {Invoke("connect", mode)}
  /\ UNCHANGED <<mode, snapshot, auth, authBusy, backend>>

\* Mutant: the diagnostics page offers its cleanup whatever is in progress.
EndAnyTime ==
  /\ Room /\ busy' = TRUE
  /\ calls' = calls \cup {Invoke("end", mode)}
  /\ UNCHANGED <<mode, snapshot, auth, authBusy, backend>>

\* disconnect while it runs; cleanup, on the diagnostics page, while it does not.
End ==
  /\ Uncovered /\ ~busy /\ Room
  /\ busy' = TRUE
  /\ calls' = calls \cup {Invoke("end", mode)}
  /\ UNCHANGED <<mode, snapshot, auth, authBusy, backend>>
-----------------------------------------------------------------------------
(* The buttons and timers of the session                                   *)

Request(what) ==
  /\ Room
  /\ authBusy' = TRUE
  /\ calls' = calls \cup {Invoke(what, NoMode)}
  /\ UNCHANGED <<mode, snapshot, busy, auth, backend>>

ConfigureAuth == auth = "form" /\ ~authBusy /\ Request("configure")
BeginQr       == auth \in {"ready", "qr"} /\ ~authBusy /\ Request("begin")
RefreshNodes  == auth = "home" /\ ~authBusy /\ Request("refresh")

\* The button beside the company's name is never disabled.
ResetAuth == (auth = "home" \/ (auth = "ready" /\ ~authBusy)) /\ Request("reset")

\* The two-second timer that applyAuth keeps while it shows a QR code; authPolling
\* lets one of its turns run at a time.
PollQr ==
  /\ auth = "qr" /\ InProgress(Polls) = {} /\ Room
  /\ calls' = calls \cup {Invoke("poll", NoMode)}
  /\ UNCHANGED <<window, backend>>
-----------------------------------------------------------------------------
(* What the controller does                                                *)

Answer(c, answer) == calls' = (calls \ {c}) \cup {[c EXCEPT !.answer = answer]}

Screen(s, qr) == IF s \notin LoggedIn THEN "form" ELSE IF s = "member" THEN "home"
                 ELSE IF qr THEN "qr" ELSE "ready"

\* load_auth_if_needed, and a server that no longer knows the session.
Loads     == IF session = "unloaded" THEN {"unloaded", "absent"} \cup LoggedIn ELSE {session}
Expire(s) == IF s = "member" THEN {"member", "guest"} ELSE {s}

\* status: what the helper said; or "unavailable", which does not say running.
ServeStatus(c) ==
  /\ c.what = "status" /\ c.answer = Asked
  /\ Answer(c, IF c.mode \in tunnels THEN "on" ELSE "off")
  /\ UNCHANGED <<window, backend>>

StatusTimesOut(c) ==
  /\ c.what = "status" /\ c.answer = Asked
  /\ Answer(c, "off")
  /\ UNCHANGED <<window, backend>>

\* connect: the tunnel is up and on record; or refused, failed, or started too late.
ServeConnect(c) ==
  /\ c.what = "connect" /\ c.answer = Asked
  /\ \E s \in Loads :
       \/ /\ s = "member" /\ active = NoMode
          /\ session' = s /\ active' = c.mode /\ tunnels' = tunnels \cup {c.mode}
          /\ Answer(c, "on")
       \/ /\ session' \in Expire(s)
          /\ \/ UNCHANGED tunnels
             \/ s = "member" /\ active = NoMode /\ tunnels' = tunnels \cup {c.mode}
          /\ Answer(c, "error") /\ UNCHANGED active
  /\ UNCHANGED <<window, challenge>>

\* stop and cleanup never reject.  The record goes with the tunnel if it is this mode's;
\* without an answer from the helper all stays, and the snapshot says unavailable.
ServeEnd(c) ==
  /\ c.what = "end" /\ c.answer = Asked
  /\ \/ /\ tunnels' = tunnels \ {c.mode}
        /\ IF active = c.mode THEN active' = NoMode /\ session' \in Expire(session)
           ELSE UNCHANGED <<active, session>>
     \/ tunnels' \in {tunnels, tunnels \ {c.mode}} /\ UNCHANGED <<active, session>>
  /\ Answer(c, "off")
  /\ UNCHANGED <<window, challenge>>

\* auth_status.
ServeAuthStatus(c) ==
  /\ c.what \in {"load", "recheck"} /\ c.answer = Asked
  /\ session' \in Loads
  /\ Answer(c, IF session' = "unloaded" THEN "error" ELSE Screen(session', challenge))
  /\ UNCHANGED <<window, tunnels, active, challenge>>

\* auth_configure replaces the session; or it failed before that.
ServeConfigure(c) ==
  /\ c.what = "configure" /\ c.answer = Asked
  /\ \/ session' = "guest" /\ challenge' = FALSE /\ active' = NoMode /\ Answer(c, "ready")
     \/ Answer(c, "error") /\ UNCHANGED <<session, challenge, active>>
  /\ UNCHANGED <<window, tunnels>>

\* auth_begin_qr.
ServeBegin(c) ==
  /\ c.what = "begin" /\ c.answer = Asked
  /\ \E s \in Loads :
       \/ /\ s \in LoggedIn /\ session' = s /\ challenge' = TRUE
          /\ Answer(c, Screen(s, TRUE))
       \/ session' \in Expire(s) /\ Answer(c, "error") /\ UNCHANGED challenge
  /\ UNCHANGED <<window, tunnels, active>>

\* auth_poll_qr: pending; or signed in, with or without the secret stored and the nodes
\* listed; or an error, one of which is that there is no challenge any more.
ServePoll(c) ==
  /\ c.what = "poll" /\ c.answer = Asked
  /\ \E s \in Loads :
       \/ /\ session' \in Expire(s) /\ Answer(c, "error") /\ UNCHANGED challenge
       \/ /\ s \in LoggedIn /\ challenge
          /\ \/ session' = s /\ Answer(c, Screen(s, TRUE)) /\ UNCHANGED challenge
             \/ session' = "member" /\ Answer(c, "error") /\ UNCHANGED challenge
             \/ session' = "member" /\ challenge' = FALSE /\ Answer(c, "home")
             \/ session' \in LoggedIn /\ challenge' = FALSE /\ Answer(c, "error")
  /\ UNCHANGED <<window, tunnels, active>>

\* auth_refresh_nodes.
ServeRefresh(c) ==
  /\ c.what = "refresh" /\ c.answer = Asked
  /\ \E s \in Loads : \/ s = "member" /\ session' = s /\ Answer(c, "home")
                      \/ session' \in Expire(s) /\ Answer(c, "error")
  /\ UNCHANGED <<window, tunnels, active, challenge>>

\* auth_reset: refused while a connection is on record; undone by nothing that fails later.
ServeReset(c) ==
  /\ c.what = "reset" /\ c.answer = Asked
  /\ \/ active = NoMode /\ session' = "absent" /\ challenge' = FALSE
        /\ \E answer \in {"form", "error"} : Answer(c, answer)
     \/ Answer(c, "error") /\ UNCHANGED <<session, challenge>>
  /\ UNCHANGED <<window, tunnels, active>>

Serve(c) == \/ ServeStatus(c) \/ ServeConnect(c) \/ ServeEnd(c) \/ ServeAuthStatus(c)
            \/ ServeConfigure(c) \/ ServeBegin(c) \/ ServePoll(c) \/ ServeRefresh(c)
            \/ ServeReset(c)

\* The helper's process ends, and its tunnel with it.
TunnelDies(m) == /\ m \in tunnels
                 /\ tunnels' = tunnels \ {m}
                 /\ UNCHANGED <<window, calls, active, session, challenge>>
-----------------------------------------------------------------------------
(* What the window makes of the answers                                    *)

Show(c) == snapshot' = [mode |-> c.mode, is |-> c.answer]

ShowStatus(c) ==
  /\ c.what = "status" /\ c.answer # Asked
  /\ Show(c)
  /\ calls' = calls \ {c}
  /\ UNCHANGED <<mode, busy, auth, authBusy, backend>>

ShowCommand(c) ==
  /\ c.what \in Commands /\ c.answer # Asked
  /\ c.answer # "error" => Show(c)
  /\ c.answer = "error" => UNCHANGED snapshot
  /\ busy' = FALSE
  /\ calls' = calls \ {c}
  /\ UNCHANGED <<mode, auth, authBusy, backend>>

\* applyAuth, after everything but a poll; loadAuth takes an error for no session, and a
\* configuration that is accepted goes on to ask for the QR code.
ShowRequest(c) ==
  /\ c.what \in Requests /\ c.answer # Asked
  /\ auth' = IF c.answer # "error" THEN c.answer ELSE IF c.what = "load" THEN "form" ELSE auth
  /\ IF c.what = "configure" /\ c.answer # "error"
     THEN authBusy' = TRUE /\ calls' = (calls \ {c}) \cup {Invoke("begin", NoMode)}
     ELSE /\ authBusy' = IF c.what = "load" THEN authBusy ELSE FALSE
          /\ calls' = calls \ {c}
  /\ UNCHANGED <<mode, snapshot, busy, backend>>

\* Mutant: a poll that failed does not ask for the status.
ShowPollOnly(c) ==
  /\ c.what \in Polls /\ c.answer # Asked
  /\ auth' = IF c.answer # "error" THEN c.answer ELSE auth
  /\ calls' = calls \ {c}
  /\ UNCHANGED <<mode, snapshot, busy, authBusy, backend>>

ShowPoll(c) ==
  /\ c.what \in Polls /\ c.answer # Asked
  /\ auth' = IF c.answer # "error" THEN c.answer ELSE auth
  /\ calls' = IF c.what = "poll" /\ c.answer = "error"
              THEN (calls \ {c}) \cup {Invoke("recheck", NoMode)} ELSE calls \ {c}
  /\ UNCHANGED <<mode, snapshot, busy, authBusy, backend>>

Display(c) == ShowStatus(c) \/ ShowCommand(c) \/ ShowRequest(c) \/ ShowPoll(c)
-----------------------------------------------------------------------------
Press == \/ Connect \/ End \/ ConfigureAuth \/ BeginQr \/ RefreshNodes \/ ResetAuth
         \/ \E m \in Modes : ChangeMode(m)

Next == \/ Press
        \/ Refresh \/ PollQr
        \/ \E c \in calls : Serve(c) \/ StatusTimesOut(c) \/ Display(c)
        \/ \E m \in Modes : TunnelDies(m)

\* Timers fire, the controller's commands end (module Controller) and their answers arrive.
Goes(whats, m) == \E c \in InProgress(whats) : c.mode = m /\ (Serve(c) \/ Display(c))

Fairness == /\ WF_vars(Refresh) /\ SF_vars(PollQr) /\ WF_vars(Goes(Polls, NoMode))
            /\ \A what \in Requests : WF_vars(Goes({what}, NoMode))
            /\ \A m \in Modes : WF_vars(Goes({"status"}, m)) /\ WF_vars(Goes(Commands, m))

Spec == Init /\ [][Next]_vars /\ Fairness
-----------------------------------------------------------------------------
(* Properties                                                              *)

\* At most one connect, stop or cleanup is in progress, whatever comes back and is shown
\* meanwhile: busy tells, and every button that starts one looks at it.  Module Controller
\* takes this for granted where it says Gated.
CommandsDoNotOverlap == /\ busy = (InProgress(Commands) # {})
                        /\ \A c, d \in InProgress(Commands) : c = d

\* Polling alone: nobody presses a button, no helper dies or stays silent.
Quiet == Refresh \/ \E c \in calls : ServeStatus(c) \/ ShowStatus(c)

Truth == [mode |-> mode, is |-> IF mode \in tunnels THEN "on" ELSE "off"]

\* Once the commands are over and nothing more happens, the window comes to show what the
\* helper of the selected mode does, and goes on to: an answer about the mode selected
\* before, or one given before a command, may be shown last but is not the last.
SnapshotSettles == <>[][Quiet]_vars => <>[](snapshot = Truth)

\* The window shows a QR code that the controller does not wait for any more.
StaleQr == auth = "qr" /\ ~(session = "guest" /\ challenge)

\* A QR code goes from the screen when it is of no use: the login that succeeded although
\* its poll reported an error is found out.  dashboard.spec.ts: "QR polling recovers after
\* a transient backend error".
QrGoesAway == StaleQr ~> ~StaleQr
=============================================================================
