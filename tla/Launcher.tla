------------------------------- MODULE Launcher -------------------------------
(***************************************************************************)
(* Who starts the tunnel helper of one mode, and who answers at its        *)
(* socket: ensure_running of the desktop's HelperLauncher, and the helper  *)
(* processes from their launch, through UnixServer's bind of the socket    *)
(* path, to the drop that removes it.  Nothing keeps a second desktop of   *)
(* the same user from running, and a helper outlives its desktop a little. *)
(***************************************************************************)

CONSTANTS Desktop,  \* processes of the desktop application
          Helper,   \* processes of the helper: as many launches as there are succeed
          None

ASSUME LauncherAssumption == None \notin Desktop \cup Helper

VARIABLES terminal,  \* a terminal asks for the authorisation, and may detach from it
          desktop,   \* not yet opened, open, or closed, by process
          pc,        \* where its ensure_running is
          late,      \* the deadline of its ensure_running has passed
          slot,      \* HelperChildren's entry for the mode
          owner,     \* --parent-pid of each helper
          child,     \* what try_wait says of the process that was spawned for it
          helper,    \* where the helper's main is
          path,      \* whose socket is at the socket path
          killed     \* history: helpers that were killed

launcher == <<pc, late, slot>>
process  == <<child, helper, path, killed>>
vars     == <<terminal, desktop, launcher, owner, process>>

TypeOK == /\ terminal \in BOOLEAN
          /\ desktop \in [Desktop -> {"new", "open", "closed"}]
          /\ pc \in [Desktop -> {"idle", "hello", "spawn", "wait"}]
          /\ late \in [Desktop -> BOOLEAN]
          /\ slot \in [Desktop -> Helper \cup {None}]
          /\ owner \in [Helper -> Desktop \cup {None}]
          /\ child \in [Helper -> {"running", "success", "failure"}]
          /\ helper \in [Helper -> {"unused", "asking", "unlinked", "bound", "serving",
                                    "leaving", "exited"}]
          /\ path \in Helper \cup {None}
          /\ killed \subseteq Helper
          /\ \A h \in Helper : owner[h] = None <=> helper[h] = "unused"

Init == /\ terminal \in BOOLEAN
        /\ desktop = [d \in Desktop |-> "new"]
        /\ pc = [d \in Desktop |-> "idle"] /\ late = [d \in Desktop |-> FALSE]
        /\ slot = [d \in Desktop |-> None]
        /\ owner = [h \in Helper |-> None] /\ child = [h \in Helper |-> "running"]
        /\ helper = [h \in Helper |-> "unused"]
        /\ path = None /\ killed = {}

Unused == {h \in Helper : helper[h] = "unused"}

Busy(h) == helper[h] \notin {"unused", "exited"}

\* process_exists denies it.
ParentGone(h) == owner[h] # None /\ desktop[owner[h]] = "closed"
-----------------------------------------------------------------------------
(* The desktop                                                             *)

Open(d) == /\ desktop[d] = "new"
           /\ desktop' = [desktop EXCEPT ![d] = "open"]
           /\ UNCHANGED <<terminal, launcher, owner, process>>

\* Its children live on.
Close(d) == /\ desktop[d] = "open"
            /\ desktop' = [desktop EXCEPT ![d] = "closed"]
            /\ pc' = [pc EXCEPT ![d] = "idle"] /\ late' = [late EXCEPT ![d] = FALSE]
            /\ UNCHANGED <<terminal, slot, owner, process>>

\* connect calls ensure_running with the auth mutex held: one call at a time.
EnsureRunning(d) == /\ desktop[d] = "open" /\ pc[d] = "idle"
                    /\ pc' = [pc EXCEPT ![d] = "hello"]
                    /\ UNCHANGED <<terminal, desktop, late, slot, owner, process>>

Goto(d, place) == /\ pc' = [pc EXCEPT ![d] = place]
                  /\ late' = [late EXCEPT ![d] = (place = "wait" /\ @)]

\* What hello may come to: an answer, none (helper_is_unavailable, a timeout among them), or
\* an error of another kind, as when the socket still belongs to root.
Hello == CASE path = None                           -> {"unavailable"}
           [] path # None /\ ~Busy(path)             -> {"unavailable"}
           [] path # None /\ helper[path] = "serving" -> {"answer", "unavailable", "error"}
           [] OTHER                                 -> {"unavailable", "error"}

FirstHello(d) ==
  /\ pc[d] = "hello"
  /\ \/ "answer" \in Hello /\ Goto(d, "idle")
     \/ Hello \ {"answer"} # {} /\ Goto(d, "spawn")
  /\ UNCHANGED <<terminal, desktop, slot, owner, process>>

\* Mutant: the helper is not told its parent.
SpawnUntold(d, h) == /\ helper' = [helper EXCEPT ![h] = "asking"]
                     /\ slot' = [slot EXCEPT ![d] = h]
                     /\ UNCHANGED owner

\* spawn_plan: a new process, with the desktop's process id.
Spawn(d, h) == /\ helper' = [helper EXCEPT ![h] = "asking"]
               /\ owner' = [owner EXCEPT ![h] = d]
               /\ slot' = [slot EXCEPT ![d] = h]

ChildRuns(d) == slot[d] # None /\ child[slot[d]] = "running"

\* Mutant: the child that is still in the slot is not looked at.
SpawnAlways(d) ==
  /\ pc[d] = "spawn"
  /\ \/ (\E h \in Unused : Spawn(d, h)) /\ Goto(d, "wait")
     \/ Goto(d, "idle") /\ UNCHANGED <<slot, owner, helper>>
  /\ UNCHANGED <<terminal, desktop, child, path, killed>>

\* A child that runs is left alone, one that has ended is replaced.  The binary may be
\* missing, and the new process may fail to start.
SpawnIfNeeded(d) ==
  /\ pc[d] = "spawn"
  /\ \/ Goto(d, "idle") /\ UNCHANGED <<slot, owner, helper>>
     \/ ChildRuns(d) /\ Goto(d, "wait") /\ UNCHANGED <<slot, owner, helper>>
     \/ ~ChildRuns(d) /\ (\E h \in Unused : Spawn(d, h)) /\ Goto(d, "wait")
     \/ ~ChildRuns(d) /\ slot' = [slot EXCEPT ![d] = None] /\ Goto(d, "idle")
        /\ UNCHANGED <<owner, helper>>
  /\ UNCHANGED <<terminal, desktop, child, path, killed>>

\* Five seconds, or sixty for an authorisation.
Deadline(d) == /\ pc[d] = "wait" /\ ~late[d]
               /\ late' = [late EXCEPT ![d] = TRUE]
               /\ UNCHANGED <<terminal, desktop, pc, slot, owner, process>>

\* child_exit_status: the slot is emptied of a child that has ended; only one that may
\* detach, and has ended well, is no error.
ChildExit(d) ==
  /\ slot' = [slot EXCEPT ![d] = IF ChildRuns(d) THEN @ ELSE None]
  /\ Goto(d, IF ~ChildRuns(d) /\ slot[d] # None /\ ~(terminal /\ child[slot[d]] = "success")
             THEN "idle" ELSE "wait")

\* Mutant: the retries go on after the deadline.
PollForEver(d) ==
  /\ pc[d] = "wait"
  /\ \/ Hello \ {"unavailable"} # {} /\ Goto(d, "idle") /\ UNCHANGED slot
     \/ "unavailable" \in Hello /\ ChildExit(d)
  /\ UNCHANGED <<terminal, desktop, owner, process>>

\* Mutant: after the deadline the child is forgotten.
PollForgets(d) ==
  /\ pc[d] = "wait"
  /\ \/ Hello \ {"unavailable"} # {} /\ Goto(d, "idle") /\ UNCHANGED slot
     \/ "unavailable" \in Hello /\ late[d] /\ Goto(d, "idle") /\ slot' = [slot EXCEPT ![d] = None]
     \/ "unavailable" \in Hello /\ ~late[d] /\ ChildExit(d)
  /\ UNCHANGED <<terminal, desktop, owner, process>>

\* One turn of ensure_running's loop.
Poll(d) ==
  /\ pc[d] = "wait"
  /\ \/ Hello \ {"unavailable"} # {} /\ Goto(d, "idle") /\ UNCHANGED slot
     \/ "unavailable" \in Hello /\ late[d] /\ Goto(d, "idle") /\ UNCHANGED slot
     \/ "unavailable" \in Hello /\ ~late[d] /\ ChildExit(d)
  /\ UNCHANGED <<terminal, desktop, owner, process>>
-----------------------------------------------------------------------------
(* The helper                                                              *)

\* The process that was spawned is the helper itself, by way of pkexec, and ends with it; a
\* terminal may pass another status on, or have detached.
Exit(h, status) ==
  /\ helper' = [helper EXCEPT ![h] = "exited"]
  /\ \E s \in {"success", "failure"} :
       /\ terminal \/ s = status
       /\ child' = [child EXCEPT ![h] = IF @ = "running" THEN s ELSE @]

Detach(h) == /\ terminal /\ Busy(h) /\ child[h] = "running"
             /\ child' = [child EXCEPT ![h] = "success"]
             /\ UNCHANGED <<terminal, desktop, launcher, owner, helper, path, killed>>

\* The user refuses the authorisation, or there is nobody to ask.
Refuse(h) == /\ helper[h] = "asking"
             /\ Exit(h, "failure")
             /\ UNCHANGED <<terminal, desktop, launcher, owner, path, killed>>

\* UnixServer::bind: remove_stale_socket does not ask whether anybody listens at it.
Unlink(h) == /\ helper[h] = "asking"
             /\ helper' = [helper EXCEPT ![h] = "unlinked"] /\ path' = None
             /\ UNCHANGED <<terminal, desktop, launcher, owner, child, killed>>

Bind(h) ==
  /\ helper[h] = "unlinked"
  /\ \/ /\ path = None
        /\ path' = h /\ helper' = [helper EXCEPT ![h] = "bound"] /\ UNCHANGED child
     \/ path # None /\ Exit(h, "failure") /\ UNCHANGED path
  /\ UNCHANGED <<terminal, desktop, launcher, owner, killed>>

\* configure_socket, of whatever is at the path now: without it, or on an error, bind
\* removes the path and fails.
Configure(h) ==
  /\ helper[h] = "bound"
  /\ \/ path # None /\ helper' = [helper EXCEPT ![h] = "serving"] /\ UNCHANGED <<child, path>>
     \/ Exit(h, "failure") /\ path' = None
  /\ UNCHANGED <<terminal, desktop, launcher, owner, killed>>

\* Mutant: only a signal ends the loop.
LeaveOnSignal(h) == /\ helper[h] = "serving" /\ ~ParentGone(h)
                    /\ helper' = [helper EXCEPT ![h] = "leaving"]
                    /\ UNCHANGED <<terminal, desktop, launcher, owner, child, path, killed>>

\* A signal, or wait_for_parent_exit.
Leave(h) == /\ helper[h] = "serving"
            /\ helper' = [helper EXCEPT ![h] = "leaving"]
            /\ UNCHANGED <<terminal, desktop, launcher, owner, child, path, killed>>

\* Mutant: the socket is left behind.
RemoveNothing(h) == /\ helper[h] = "leaving"
                    /\ Exit(h, "success")
                    /\ UNCHANGED <<terminal, desktop, launcher, owner, path, killed>>

\* main returns: after the supervisor the server is dropped, and removes what is at its path.
Remove(h) == /\ helper[h] = "leaving"
             /\ Exit(h, "success") /\ path' = None
             /\ UNCHANGED <<terminal, desktop, launcher, owner, killed>>

Kill(h) == /\ Busy(h)
           /\ Exit(h, "failure") /\ killed' = killed \cup {h}
           /\ UNCHANGED <<terminal, desktop, launcher, owner, path>>
-----------------------------------------------------------------------------
DesktopStep(d) == FirstHello(d) \/ SpawnIfNeeded(d) \/ Deadline(d) \/ Poll(d)

HelperStep(h) == Bind(h) \/ Configure(h) \/ Remove(h)

Next == \/ \E d \in Desktop : Open(d) \/ Close(d) \/ EnsureRunning(d) \/ DesktopStep(d)
        \/ \E h \in Helper : Detach(h) \/ Refuse(h) \/ Unlink(h) \/ Leave(h) \/ HelperStep(h) \/ Kill(h)

\* Every call of ensure_running is polled and its sleeps and timeouts end; a helper's start
\* and end are straight-line code; it looks for its parent every second.  Nobody has to
\* authorise a launch.
Fairness == /\ \A d \in Desktop : WF_vars(DesktopStep(d))
            /\ \A h \in Helper : /\ WF_vars(HelperStep(h))
                                 /\ WF_vars(ParentGone(h) /\ Leave(h))

Spec == Init /\ [][Next]_vars /\ Fairness
-----------------------------------------------------------------------------
(* Properties                                                              *)

\* spawn_if_needed: unless a terminal has detached from it, a desktop has one helper at a
\* time, whatever timed out, was refused or was killed before.
OneHelperEach ==
  ~terminal => \A g, h \in Helper : Busy(g) /\ Busy(h) /\ owner[g] = owner[h] => g = h

\* A helper that serves is reached at the socket path, unless another desktop has launched
\* one as well: a desktop never cuts its own helper off, by a launch or by a late exit.
ServingIsReached ==
  ~terminal => \A h \in Helper :
    helper[h] = "serving" /\ path # h =>
      \E g \in Helper : owner[g] \notin {None, owner[h]}

\* A socket that nobody listens at was left by a helper that was killed.
StaleWasKilled == path # None => Busy(path) \/ path \in killed

\* helper-protocol.md:49: a helper ends when its desktop has, also one that was authorised
\* only after that.
OrphansEnd ==
  \A h \in Helper :
    ParentGone(h) /\ helper[h] \notin {"asking", "exited"} ~> helper[h] = "exited"

\* Every call of ensure_running ends, with a helper or with an error.
EnsureRunningEnds == \A d \in Desktop : pc[d] # "idle" ~> pc[d] = "idle"
=============================================================================
