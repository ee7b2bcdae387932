---------------------------- MODULE LauncherProofs ----------------------------
(***************************************************************************)
(* Proofs about the launcher, for any number of desktops and launches.     *)
(***************************************************************************)
EXTENDS Launcher, TLAPS

\* Without a terminal in between, the child in the slot is the helper until it has ended.
SlotInv == ~terminal =>
  \A h \in Helper : /\ Busy(h) => slot[owner[h]] = h
                    /\ helper[h] # "exited" => child[h] = "running"

\* A helper that has bound the path loses it to another desktop's helpers alone.
ReachInv == ~terminal => \A h \in Helper :
              helper[h] \in {"bound", "serving"} /\ path # h =>
                \E g \in Helper : owner[g] \notin {None, owner[h]}

\* The socket's helper is between its bind and its end, or was killed.
StaleInv == /\ path # None => helper[path] \in {"bound", "serving", "leaving"} \/ path \in killed
            /\ \A h \in killed : helper[h] = "exited"

IInv == TypeOK /\ SlotInv /\ ReachInv /\ StaleInv

LEMMA Consequences == IInv => OneHelperEach /\ ServingIsReached /\ StaleWasKilled
BY LauncherAssumption
DEF IInv, TypeOK, SlotInv, ReachInv, StaleInv, OneHelperEach, ServingIsReached, StaleWasKilled, Busy

LEMMA InitInv == Init => IInv
BY DEF Init, IInv, TypeOK, SlotInv, ReachInv, StaleInv, Busy

(* The desktop                                                             *)

LEMMA WindowInv ==
  ASSUME IInv, NEW d \in Desktop, Open(d) \/ Close(d) \/ EnsureRunning(d)
  PROVE  IInv'
<1>1. TypeOK'
  BY DEF IInv, TypeOK, Open, Close, EnsureRunning, launcher, process
<1>2. SlotInv' /\ ReachInv' /\ StaleInv'
  BY DEF IInv, SlotInv, ReachInv, StaleInv, Busy, Open, Close, EnsureRunning, launcher, process
<1>3. QED
  BY <1>1, <1>2 DEF IInv

LEMMA CallInv ==
  ASSUME IInv, NEW d \in Desktop, FirstHello(d) \/ Deadline(d)
  PROVE  IInv'
<1>1. TypeOK'
  BY DEF IInv, TypeOK, FirstHello, Deadline, Goto, process
<1>2. SlotInv' /\ ReachInv' /\ StaleInv'
  BY DEF IInv, SlotInv, ReachInv, StaleInv, Busy, FirstHello, Deadline, Goto, process
<1>3. QED
  BY <1>1, <1>2 DEF IInv

LEMMA SpawnInv ==
  ASSUME IInv, NEW d \in Desktop, SpawnIfNeeded(d)
  PROVE  IInv'
<1>1. CASE ~ChildRuns(d) /\ \E h \in Unused : Spawn(d, h)
  <2>1. PICK h \in Unused : Spawn(d, h)
    BY <1>1
  <2>2. /\ h \in Helper /\ helper[h] = "unused" /\ owner[h] = None
        /\ helper' = [helper EXCEPT ![h] = "asking"] /\ owner' = [owner EXCEPT ![h] = d]
        /\ slot' = [slot EXCEPT ![d] = h]
        /\ UNCHANGED <<terminal, desktop, child, path, killed>>
    BY <2>1 DEF SpawnIfNeeded, Spawn, Unused, IInv, TypeOK
  <2>3. TypeOK'
    BY <2>2, LauncherAssumption DEF IInv, TypeOK, SpawnIfNeeded, Goto
  <2>4. SlotInv'
    <3>1. ASSUME ~terminal, NEW g \in Helper, Busy(g) PROVE owner[g] \in Desktop \ {d}
      BY <1>1, <3>1, LauncherAssumption DEF IInv, TypeOK, SlotInv, Busy, ChildRuns
    <3>2. QED
      BY <2>2, <3>1 DEF IInv, TypeOK, SlotInv, Busy
  <2>5. ReachInv' /\ StaleInv'
    BY <2>2, LauncherAssumption DEF IInv, TypeOK, ReachInv, StaleInv
  <2>6. QED
    BY <2>3, <2>4, <2>5 DEF IInv
<1>2. CASE UNCHANGED <<owner, helper>>
           /\ (UNCHANGED slot \/ (~ChildRuns(d) /\ slot' = [slot EXCEPT ![d] = None]))
  <2>1. TypeOK'
    BY <1>2 DEF IInv, TypeOK, SpawnIfNeeded, Goto
  <2>2. SlotInv' /\ ReachInv' /\ StaleInv'
    BY <1>2 DEF IInv, TypeOK, SlotInv, ReachInv, StaleInv, Busy, ChildRuns, SpawnIfNeeded
  <2>3. QED
    BY <2>1, <2>2 DEF IInv
<1>3. QED
  <2>1. \/ ~ChildRuns(d) /\ \E h \in Unused : Spawn(d, h)
        \/ UNCHANGED <<slot, owner, helper>>
        \/ ~ChildRuns(d) /\ slot' = [slot EXCEPT ![d] = None] /\ UNCHANGED <<owner, helper>>
    BY Zenon DEF SpawnIfNeeded
  <2>2. QED
    BY <1>1, <1>2, <2>1

LEMMA PollInv ==
  ASSUME IInv, NEW d \in Desktop, Poll(d)
  PROVE  IInv'
<1>1. /\ UNCHANGED <<terminal, desktop, owner, child, helper, path, killed>>
      /\ UNCHANGED slot \/ (~ChildRuns(d) /\ slot' = [slot EXCEPT ![d] = None])
  <2>1. CASE ChildRuns(d)
    BY <2>1 DEF Poll, ChildExit, process, IInv, TypeOK
  <2>2. CASE ~ChildRuns(d)
    BY <2>2 DEF Poll, ChildExit, process
  <2>3. QED
    BY <2>1, <2>2
<1>2. TypeOK'
  BY <1>1 DEF IInv, TypeOK, Poll, ChildExit, Goto
<1>3. SlotInv' /\ ReachInv' /\ StaleInv'
  BY <1>1 DEF IInv, TypeOK, SlotInv, ReachInv, StaleInv, Busy, ChildRuns
<1>4. QED
  BY <1>2, <1>3 DEF IInv

(* The helper                                                              *)

\* What an end of the process does to the launcher's view of it.
LEMMA ExitChild ==
  ASSUME IInv, NEW h \in Helper, NEW status \in {"success", "failure"}, Exit(h, status)
  PROVE  /\ helper' = [helper EXCEPT ![h] = "exited"]
         /\ child' \in [Helper -> {"running", "success", "failure"}]
         /\ \A g \in Helper : g # h => child'[g] = child[g]
BY DEF Exit, IInv, TypeOK

LEMMA ExitInv ==
  ASSUME IInv, NEW h \in Helper, NEW status \in {"success", "failure"}, Exit(h, status),
         UNCHANGED <<terminal, desktop, launcher, owner>>, Busy(h),
         path' \in {path, None}, killed' \in {killed, killed \cup {h}},
         path' = h => h \in killed',
         path' # path => helper[h] \in {"bound", "leaving"}
  PROVE  IInv'
<1>1. TypeOK'
  BY ExitChild, LauncherAssumption DEF IInv, TypeOK, Busy, launcher
<1>2. SlotInv'
  BY ExitChild DEF IInv, TypeOK, SlotInv, Busy, launcher
<1>3. ASSUME ~terminal', NEW g \in Helper, helper'[g] \in {"bound", "serving"}, path' # g
      PROVE  \E k \in Helper : owner'[k] \notin {None, owner'[g]}
  <2>1. g # h /\ helper[g] \in {"bound", "serving"} /\ owner' = owner /\ ~terminal
    BY <1>3, ExitChild DEF IInv, TypeOK
  <2>2. CASE path # g
    BY <2>1, <2>2 DEF IInv, ReachInv
  <2>3. CASE path = g
    <3>1. Busy(g) /\ slot[owner[g]] = g /\ slot[owner[h]] = h
      BY <2>1 DEF IInv, SlotInv, Busy
    <3>2. owner[h] \notin {None, owner[g]}
      BY <2>1, <3>1 DEF IInv, TypeOK, Busy
    <3>3. QED
      BY <2>1, <3>2
  <2>4. QED
    BY <2>2, <2>3
<1>4. StaleInv'
  BY ExitChild, LauncherAssumption DEF IInv, TypeOK, StaleInv
<1>5. QED
  BY <1>1, <1>2, <1>3, <1>4 DEF IInv, ReachInv

LEMMA DetachInv ==
  ASSUME IInv, NEW h \in Helper, Detach(h)
  PROVE  IInv'
<1>1. TypeOK'
  BY DEF IInv, TypeOK, Detach, launcher
<1>2. SlotInv' /\ ReachInv' /\ StaleInv'
  BY DEF IInv, SlotInv, ReachInv, StaleInv, Busy, Detach, launcher
<1>3. QED
  BY <1>1, <1>2 DEF IInv

\* A helper on its way to another place, which leaves the path, takes it, or unlinks it.
LEMMA MoveInv ==
  ASSUME IInv, NEW h \in Helper, Unlink(h) \/ Leave(h) \/ Bind(h) \/ Configure(h),
         NEW place \in {"unlinked", "bound", "serving", "leaving"},
         helper' = [helper EXCEPT ![h] = place], UNCHANGED child
  PROVE  IInv'
<1>1. /\ UNCHANGED <<terminal, desktop, launcher, owner, child, killed>> /\ Busy(h)
      /\ \/ helper[h] = "asking" /\ place = "unlinked" /\ path' = None
         \/ helper[h] = "unlinked" /\ place = "bound" /\ path = None /\ path' = h
         \/ helper[h] = "bound" /\ place = "serving" /\ path' = path
         \/ helper[h] = "serving" /\ place = "leaving" /\ path' = path
  BY DEF Unlink, Leave, Bind, Configure, Exit, Busy, IInv, TypeOK
<1>2. TypeOK'
  BY <1>1, LauncherAssumption DEF IInv, TypeOK, launcher
<1>3. SlotInv'
  BY <1>1 DEF IInv, TypeOK, SlotInv, Busy, launcher
<1>4. ASSUME ~terminal', NEW g \in Helper, helper'[g] \in {"bound", "serving"}, path' # g
      PROVE  \E k \in Helper : owner'[k] \notin {None, owner'[g]}
  <2>1. helper[g] \in {"bound", "serving"} /\ owner' = owner /\ ~terminal
    BY <1>1, <1>4 DEF IInv, TypeOK
  <2>2. CASE path # g
    BY <2>1, <2>2 DEF IInv, ReachInv
  <2>3. CASE path = g
    <3>1. helper[h] = "asking" /\ g # h
      BY <1>1, <1>4, <2>1, <2>3, LauncherAssumption DEF IInv, TypeOK
    <3>2. slot[owner[g]] = g /\ slot[owner[h]] = h
      BY <2>1, <3>1 DEF IInv, SlotInv, Busy
    <3>3. owner[h] \notin {None, owner[g]}
      BY <3>1, <3>2 DEF IInv, TypeOK
    <3>4. QED
      BY <2>1, <3>3
  <2>4. QED
    BY <2>2, <2>3
<1>5. StaleInv'
  BY <1>1, LauncherAssumption DEF IInv, TypeOK, StaleInv
<1>6. QED
  BY <1>2, <1>3, <1>4, <1>5 DEF IInv, ReachInv

LEMMA HelperInv ==
  ASSUME IInv, NEW h \in Helper,
         Detach(h) \/ Refuse(h) \/ Unlink(h) \/ Leave(h) \/ HelperStep(h) \/ Kill(h)
  PROVE  IInv'
<1>1. CASE Detach(h)
  BY <1>1, DetachInv
<1>2. CASE Refuse(h)
  <2>1. path # h
    BY <1>2, LauncherAssumption DEF Refuse, IInv, StaleInv
  <2>2. QED
    BY <1>2, <2>1, ExitInv DEF Refuse, Busy
<1>3. CASE Unlink(h) \/ Leave(h)
  BY <1>3, MoveInv DEF Unlink, Leave
<1>4. CASE Bind(h)
  BY <1>4, MoveInv, ExitInv DEF Bind, Busy, IInv, StaleInv
<1>5. CASE Configure(h)
  BY <1>5, MoveInv, ExitInv, LauncherAssumption DEF Configure, Busy
<1>6. CASE Remove(h)
  BY <1>6, ExitInv, LauncherAssumption DEF Remove, Busy
<1>7. CASE Kill(h)
  BY <1>7, ExitInv DEF Kill
<1>8. QED
  BY <1>1, <1>2, <1>3, <1>4, <1>5, <1>6, <1>7 DEF HelperStep

LEMMA Inductive == Spec => []IInv
<1>1. IInv /\ UNCHANGED vars => IInv'
  BY DEF IInv, TypeOK, SlotInv, ReachInv, StaleInv, Busy, vars, launcher, process
<1>2. IInv /\ [Next]_vars => IInv'
  BY <1>1, WindowInv, CallInv, SpawnInv, PollInv, HelperInv DEF Next, DesktopStep
<1>3. QED
  BY InitInv, <1>2, PTL DEF Spec

\* The launcher's and the helpers' state keeps its types, and every helper that was launched
\* was told its desktop.
THEOREM LauncherTypeOK == Spec => []TypeOK
<1>1. IInv => TypeOK
  BY DEF IInv
<1>2. QED
  BY Inductive, <1>1, PTL

\* However many launches time out, are refused or are killed, no desktop has two helpers.
THEOREM AlwaysOneHelperEach == Spec => []OneHelperEach
BY Inductive, Consequences, PTL

\* A desktop's own launches and exits never cut its serving helper off from the path.
THEOREM ServingIsAlwaysReached == Spec => []ServingIsReached
BY Inductive, Consequences, PTL

\* Sockets are left behind by helpers that were killed and by no others, with a terminal or
\* without.
THEOREM StaleAlwaysWasKilled == Spec => []StaleWasKilled
BY Inductive, Consequences, PTL
===============================================================================
