-------------------------- MODULE ControllerProofs --------------------------
(***************************************************************************)
(* The desktop controller keeps its types, accounts for every session the  *)
(* VPN server keeps for it, and never has two of them: for any number of   *)
(* overlapping commands, modes, sessions and faults, gated by the window   *)
(* or not.  Where the window lets one command run at a time, tunnels and   *)
(* the connection on record agree as well.                                 *)
(*                                                                         *)
(* The argument: whoever has a session's configuration in hand holds the   *)
(* auth mutex, and while it is held nothing is on record.  So what is      *)
(* owned is what the holder has in hand, or else what is on record.  The   *)
(* one write that could lose a record, the new session of auth_configure,  *)
(* is asked for only while no session is there, and until it is made there *)
(* are no nodes to connect to and no login to poll for.                    *)
(*                                                                         *)
(* For the tunnels: a socket holds requests that were given up and, behind *)
(* them, the one that is awaited.  So an answer means that all that was    *)
(* lost before has been served, and what is served later is known by what  *)
(* was given up since.                                                     *)
(*                                                                         *)
(* From the same invariant: the controller implements SessionLedger, its   *)
(* commands never wait in a circle and only advance, and a connection      *)
(* whose helper is gone stays stranded.                                    *)
(***************************************************************************)
EXTENDS Controller, TLAPS

\* A task that has left the window knows which helper it is for.
ModeInv == \A t \in Tasks : task[t].pc \notin {"idle", "configure"} => task[t].mode \in Modes

\* The holder of an exchange lock is in an exchange with that helper.
ExchangeInv == \A m \in Modes : exchange[m] # NoTask =>
                 task[exchange[m]].pc \in Calling /\ task[exchange[m]].mode = m

\* The auth mutex is held by the task that is where it is held, and by no other.
LockInv == \A t \in Tasks : task[t].pc \in Holding <=> lock = t

\* While it is held, nothing is on record.
HeldInv == lock # NoTask => active = NoConn

OwnInv == \A t \in Tasks : task[t].pc \in Owning => task[t].conf # NoConf

FreshInv == \A c \in live : c < nextConf

\* Without a session, and while one is being configured, there is nothing to connect to.
QuietInv == session \notin LoggedIn \/ Configuring =>
              active = NoConn /\ lock = NoTask /\ ~nodes /\ ~challenge

\* What the program owns, told from the mutex and the record alone.
InHand == IF lock # NoTask /\ task[lock].pc \in Owning THEN {task[lock].conf}
          ELSE IF active # NoConn THEN {active.conf} ELSE {}

LiveInv == stray \subseteq live /\ live \ stray = InHand

IInv == /\ TypeOK /\ ModeInv /\ ExchangeInv /\ LockInv /\ HeldInv /\ OwnInv /\ FreshInv
        /\ QuietInv /\ LiveInv

USE ControllerAssumption

LEMMA ControllerInit == Init => IInv
<1> SUFFICES ASSUME Init PROVE IInv
    OBVIOUS
<1> USE DEF Init, Idle, NoConf
<1>1. TypeOK
  <2>1. Idle \in Task
    BY DEF Task, Places
  <2>2. task \in [Tasks -> Task]
    BY <2>1
  <2>3. /\ queue \in [Modes -> Seq([cmd : Calling, conf : Confs \cup {NoConf}])]
        /\ tunnel \in [Modes -> Confs \cup {NoConf}]
    OBVIOUS
  <2>4. nextConf \in 1..(MaxConf + 1) /\ faults \in 0..MaxFaults
    OBVIOUS
  <2> QED
    BY <2>2, <2>3, <2>4 DEF TypeOK, NoConn
<1>2. ModeInv /\ ExchangeInv /\ LockInv /\ HeldInv /\ OwnInv
  BY DEF ModeInv, ExchangeInv, LockInv, HeldInv, OwnInv, Holding, Owning
<1>3. FreshInv /\ QuietInv /\ LiveInv
  BY DEF FreshInv, QuietInv, LiveInv, InHand, Configuring
<1> QED
  BY <1>1, <1>2, <1>3 DEF IInv

(* Commands that leave the tasks alone: only the session, the challenge    *)
(* and the nodes change.                                                   *)

LEMMA AuthKeepsInv ==
  ASSUME IInv, AuthStatus \/ AuthBeginQr \/ AuthPollQr \/ AuthRefreshNodes \/ AuthReset
  PROVE  IInv'
<1> USE DEF IInv, LoggedIn
<1>1. /\ UNCHANGED <<active, lock, task, helperVars, serverVars, faultVars>>
      /\ session' \in {"unloaded", "absent"} \cup LoggedIn
      /\ challenge' \in BOOLEAN /\ nodes' \in BOOLEAN
  BY DEF TypeOK, AuthStatus, AuthBeginQr, AuthPollQr, AuthRefreshNodes, AuthReset, Loads, Expire
<1>2. QuietInv'
  BY DEF TypeOK, QuietInv, Configuring, Free, Loads, Expire, AuthStatus, AuthBeginQr, AuthPollQr,
         AuthRefreshNodes, AuthReset
<1>3. TypeOK'
  BY <1>1 DEF TypeOK, helperVars, serverVars, faultVars
<1>4. /\ ModeInv' /\ ExchangeInv' /\ LockInv' /\ HeldInv'
      /\ OwnInv' /\ FreshInv' /\ LiveInv'
  BY <1>1 DEF ModeInv, ExchangeInv, LockInv, HeldInv, OwnInv, FreshInv, LiveInv, InHand,
              helperVars, serverVars
<1> QED
  BY <1>2, <1>3, <1>4

(* How a task moves: it alone, to a place of its own or with new contents. *)

Moved(t) == /\ task' \in [Tasks -> Task]
            /\ \A u \in Tasks \ {t} : task'[u] = task[u]

LEMMA GotoMoves ==
  ASSUME TypeOK, NEW t \in Tasks, NEW place \in Places, Goto(t, place)
  PROVE  /\ Moved(t)
         /\ task'[t].pc = place
         /\ place # "idle" => task'[t].mode = task[t].mode /\ task'[t].conf = task[t].conf
<1>1. Idle \in Task /\ Idle.pc = "idle"
  BY DEF Idle, Task, Places
<1>2. task[t] \in Task /\ task \in [Tasks -> Task]
  BY DEF TypeOK
<1>3. CASE place = "idle"
  BY <1>1, <1>2, <1>3 DEF Goto, Moved
<1>4. CASE place # "idle"
  <2> DEFINE r == [task[t] EXCEPT !.pc = place]
  <2>1. r \in Task /\ r.pc = place /\ r.mode = task[t].mode /\ r.conf = task[t].conf
    BY <1>2 DEF Task
  <2>2. task' = [task EXCEPT ![t] = r]
    BY <1>4 DEF Goto
  <2> HIDE DEF r
  <2> QED
    BY <1>2, <2>1, <2>2 DEF Moved
<1> QED
  BY <1>3, <1>4

LEMMA EnterMoves ==
  ASSUME TypeOK, NEW t \in Tasks, NEW place \in Places, NEW m \in Modes,
         NEW c \in Confs \cup {NoConf}, Enter(t, place, m, c)
  PROVE  Moved(t) /\ task'[t].pc = place /\ task'[t].mode = m /\ task'[t].conf = c
<1> DEFINE r == [pc |-> place, mode |-> m, conf |-> c]
<1>1. r \in Task /\ r.pc = place /\ r.mode = m /\ r.conf = c
  BY DEF Task
<1>2. task \in [Tasks -> Task] /\ task' = [task EXCEPT ![t] = r]
  BY DEF TypeOK, Enter
<1> HIDE DEF r
<1> QED
  BY <1>1, <1>2 DEF Moved

\* A move of a task that is in no exchange keeps what is said of tasks, if the place it
\* goes to fits what it has and the mutex goes with it.
LEMMA MoveKeepsTasks ==
  ASSUME IInv, NEW t \in Tasks, Moved(t),
         task[t].pc \notin Calling, exchange' = exchange,
         task'[t].pc \notin {"idle", "configure"} => task'[t].mode \in Modes,
         task'[t].pc \in Owning => task'[t].conf # NoConf,
         task'[t].pc \in Holding <=> lock' = t,
         lock' = lock \/ (lock \in {t, NoTask} /\ lock' \in {t, NoTask})
  PROVE  ModeInv' /\ OwnInv' /\ LockInv' /\ ExchangeInv'
<1>1. ModeInv' /\ OwnInv'
  BY DEF IInv, ModeInv, OwnInv, Moved
<1>2. LockInv'
  BY DEF IInv, LockInv, Moved
<1>3. ExchangeInv'
  <2>1. \A m \in Modes : exchange[m] # NoTask => exchange[m] \in Tasks \ {t}
    BY DEF IInv, ExchangeInv, TypeOK
  <2> QED
    BY <2>1 DEF IInv, ExchangeInv, Moved
<1> QED
  BY <1>1, <1>2, <1>3

(* Commands of a task that take and give no lock                           *)

LEMMA BeginKeepsInv ==
  ASSUME IInv, NEW t \in Tasks, Begin(t)
  PROVE  IInv'
<1> USE DEF IInv
<1>1. /\ task[t].pc = "idle" /\ Moved(t)
      /\ task'[t].pc \in {"configure", "connect", "end", "status"}
      /\ task'[t].pc # "configure" => task'[t].mode \in Modes
      /\ task'[t].pc = "configure" => session \notin LoggedIn
      /\ UNCHANGED <<authVars, active, lock, helperVars, serverVars, faultVars>>
  <2>1. CASE ConfigureBegin(t)
    BY <2>1, GotoMoves DEF ConfigureBegin, Places
  <2>2. CASE \E m \in Modes : ConnectBegin(t, m)
    BY <2>2, EnterMoves DEF ConnectBegin, Places, Main
  <2>3. ASSUME NEW m \in Modes, EndBegin(t, m)
        PROVE  task[t].pc = "idle" /\ Moved(t) /\ task'[t].pc = "end" /\ task'[t].mode \in Modes
               /\ UNCHANGED <<authVars, active, lock, helperVars, serverVars, faultVars>>
    <3>1. (IF active.mode = m THEN active.conf ELSE NoConf) \in Confs \cup {NoConf}
      BY DEF TypeOK, NoConn
    <3> QED
      BY <2>3, <3>1, EnterMoves DEF EndBegin, Places, Main
  <2>4. CASE \E m \in Modes : StatusBegin(t, m)
    BY <2>4, EnterMoves DEF StatusBegin, Places
  <2> QED
    BY <2>1, <2>2, <2>3, <2>4 DEF Begin
<1>2. TypeOK'
  BY <1>1 DEF TypeOK, Moved, authVars, helperVars, serverVars, faultVars
<1>3. lock # t
  BY <1>1 DEF LockInv, Holding, Owning
<1>4. ModeInv' /\ OwnInv' /\ LockInv' /\ ExchangeInv'
  BY <1>1, <1>3, MoveKeepsTasks DEF Holding, Owning, Calling, helperVars
<1>5. HeldInv' /\ FreshInv'
  BY <1>1 DEF HeldInv, FreshInv, serverVars
<1>6. QuietInv'
  BY <1>1 DEF QuietInv, Configuring, Moved, authVars
<1>7. LiveInv'
  <2>1. lock # NoTask => task'[lock] = task[lock]
    BY <1>1, <1>3 DEF TypeOK, Moved
  <2> QED
    BY <1>1, <2>1 DEF LiveInv, InHand, serverVars
<1> QED
  BY <1>2, <1>4, <1>5, <1>6, <1>7

LEMMA AuthConfigureKeepsInv ==
  ASSUME IInv, NEW t \in Tasks, AuthConfigure(t)
  PROVE  IInv'
<1> USE DEF IInv
<1>1. Moved(t) /\ task[t].pc = "configure" /\ task'[t].pc = "idle"
  BY GotoMoves DEF AuthConfigure, Places
<1>2. active = NoConn /\ active' = NoConn /\ lock = NoTask /\ lock' = NoTask
  BY <1>1 DEF QuietInv, Configuring, AuthConfigure
<1>3. /\ session' \in {"unloaded", "absent"} \cup LoggedIn
      /\ challenge' \in BOOLEAN /\ nodes' \in BOOLEAN
      /\ ~challenge' /\ ~nodes'
      /\ UNCHANGED <<helperVars, serverVars, faultVars>>
  <2>1. challenge = FALSE /\ nodes = FALSE
    BY <1>1 DEF QuietInv, Configuring, TypeOK
  <2>2. session \in {"unloaded", "absent"} \cup LoggedIn
    BY DEF TypeOK
  <2>3. /\ \/ session' = "guest" /\ challenge' = FALSE /\ nodes' = FALSE
           \/ UNCHANGED <<session, challenge, nodes>>
        /\ UNCHANGED <<helperVars, serverVars, faultVars>>
    BY DEF AuthConfigure, authVars
  <2> QED
    BY <2>1, <2>2, <2>3 DEF TypeOK, LoggedIn
<1>4. TypeOK'
  BY <1>1, <1>2, <1>3 DEF TypeOK, Moved, helperVars, serverVars, faultVars
<1>5. ModeInv' /\ OwnInv' /\ LockInv' /\ ExchangeInv'
  BY <1>1, <1>2, <1>3, MoveKeepsTasks DEF Holding, Owning, Calling, helperVars
<1>6. HeldInv' /\ FreshInv' /\ QuietInv'
  BY <1>2, <1>3 DEF HeldInv, FreshInv, QuietInv, serverVars
<1>7. LiveInv'
  BY <1>2, <1>3 DEF LiveInv, InHand, serverVars
<1> QED
  BY <1>4, <1>5, <1>6, <1>7

(* connect                                                                 *)

LEMMA ConnectCheckKeepsInv ==
  ASSUME IInv, NEW t \in Tasks, ConnectCheck(t)
  PROVE  IInv'
<1> USE DEF IInv
<1>1. /\ Moved(t) /\ task[t].pc = "connect" /\ lock = NoTask
      /\ session' \in Loads /\ session' \in {"unloaded", "absent"} \cup LoggedIn
      /\ UNCHANGED <<challenge, nodes, active, helperVars, serverVars, faultVars>>
      /\ \/ /\ task'[t].pc = "hello" /\ task'[t].mode = task[t].mode /\ lock' = t
            /\ session' = "member" /\ nodes /\ active = NoConn
         \/ task'[t].pc = "idle" /\ lock' = lock
  <2>1. /\ task[t].pc = "connect" /\ lock = NoTask /\ session' \in Loads
        /\ UNCHANGED <<challenge, nodes, active, helperVars, serverVars, faultVars>>
    BY DEF ConnectCheck, Free
  <2>2. session' \in {"unloaded", "absent"} \cup LoggedIn
    BY <2>1 DEF TypeOK, Loads
  <2>3. CASE session' = "member" /\ active = NoConn /\ nodes /\ lock' = t /\ Goto(t, "hello")
    BY <2>1, <2>2, <2>3, GotoMoves DEF Places, Main, Holding
  <2>4. CASE lock' = lock /\ Goto(t, "idle")
    BY <2>1, <2>2, <2>4, GotoMoves DEF Places
  <2> QED
    BY <2>3, <2>4 DEF ConnectCheck
<1>2. TypeOK'
  BY <1>1 DEF TypeOK, Moved, helperVars, serverVars, faultVars
<1>3. task[t].mode \in Modes
  BY <1>1 DEF ModeInv
<1>4. ModeInv' /\ OwnInv' /\ LockInv' /\ ExchangeInv'
  BY <1>1, <1>3, MoveKeepsTasks DEF Holding, Owning, Calling, helperVars
<1>5. HeldInv' /\ FreshInv'
  BY <1>1 DEF HeldInv, FreshInv, serverVars
<1>6. QuietInv'
  <2>1. Configuring' => Configuring
    BY <1>1 DEF Configuring, Moved
  <2>2. CASE lock' = t
    <3>1. nodes /\ session' = "member"
      BY <1>1, <2>2
    <3>2. ~Configuring
      BY <3>1 DEF QuietInv
    <3> QED
      BY <2>1, <3>1, <3>2 DEF QuietInv, LoggedIn
  <2>3. CASE lock' = lock
    BY <1>1, <2>1, <2>3 DEF QuietInv, Loads, LoggedIn
  <2> QED
    BY <1>1, <2>2, <2>3
<1>7. LiveInv'
  BY <1>1 DEF LiveInv, InHand, serverVars, Owning
<1> QED
  BY <1>2, <1>4, <1>5, <1>6, <1>7

\* The holder of the mutex: it owns what it has in hand, and nothing is on record.
LEMMA HolderAlone ==
  ASSUME IInv, NEW t \in Tasks, task[t].pc \in Holding
  PROVE  /\ lock = t /\ lock # NoTask /\ active = NoConn
         /\ session \in LoggedIn /\ ~Configuring
         /\ task[t].mode \in Modes
         /\ InHand = IF task[t].pc \in Owning THEN {task[t].conf} ELSE {}
<1>1. lock = t /\ lock # NoTask
  BY DEF IInv, LockInv
<1>2. active = NoConn /\ session \in LoggedIn /\ ~Configuring
  BY <1>1 DEF IInv, HeldInv, QuietInv
<1>3. task[t].mode \in Modes
  BY DEF IInv, ModeInv, Holding, Owning
<1> QED
  BY <1>1, <1>2, <1>3 DEF InHand

LEMMA LaunchKeepsInv ==
  ASSUME IInv, NEW t \in Tasks, Launch(t)
  PROVE  IInv'
<1> USE DEF IInv
<1>1. task[t].pc = "launch" /\ task[t].pc \in Holding \ Owning
  BY DEF Launch, Holding, Owning
<1>2. /\ lock = t /\ lock # NoTask /\ active = NoConn /\ session \in LoggedIn /\ ~Configuring
      /\ task[t].mode \in Modes /\ InHand = {}
  BY <1>1, HolderAlone
<1>3. /\ Moved(t)
      /\ \/ task'[t].pc = "prepare" /\ task'[t].mode = task[t].mode /\ lock' = t
         \/ task'[t].pc = "idle" /\ lock' = NoTask
      /\ up' \in [Modes -> BOOLEAN]
      /\ UNCHANGED <<authVars, active, exchange, queue, tunnel, serverVars, faultVars>>
  <2>1. up' \in {up, [up EXCEPT ![task[t].mode] = TRUE]}
    BY DEF Launch
  <2>2. up' \in [Modes -> BOOLEAN]
    BY <2>1 DEF TypeOK
  <2>3. UNCHANGED <<authVars, active, exchange, queue, tunnel, serverVars, faultVars>>
    BY DEF Launch
  <2>4. CASE Goto(t, "prepare") /\ UNCHANGED lock
    BY <1>2, <2>2, <2>3, <2>4, GotoMoves DEF Places, Main, Holding
  <2>5. CASE Finish(t)
    BY <2>2, <2>3, <2>5, GotoMoves DEF Finish, Places
  <2> QED
    BY <2>4, <2>5 DEF Launch
<1>4. TypeOK'
  BY <1>3 DEF TypeOK, Moved, authVars, serverVars, faultVars
<1>5. ModeInv' /\ OwnInv' /\ LockInv' /\ ExchangeInv'
  BY <1>1, <1>2, <1>3, MoveKeepsTasks DEF Holding, Owning, Calling
<1>6. HeldInv' /\ FreshInv' /\ QuietInv'
  BY <1>2, <1>3 DEF HeldInv, FreshInv, QuietInv, Configuring, Moved, authVars, serverVars
<1>7. LiveInv'
  BY <1>2, <1>3 DEF LiveInv, InHand, serverVars, Owning
<1> QED
  BY <1>4, <1>5, <1>6, <1>7

LEMMA PrepareKeepsInv ==
  ASSUME IInv, NEW t \in Tasks, Prepare(t)
  PROVE  IInv'
<1> USE DEF IInv
<1>1. task[t].pc = "prepare" /\ task[t].pc \in Holding \ Owning
  BY DEF Prepare, Holding, Owning
<1>2. /\ lock = t /\ lock # NoTask /\ active = NoConn /\ session \in LoggedIn /\ ~Configuring
      /\ task[t].mode \in Modes /\ InHand = {}
  BY <1>1, HolderAlone
<1>3. UNCHANGED <<challenge, nodes, active, helperVars, faultVars>>
  BY DEF Prepare
<1>4. CASE /\ nextConf <= MaxConf /\ nextConf' = nextConf + 1 /\ live' = live \cup {nextConf}
           /\ Enter(t, "start", task[t].mode, nextConf)
           /\ UNCHANGED <<session, stray, lock>>
  <2>1. nextConf \in Confs /\ nextConf # NoConf
    BY <1>4 DEF TypeOK, Confs, NoConf
  <2>2. /\ Moved(t) /\ task'[t].pc = "start" /\ task'[t].mode = task[t].mode
        /\ task'[t].conf = nextConf
    BY <1>2, <1>4, <2>1, EnterMoves DEF Places, Main, Holding, Owning
  <2>3. TypeOK'
    <3>1. live' \subseteq Confs /\ nextConf' \in 1..(MaxConf + 1)
      BY <1>4, <2>1 DEF TypeOK
    <3> QED
      BY <1>3, <1>4, <2>2, <3>1 DEF TypeOK, Moved, helperVars, faultVars
  <2>4. ModeInv' /\ OwnInv' /\ LockInv' /\ ExchangeInv'
    BY <1>1, <1>2, <1>3, <1>4, <2>1, <2>2, MoveKeepsTasks DEF Holding, Owning, Calling, helperVars
  <2>5. HeldInv' /\ QuietInv'
    BY <1>2, <1>3, <1>4, <2>2 DEF HeldInv, QuietInv, Configuring, Moved
  <2>6. FreshInv'
    BY <1>4 DEF FreshInv, TypeOK, Confs
  <2>7. LiveInv'
    <3>1. nextConf \notin live /\ nextConf \notin stray
      BY DEF FreshInv, LiveInv, TypeOK
    <3> QED
      BY <1>2, <1>4, <2>2, <3>1 DEF LiveInv, InHand, Owning
  <2> QED
    BY <2>3, <2>4, <2>5, <2>6, <2>7
<1>5. CASE Finish(t)
  <2>1. Moved(t) /\ task'[t].pc = "idle" /\ lock' = NoTask
    BY <1>5, GotoMoves DEF Finish, Places
  <2>2. session' \in LoggedIn
    BY <1>1, <1>2, <1>5 DEF Prepare, Expire, LoggedIn
  <2>3. ModeInv' /\ OwnInv' /\ LockInv' /\ ExchangeInv'
    BY <1>1, <1>2, <1>3, <2>1, MoveKeepsTasks DEF Holding, Owning, Calling, helperVars
  <2>4. HeldInv' /\ QuietInv'
    BY <1>2, <1>3, <2>1, <2>2 DEF HeldInv, QuietInv, Configuring, Moved
  <2>5. CASE UNCHANGED serverVars
    <3>1. TypeOK'
      BY <1>3, <2>1, <2>2, <2>5 DEF TypeOK, Moved, helperVars, serverVars, faultVars
    <3>2. FreshInv' /\ LiveInv'
      BY <1>2, <1>3, <2>1, <2>5 DEF FreshInv, LiveInv, InHand, serverVars
    <3> QED
      BY <2>3, <2>4, <3>1, <3>2
  <2>6. CASE /\ nextConf <= MaxConf /\ nextConf' = nextConf + 1
             /\ live' = live \cup {nextConf} /\ stray' = stray \cup {nextConf}
    <3>1. nextConf \in Confs /\ nextConf' \in 1..(MaxConf + 1)
      BY <2>6 DEF TypeOK, Confs
    <3>2. TypeOK'
      BY <1>3, <2>1, <2>2, <2>6, <3>1 DEF TypeOK, Moved, helperVars, faultVars
    <3>3. FreshInv'
      BY <2>6 DEF FreshInv, TypeOK, Confs
    <3>4. LiveInv'
      BY <1>2, <1>3, <2>1, <2>6 DEF LiveInv, InHand
    <3> QED
      BY <2>3, <2>4, <3>2, <3>3, <3>4
  <2>7. task[t].pc # "start" /\ task'[t].pc # "start"
    BY <1>1, <2>1
  <2> QED
    BY <1>1, <1>4, <2>5, <2>6, <2>7 DEF Prepare
<1> QED
  BY <1>4, <1>5 DEF Prepare

LEMMA RecordKeepsInv ==
  ASSUME IInv, NEW t \in Tasks, Record(t)
  PROVE  IInv'
<1> USE DEF IInv
<1>1. task[t].pc = "record" /\ task[t].pc \in Holding /\ task[t].pc \in Owning
  BY DEF Record, Holding, Owning
<1>2. /\ lock = t /\ lock # NoTask /\ active = NoConn /\ session \in LoggedIn /\ ~Configuring
      /\ task[t].mode \in Modes /\ InHand = {task[t].conf}
  BY <1>1, HolderAlone
<1>3. task[t].conf \in Confs
  BY <1>1 DEF OwnInv, TypeOK, Task
<1>4. /\ Moved(t) /\ task'[t].pc = "idle" /\ lock' = NoTask
      /\ active' = [mode |-> task[t].mode, conf |-> task[t].conf]
      /\ UNCHANGED <<authVars, helperVars, serverVars, faultVars>>
  BY GotoMoves DEF Record, Finish, Places
<1>5. TypeOK'
  BY <1>2, <1>3, <1>4 DEF TypeOK, Moved, authVars, helperVars, serverVars, faultVars
<1>6. ModeInv' /\ OwnInv' /\ LockInv' /\ ExchangeInv'
  BY <1>1, <1>2, <1>4, MoveKeepsTasks DEF Holding, Owning, Calling, helperVars
<1>7. HeldInv' /\ FreshInv' /\ QuietInv'
  BY <1>2, <1>4 DEF HeldInv, FreshInv, QuietInv, Configuring, Moved, authVars, serverVars
<1>8. LiveInv'
  <2>1. active' # NoConn
    BY <1>2, <1>4 DEF NoConn
  <2> QED
    BY <1>2, <1>4, <2>1 DEF LiveInv, InHand, serverVars
<1> QED
  BY <1>5, <1>6, <1>7, <1>8

(* stop and cleanup                                                        *)

LEMMA ReleaseKeepsInv ==
  ASSUME IInv, NEW t \in Tasks, Release(t)
  PROVE  IInv'
<1> USE DEF IInv
<1>1. /\ task[t].pc = "release" /\ lock = NoTask /\ task[t].mode \in Modes
      /\ UNCHANGED <<authVars, helperVars, serverVars, faultVars>>
  BY DEF Release, Free, ModeInv
<1>2. CASE active # NoConn /\ active.mode = task[t].mode
  <2>1. active.conf \in Confs /\ active.conf # NoConf
    BY <1>2 DEF TypeOK, Confs, NoConf
  <2>2. /\ Moved(t) /\ task'[t].pc = "disconnect" /\ task'[t].mode = task[t].mode
        /\ task'[t].conf = active.conf /\ active' = NoConn /\ lock' = t
    BY <1>1, <1>2, <2>1, EnterMoves DEF Release, Places, Main, Holding, Owning
  <2>3. TypeOK'
    BY <1>1, <2>2 DEF TypeOK, Moved, authVars, helperVars, serverVars, faultVars
  <2>4. ModeInv' /\ OwnInv' /\ LockInv' /\ ExchangeInv'
    BY <1>1, <2>1, <2>2, MoveKeepsTasks DEF Holding, Owning, Calling, helperVars
  <2>5. HeldInv' /\ FreshInv'
    BY <1>1, <2>2 DEF HeldInv, FreshInv, serverVars
  <2>6. QuietInv'
    BY <1>1, <1>2, <2>2 DEF QuietInv, Configuring, Moved, authVars
  <2>7. LiveInv'
    BY <1>1, <1>2, <2>2 DEF LiveInv, InHand, Owning, serverVars
  <2> QED
    BY <2>3, <2>4, <2>5, <2>6, <2>7
<1>3. CASE ~(active # NoConn /\ active.mode = task[t].mode)
  <2>1. /\ Moved(t) /\ task'[t].pc = "idle" /\ UNCHANGED <<active, lock>>
    BY <1>3, GotoMoves DEF Release, Places
  <2>2. TypeOK'
    BY <1>1, <2>1 DEF TypeOK, Moved, authVars, helperVars, serverVars, faultVars
  <2>3. ModeInv' /\ OwnInv' /\ LockInv' /\ ExchangeInv'
    BY <1>1, <2>1, MoveKeepsTasks DEF Holding, Owning, Calling, helperVars
  <2>4. HeldInv' /\ FreshInv' /\ QuietInv'
    BY <1>1, <2>1 DEF HeldInv, FreshInv, QuietInv, Configuring, Moved, authVars, serverVars
  <2>5. LiveInv'
    BY <1>1, <2>1 DEF LiveInv, InHand, serverVars
  <2> QED
    BY <2>2, <2>3, <2>4, <2>5
<1> QED
  BY <1>2, <1>3

LEMMA DisconnectKeepsInv ==
  ASSUME IInv, NEW t \in Tasks, Disconnect(t)
  PROVE  IInv'
<1> USE DEF IInv
<1>1. task[t].pc \in {"undo", "disconnect"} /\ task[t].pc \in Holding /\ task[t].pc \in Owning
  BY DEF Disconnect, Holding, Owning
<1>2. /\ lock = t /\ lock # NoTask /\ active = NoConn /\ session \in LoggedIn /\ ~Configuring
      /\ task[t].mode \in Modes /\ InHand = {task[t].conf}
  BY <1>1, HolderAlone
<1>3. /\ Moved(t) /\ task'[t].pc = "idle" /\ lock' = NoTask
      /\ UNCHANGED <<challenge, nodes, active, helperVars, nextConf, faultVars>>
  BY GotoMoves DEF Disconnect, Finish, Places
<1>4. /\ session' \in LoggedIn
      /\ \/ live' = live \ {task[t].conf} /\ stray' = stray
         \/ live' = live /\ stray' = stray \cup {task[t].conf}
  BY <1>2 DEF Disconnect, Expire, LoggedIn
<1>5. task[t].conf \in live \ stray
  BY <1>2 DEF LiveInv
<1>6. live' \subseteq live /\ stray' \subseteq live' /\ live' \ stray' = {}
  BY <1>2, <1>4, <1>5 DEF LiveInv
<1>7. TypeOK'
  BY <1>3, <1>4, <1>6 DEF TypeOK, Moved, helperVars, faultVars
<1>8. ModeInv' /\ OwnInv' /\ LockInv' /\ ExchangeInv'
  BY <1>1, <1>2, <1>3, MoveKeepsTasks DEF Holding, Owning, Calling, helperVars
<1>9. HeldInv' /\ FreshInv' /\ QuietInv' /\ LiveInv'
  BY <1>2, <1>3, <1>4, <1>6
     DEF HeldInv, FreshInv, QuietInv, LiveInv, InHand, Configuring, Moved
<1> QED
  BY <1>7, <1>8, <1>9

(* The exchange with a helper                                              *)

\* An answer, or the want of one, moves a task on with what it has and holds.
LEMMA ReplyMoves ==
  ASSUME IInv, NEW t \in Tasks, NEW ok \in BOOLEAN, task[t].pc \in Calling, Reply(t, ok)
  PROVE  /\ Moved(t)
         /\ task'[t].pc \in {"idle", "prepare", "launch", "record", "undo", "release", "stats"}
         /\ task'[t].pc # "idle" => task'[t].mode = task[t].mode /\ task'[t].conf = task[t].conf
         /\ task'[t].pc \in Holding <=> task[t].pc \in Holding
         /\ task'[t].pc \in Owning <=> task[t].pc \in Owning
<1> DEFINE place == IF ok THEN OnSuccess[task[t].pc] ELSE OnFailure[task[t].pc]
<1>1. /\ place \in {"idle", "prepare", "launch", "record", "undo", "release", "stats"}
      /\ place \in Holding <=> task[t].pc \in Holding
      /\ place \in Owning <=> task[t].pc \in Owning
  BY DEF Calling, OnSuccess, OnFailure, Holding, Owning
<1>2. place \in Places /\ Goto(t, place)
  BY <1>1 DEF Reply, Places, Main, Holding, Owning
<1>3. TypeOK
  BY DEF IInv
<1> HIDE DEF place
<1> QED
  BY <1>1, <1>2, <1>3, GotoMoves

LEMMA ReplyKeepsInv ==
  ASSUME IInv, NEW t \in Tasks, NEW ok \in BOOLEAN, task[t].pc \in Calling, Reply(t, ok),
         exchange' = [exchange EXCEPT ![task[t].mode] = NoTask],
         UNCHANGED <<authVars, active, lock, serverVars>>
  PROVE  /\ task' \in [Tasks -> Task] /\ exchange' \in [Modes -> Tasks \cup {NoTask}]
         /\ ModeInv' /\ ExchangeInv' /\ LockInv' /\ HeldInv' /\ OwnInv' /\ FreshInv'
         /\ QuietInv' /\ LiveInv'
<1> USE DEF IInv
<1>1. /\ Moved(t)
      /\ task'[t].pc \in {"idle", "prepare", "launch", "record", "undo", "release", "stats"}
      /\ task'[t].pc # "idle" => task'[t].mode = task[t].mode /\ task'[t].conf = task[t].conf
      /\ task'[t].pc \in Holding <=> task[t].pc \in Holding
      /\ task'[t].pc \in Owning <=> task[t].pc \in Owning
  BY ReplyMoves
<1>2. task[t].mode \in Modes
  BY DEF ModeInv, Calling
<1>3. task' \in [Tasks -> Task] /\ exchange' \in [Modes -> Tasks \cup {NoTask}]
  BY <1>1 DEF Moved, TypeOK
<1>4. ModeInv' /\ OwnInv' /\ LockInv'
  BY <1>1, <1>2 DEF ModeInv, OwnInv, LockInv, Moved, Owning
<1>5. ExchangeInv'
  <2>1. \A m \in Modes : exchange'[m] # NoTask => exchange'[m] = exchange[m] /\ exchange[m] # t
    BY <1>2 DEF TypeOK, ExchangeInv
  <2>2. \A m \in Modes : exchange[m] \in Tasks \cup {NoTask}
    BY DEF TypeOK
  <2> QED
    BY <1>1, <2>1, <2>2 DEF ExchangeInv, Moved
<1>6. HeldInv' /\ FreshInv'
  BY DEF HeldInv, FreshInv, serverVars
<1>7. QuietInv'
  BY <1>1 DEF QuietInv, Configuring, Moved, authVars
<1>8. LiveInv'
  <2>1. InHand' = InHand
    <3>1. CASE lock = t
      BY <1>1, <3>1 DEF InHand, Owning
    <3>2. CASE lock # t
      BY <1>1, <3>2 DEF InHand, Moved, TypeOK
    <3> QED
      BY <3>1, <3>2
  <2> QED
    BY <2>1 DEF LiveInv, serverVars
<1> QED
  BY <1>3, <1>4, <1>5, <1>6, <1>7, <1>8

Request == [cmd : Calling, conf : Confs \cup {NoConf}]

LEMMA QueueTypes ==
  ASSUME NEW q \in Seq(Request)
  PROVE  /\ \A r \in Request : Append(q, r) \in Seq(Request)
         /\ q # <<>> => Head(q) \in Request /\ Tail(q) \in Seq(Request)
         /\ SubSeq(q, 1, Len(q) - 1) \in Seq(Request)
OBVIOUS

LEMMA QueueFacts ==
  ASSUME NEW q \in Seq(Request), q # <<>>
  PROVE  /\ Len(q) \in Nat \ {0} /\ Head(q) = q[1] /\ Len(Tail(q)) = Len(q) - 1
         /\ \A i \in 1..Len(Tail(q)) : Tail(q)[i] = q[i + 1]
         /\ Len(SubSeq(q, 1, Len(q) - 1)) = Len(q) - 1
         /\ \A i \in 1..(Len(q) - 1) : SubSeq(q, 1, Len(q) - 1)[i] = q[i]
<1>1. Len(q) \in Nat \ {0} /\ Head(q) = q[1] /\ Len(Tail(q)) = Len(q) - 1
  OBVIOUS
<1>2. \A i \in 1..Len(Tail(q)) : Tail(q)[i] = q[i + 1]
  BY <1>1
<1>3. SubSeq(q, 1, Len(q) - 1) = [i \in 1..(Len(q) - 1) |-> q[i]]
  BY <1>1
<1>4. Len(SubSeq(q, 1, Len(q) - 1)) = Len(q) - 1
  BY <1>1
<1> QED
  BY <1>1, <1>2, <1>3, <1>4

LEMMA LastOfTail ==
  ASSUME NEW q \in Seq(Request), q # <<>>, Len(q) # 1
  PROVE  Tail(q) # <<>> /\ Tail(q)[Len(Tail(q))] = q[Len(q)]
<1>1. /\ Len(q) \in Nat \ {0} /\ Len(Tail(q)) = Len(q) - 1
      /\ \A i \in 1..Len(Tail(q)) : Tail(q)[i] = q[i + 1]
  BY QueueFacts
<1>2. PICK n \in Nat \ {0} : Len(q) = n + 1
  <2>1. PICK k \in Nat \ {0} : k = Len(q)
    BY <1>1
  <2>2. k - 1 \in Nat \ {0} /\ k = (k - 1) + 1
    BY <2>1
  <2> QED
    BY <2>1, <2>2
<1>3. Len(Tail(q)) = n /\ Tail(q)[n] = q[n + 1]
  BY <1>1, <1>2
<1> QED
  BY <1>2, <1>3

LEMMA AppendFacts ==
  ASSUME NEW q \in Seq(Request), NEW r \in Request
  PROVE  /\ Len(Append(q, r)) = Len(q) + 1 /\ Len(q) \in Nat
         /\ \A i \in 1..Len(q) : Append(q, r)[i] = q[i]
         /\ Append(q, r)[Len(q) + 1] = r
OBVIOUS

LEMMA SendKeepsInv ==
  ASSUME IInv, NEW t \in Tasks, Send(t)
  PROVE  IInv'
<1> USE DEF IInv
<1> DEFINE m == task[t].mode
<1>1. /\ task[t].pc \in Calling /\ exchange[m] = NoTask /\ m \in Modes
      /\ UNCHANGED <<authVars, active, lock, up, tunnel, serverVars, faultVars>>
  BY DEF Send, ModeInv, Calling
<1>2. CASE up[m]
  <2>1. /\ exchange' = [exchange EXCEPT ![m] = t]
        /\ queue' = [queue EXCEPT ![m] = Append(@, [cmd |-> task[t].pc, conf |-> task[t].conf])]
        /\ task' = task
    BY <1>2 DEF Send
  <2>2. queue' \in [Modes -> Seq(Request)] /\ exchange' \in [Modes -> Tasks \cup {NoTask}]
    <3>1. [cmd |-> task[t].pc, conf |-> task[t].conf] \in Request
      BY <1>1 DEF TypeOK, Task, Request
    <3>2. queue \in [Modes -> Seq(Request)] /\ exchange \in [Modes -> Tasks \cup {NoTask}]
      BY DEF TypeOK, Request
    <3> HIDE DEF m
    <3> QED
      BY <1>1, <2>1, <3>1, <3>2, QueueTypes
  <2>3. TypeOK'
    BY <1>1, <2>1, <2>2 DEF TypeOK, Request, authVars, serverVars, faultVars
  <2>4. ExchangeInv'
    <3>1. exchange \in [Modes -> Tasks \cup {NoTask}]
      BY DEF TypeOK
    <3> QED
      BY <1>1, <2>1, <3>1 DEF ExchangeInv
  <2>5. ModeInv' /\ OwnInv' /\ LockInv' /\ HeldInv' /\ FreshInv'
    BY <1>1, <2>1 DEF ModeInv, OwnInv, LockInv, HeldInv, FreshInv, serverVars
  <2>6. QuietInv' /\ LiveInv'
    BY <1>1, <2>1 DEF QuietInv, Configuring, LiveInv, InHand, authVars, serverVars
  <2> QED
    BY <2>3, <2>4, <2>5, <2>6
<1>3. CASE ~up[m]
  <2>1. Reply(t, FALSE) /\ exchange' = exchange /\ queue' = queue
    BY <1>3 DEF Send
  <2>2. exchange' = [exchange EXCEPT ![m] = NoTask]
    <3>1. exchange \in [Modes -> Tasks \cup {NoTask}]
      BY DEF TypeOK
    <3> QED
      BY <1>1, <2>1, <3>1
  <2>3. /\ task' \in [Tasks -> Task]
        /\ ModeInv' /\ ExchangeInv' /\ LockInv' /\ HeldInv' /\ OwnInv' /\ FreshInv'
        /\ QuietInv' /\ LiveInv'
    BY <1>1, <2>1, <2>2, ReplyKeepsInv
  <2>4. TypeOK'
    BY <1>1, <2>1, <2>3 DEF TypeOK, authVars, serverVars, faultVars
  <2> QED
    BY <2>3, <2>4
<1> QED
  BY <1>2, <1>3

\* What the three ends of an exchange have in common.
LEMMA EndOfExchange ==
  ASSUME IInv, NEW m \in Modes, NEW ok \in BOOLEAN,
         \/ /\ exchange[m] # NoTask /\ Reply(exchange[m], ok)
            /\ exchange' = [exchange EXCEPT ![m] = NoTask]
         \/ UNCHANGED <<task, exchange>>,
         UNCHANGED <<authVars, active, lock, serverVars>>
  PROVE  /\ task' \in [Tasks -> Task] /\ exchange' \in [Modes -> Tasks \cup {NoTask}]
         /\ ModeInv' /\ ExchangeInv' /\ LockInv' /\ HeldInv' /\ OwnInv' /\ FreshInv'
         /\ QuietInv' /\ LiveInv'
<1> USE DEF IInv
<1>1. CASE /\ exchange[m] # NoTask /\ Reply(exchange[m], ok)
           /\ exchange' = [exchange EXCEPT ![m] = NoTask]
  <2>1. /\ exchange[m] \in Tasks
        /\ task[exchange[m]].pc \in Calling /\ task[exchange[m]].mode = m
    BY <1>1 DEF TypeOK, ExchangeInv
  <2> QED
    BY <1>1, <2>1, ReplyKeepsInv
<1>2. CASE UNCHANGED <<task, exchange>>
  BY <1>2 DEF TypeOK, ModeInv, ExchangeInv, LockInv, HeldInv, OwnInv, FreshInv, QuietInv,
              LiveInv, InHand, Configuring, authVars, serverVars
<1> QED
  BY <1>1, <1>2

LEMMA ServeKeepsInv ==
  ASSUME IInv, NEW m \in Modes, Serve(m)
  PROVE  IInv'
<1> USE DEF IInv
<1>1. PICK ok \in BOOLEAN :
        /\ Obey(m, Head(queue[m]), ok)
        /\ IF Len(queue[m]) = 1 /\ exchange[m] # NoTask
           THEN Reply(exchange[m], ok) /\ exchange' = [exchange EXCEPT ![m] = NoTask]
           ELSE UNCHANGED <<task, exchange>>
  BY DEF Serve
<1>2. /\ queue[m] # <<>> /\ queue' = [queue EXCEPT ![m] = Tail(@)]
      /\ UNCHANGED <<authVars, active, lock, up, serverVars, faultVars>>
  BY DEF Serve
<1>3. /\ task' \in [Tasks -> Task] /\ exchange' \in [Modes -> Tasks \cup {NoTask}]
      /\ ModeInv' /\ ExchangeInv' /\ LockInv' /\ HeldInv' /\ OwnInv' /\ FreshInv'
      /\ QuietInv' /\ LiveInv'
  BY <1>1, <1>2, EndOfExchange
<1>4. queue \in [Modes -> Seq(Request)] /\ tunnel \in [Modes -> Confs \cup {NoConf}]
  BY DEF TypeOK, Request
<1>5. queue' \in [Modes -> Seq(Request)] /\ Head(queue[m]) \in Request
  BY <1>2, <1>4, QueueTypes
<1>6. tunnel' \in [Modes -> Confs \cup {NoConf}]
  BY <1>1, <1>4, <1>5 DEF Obey, Request
<1>7. TypeOK'
  BY <1>2, <1>3, <1>5, <1>6 DEF TypeOK, Request, authVars, serverVars, faultVars
<1> QED
  BY <1>3, <1>7

LEMMA TimeOutKeepsInv ==
  ASSUME IInv, NEW m \in Modes, TimeOut(m)
  PROVE  IInv'
<1> USE DEF IInv
<1> DEFINE t == exchange[m]
<1>1. /\ t # NoTask /\ Reply(t, FALSE) /\ exchange' = [exchange EXCEPT ![m] = NoTask]
      /\ faults < MaxFaults /\ faults' = faults + 1
      /\ \/ queue' = [queue EXCEPT ![m] = SubSeq(@, 1, Len(@) - 1)] /\ UNCHANGED timedOut
         \/ /\ task[t].pc \in {"start", "end"} /\ UNCHANGED queue
            /\ timedOut' = timedOut \cup {[cmd |-> task[t].pc, conf |-> task[t].conf]}
      /\ UNCHANGED <<authVars, active, lock, up, tunnel, serverVars>>
  BY DEF TimeOut
<1>2. /\ task' \in [Tasks -> Task] /\ exchange' \in [Modes -> Tasks \cup {NoTask}]
      /\ ModeInv' /\ ExchangeInv' /\ LockInv' /\ HeldInv' /\ OwnInv' /\ FreshInv'
      /\ QuietInv' /\ LiveInv'
  BY <1>1, EndOfExchange
<1>3. queue' \in [Modes -> Seq(Request)]
  <2>1. queue \in [Modes -> Seq(Request)]
    BY DEF TypeOK, Request
  <2> QED
    BY <1>1, <2>1, QueueTypes
<1>4. timedOut' \subseteq [cmd : {"start", "end"}, conf : Confs \cup {NoConf}]
  <2>1. t \in Tasks /\ task[t].conf \in Confs \cup {NoConf}
    BY <1>1 DEF TypeOK, Task
  <2> QED
    BY <1>1, <2>1 DEF TypeOK
<1>5. faults' \in 0..MaxFaults
  BY <1>1 DEF TypeOK
<1>6. TypeOK'
  BY <1>1, <1>2, <1>3, <1>4, <1>5 DEF TypeOK, Request, authVars, serverVars
<1> QED
  BY <1>2, <1>6

LEMMA HelperDiesKeepsInv ==
  ASSUME IInv, NEW m \in Modes, HelperDies(m)
  PROVE  IInv'
<1> USE DEF IInv
<1>1. /\ up' = [up EXCEPT ![m] = FALSE] /\ tunnel' = [tunnel EXCEPT ![m] = NoConf]
      /\ queue' = [queue EXCEPT ![m] = <<>>]
      /\ IF exchange[m] # NoTask
         THEN Reply(exchange[m], FALSE) /\ exchange' = [exchange EXCEPT ![m] = NoTask]
         ELSE UNCHANGED <<task, exchange>>
      /\ faults < MaxFaults /\ faults' = faults + 1
      /\ UNCHANGED <<authVars, active, lock, serverVars, timedOut>>
  BY DEF HelperDies
<1>2. /\ task' \in [Tasks -> Task] /\ exchange' \in [Modes -> Tasks \cup {NoTask}]
      /\ ModeInv' /\ ExchangeInv' /\ LockInv' /\ HeldInv' /\ OwnInv' /\ FreshInv'
      /\ QuietInv' /\ LiveInv'
  BY <1>1, EndOfExchange
<1>3. /\ up' \in [Modes -> BOOLEAN] /\ tunnel' \in [Modes -> Confs \cup {NoConf}]
      /\ queue' \in [Modes -> Seq(Request)] /\ faults' \in 0..MaxFaults
  <2>1. queue \in [Modes -> Seq(Request)]
    BY DEF TypeOK, Request
  <2>2. queue' \in [Modes -> Seq(Request)]
    BY <1>1, <2>1
  <2>3. faults' \in 0..MaxFaults
    BY <1>1 DEF TypeOK
  <2> QED
    BY <1>1, <2>2, <2>3 DEF TypeOK
<1>4. TypeOK'
  BY <1>1, <1>2, <1>3 DEF TypeOK, Request, authVars, serverVars
<1> QED
  BY <1>2, <1>4
-----------------------------------------------------------------------------
LEMMA ControllerStep == IInv /\ [Next]_vars => IInv'
<1> SUFFICES ASSUME IInv, [Next]_vars PROVE IInv'
    OBVIOUS
<1>1. CASE AuthStatus \/ AuthBeginQr \/ AuthPollQr \/ AuthRefreshNodes \/ AuthReset
  BY <1>1, AuthKeepsInv
<1>2. CASE \E t \in Tasks : Begin(t)
  BY <1>2, BeginKeepsInv
<1>3. CASE \E t \in Tasks : TakeLock(t) \/ Proceed(t) \/ Send(t)
  BY <1>3, ConnectCheckKeepsInv, ReleaseKeepsInv, AuthConfigureKeepsInv, LaunchKeepsInv,
     PrepareKeepsInv, RecordKeepsInv, DisconnectKeepsInv, SendKeepsInv DEF TakeLock, Proceed
<1>4. CASE \E m \in Modes : Serve(m) \/ TimeOut(m) \/ HelperDies(m)
  BY <1>4, ServeKeepsInv, TimeOutKeepsInv, HelperDiesKeepsInv
<1>5. CASE UNCHANGED vars
  BY <1>5 DEF IInv, TypeOK, ModeInv, ExchangeInv, LockInv, HeldInv, OwnInv, FreshInv, QuietInv,
              LiveInv, InHand, Configuring, vars, authVars, helperVars, serverVars, faultVars
<1> QED
  BY <1>1, <1>2, <1>3, <1>4, <1>5 DEF Next

\* What is owned is what the mutex and the record say is in hand.
LEMMA OwnedIsInHand == IInv => Owned = InHand
<1> SUFFICES ASSUME IInv PROVE Owned = InHand
    OBVIOUS
<1> USE DEF IInv
<1>1. \A t \in Tasks : task[t].pc \in Owning => t = lock
  BY DEF LockInv, Holding
<1>2. lock \in Tasks \cup {NoTask}
  BY DEF TypeOK
<1>3. active # NoConn => active.conf # NoConf
  BY DEF TypeOK, Confs, NoConf
<1>4. NoConn.conf = NoConf
  BY DEF NoConn
<1>5. CASE lock # NoTask /\ task[lock].pc \in Owning
  <2>1. {task[t].conf : t \in {u \in Tasks : task[u].pc \in Owning}} = {task[lock].conf}
    BY <1>1, <1>2, <1>5
  <2>2. active = NoConn /\ task[lock].conf # NoConf
    BY <1>2, <1>5 DEF HeldInv, OwnInv
  <2> QED
    BY <1>4, <1>5, <2>1, <2>2 DEF Owned, InHand
<1>6. CASE ~(lock # NoTask /\ task[lock].pc \in Owning)
  <2>1. {task[t].conf : t \in {u \in Tasks : task[u].pc \in Owning}} = {}
    BY <1>1, <1>6
  <2> QED
    BY <1>3, <1>4, <1>6, <2>1 DEF Owned, InHand
<1> QED
  BY <1>5, <1>6

\* The inductive invariant behind the three theorems below.
THEOREM ControllerInv == Spec => []IInv
BY ControllerInit, ControllerStep, PTL DEF Spec

\* Every variable of the controller keeps its type.
THEOREM ControllerTypeOK == Spec => []TypeOK
<1>1. IInv => TypeOK
  BY DEF IInv
<1> QED
  BY <1>1, ControllerInv, PTL

\* The VPN server keeps exactly the sessions the desktop has on record or in hand and
\* those whose release failed, however many commands overlap and whatever helpers do.
THEOREM SessionsAlwaysAccounted == Spec => []SessionAccounted
<1>1. IInv => SessionAccounted
  BY OwnedIsInHand DEF IInv, LiveInv, SessionAccounted
<1> QED
  BY <1>1, ControllerInv, PTL

\* However the commands overlap, this client never has two sessions it could still
\* release.
OneSession == \A c, d \in live \ stray : c = d

\* The auth mutex alone keeps the client to one session it can release.
THEOREM AlwaysOneSession == Spec => []OneSession
<1>1. IInv => OneSession
  BY DEF IInv, LiveInv, InHand, OneSession
<1> QED
  BY <1>1, ControllerInv, PTL
-----------------------------------------------------------------------------
(* The ledger: a step that leaves the server's sessions alone leaves what  *)
(* is owned alone, since that is told from them; two actions change them.  *)

\* What is owned is what the server keeps and is not lost.
LedgerInv == IInv /\ Owned = live \ stray

LEMMA PrepareLedger ==
  ASSUME LedgerInv, LedgerInv', NEW t \in Tasks, Prepare(t)
  PROVE  [Ledger!Next]_Ledger!lvars
<1>1. Owned = live \ stray /\ Owned' = live' \ stray'
  BY DEF LedgerInv
<1>2. Owned = {}
  <2>1. task[t].pc \in Holding \ Owning
    BY DEF Prepare, Holding, Owning
  <2> QED
    BY <2>1, HolderAlone, OwnedIsInHand DEF LedgerInv
<1>3. CASE nextConf <= MaxConf /\ nextConf' = nextConf + 1 /\ live' = live \cup {nextConf}
  <2>1. /\ nextConf \in Confs /\ nextConf \notin live /\ nextConf \notin stray
        /\ 1..(nextConf' - 1) = 1..(nextConf - 1) \cup {nextConf}
        /\ nextConf \notin 1..(nextConf - 1)
    BY <1>3 DEF LedgerInv, IInv, FreshInv, LiveInv, TypeOK, Confs
  <2>2. Ledger!Fresh(nextConf)
    BY <1>2, <1>3, <2>1 DEF Ledger!Fresh
  <2>3. CASE stray' = stray
    <3>1. Ledger!Granted(nextConf)
      BY <1>1, <1>2, <1>3, <2>1, <2>2, <2>3 DEF Ledger!Granted
    <3> QED
      BY <2>1, <3>1 DEF Ledger!Next
  <2>4. CASE stray' = stray \cup {nextConf}
    <3>1. Ledger!Wasted(nextConf)
      BY <1>1, <1>2, <1>3, <2>1, <2>2, <2>4 DEF Ledger!Wasted
    <3> QED
      BY <2>1, <3>1 DEF Ledger!Next
  <2> QED
    BY <1>3, <2>3, <2>4 DEF Prepare, serverVars
<1>4. CASE UNCHANGED serverVars
  BY <1>1, <1>4 DEF serverVars, Ledger!lvars
<1> QED
  BY <1>3, <1>4 DEF Prepare

LEMMA DisconnectLedger ==
  ASSUME LedgerInv, LedgerInv', NEW t \in Tasks, Disconnect(t)
  PROVE  [Ledger!Next]_Ledger!lvars
<1> DEFINE c == task[t].conf
<1>1. Owned = live \ stray /\ Owned' = live' \ stray' /\ nextConf' = nextConf
  BY DEF LedgerInv, Disconnect
<1>2. Owned = {c}
  <2>1. task[t].pc \in Holding /\ task[t].pc \in Owning
    BY DEF Disconnect, Holding, Owning
  <2> QED
    BY <2>1, HolderAlone, OwnedIsInHand DEF LedgerInv
<1>3. c \in Confs /\ stray \subseteq live
  BY <1>1, <1>2 DEF LedgerInv, IInv, LiveInv, TypeOK
<1>4. CASE live' = live \ {c} /\ stray' = stray
  <2>1. Ledger!GivenBack(c)
    BY <1>1, <1>2, <1>4 DEF Ledger!GivenBack
  <2> QED
    BY <1>3, <2>1 DEF Ledger!Next
<1>5. CASE live' = live /\ stray' = stray \cup {c}
  <2>1. Ledger!Lost(c)
    BY <1>1, <1>2, <1>5 DEF Ledger!Lost
  <2> QED
    BY <1>3, <2>1 DEF Ledger!Next
<1> QED
  BY <1>4, <1>5 DEF Disconnect

LEMMA StepLedger == LedgerInv /\ LedgerInv' /\ [Next]_vars => [Ledger!Next]_Ledger!lvars
<1> SUFFICES ASSUME LedgerInv, LedgerInv', [Next]_vars PROVE [Ledger!Next]_Ledger!lvars
    OBVIOUS
<1>1. CASE UNCHANGED serverVars
  BY <1>1 DEF LedgerInv, serverVars, Ledger!lvars
<1>2. CASE \E t \in Tasks : Prepare(t) \/ Disconnect(t)
  BY <1>2, PrepareLedger, DisconnectLedger
<1>3. CASE AuthStatus \/ AuthBeginQr \/ AuthPollQr \/ AuthRefreshNodes \/ AuthReset
  BY <1>1, <1>3 DEF AuthStatus, AuthBeginQr, AuthPollQr, AuthRefreshNodes, AuthReset
<1>4. CASE \E t \in Tasks : Begin(t)
  BY <1>1, <1>4 DEF Begin, ConfigureBegin, ConnectBegin, EndBegin, StatusBegin
<1>5. ASSUME NEW t \in Tasks, TakeLock(t) \/ Proceed(t) \/ Send(t)
      PROVE  [Ledger!Next]_Ledger!lvars
  BY <1>1, <1>2, <1>5
     DEF TakeLock, ConnectCheck, Release, AuthConfigure, Proceed, Launch, Record, Send
<1>6. CASE \E m \in Modes : Serve(m) \/ TimeOut(m) \/ HelperDies(m)
  BY <1>1, <1>6 DEF Serve, TimeOut, HelperDies
<1>7. CASE UNCHANGED vars
  BY <1>1, <1>7 DEF vars
<1> QED
  BY <1>3, <1>4, <1>5, <1>6, <1>7 DEF Next

\* The controller keeps the ledger of its sessions, for any number of commands that
\* overlap in any way: a session is asked for only while none is on record or in hand,
\* and one that is leaves only through disconnect_vpn.
THEOREM ControllerKeepsLedger == Spec => LedgerPromise
<1>1. IInv => LedgerInv
  BY OwnedIsInHand DEF LedgerInv, IInv, LiveInv
<1>2. Init => Ledger!Init
  <2>1. Init => Owned = live \ stray
    BY <1>1, ControllerInit DEF LedgerInv
  <2> QED
    BY <2>1 DEF Init, Ledger!Init
<1> QED
  BY <1>1, <1>2, StepLedger, ControllerInv, PTL DEF Spec, LedgerPromise, Ledger!Spec
-----------------------------------------------------------------------------
(* Who waits for whom, gated or not.  A task that wants the auth mutex     *)
(* waits for its holder, one that wants an exchange lock for whoever is in *)
(* the exchange, and the mutex's holder may be such a one.  There the      *)
(* chain ends: whoever is in an exchange has its request in the socket of  *)
(* a helper that is there.                                                 *)

AwaitedInv == \A m \in Modes : /\ exchange[m] # NoTask => queue[m] # <<>>
                               /\ ~up[m] => queue[m] = <<>>

LEMMA AwaitedStep == IInv /\ AwaitedInv /\ [Next]_vars => AwaitedInv'
<1> SUFFICES ASSUME IInv, AwaitedInv, [Next]_vars PROVE AwaitedInv'
    OBVIOUS
<1> USE DEF AwaitedInv
<1>0. /\ exchange \in [Modes -> Tasks \cup {NoTask}] /\ up \in [Modes -> BOOLEAN]
      /\ queue \in [Modes -> Seq(Request)] /\ task \in [Tasks -> Task]
  BY DEF IInv, TypeOK, Request
<1>1. CASE UNCHANGED <<exchange, queue, up>>
  BY <1>1
<1>2. CASE AuthStatus \/ AuthBeginQr \/ AuthPollQr \/ AuthRefreshNodes \/ AuthReset
  BY <1>1, <1>2 DEF AuthStatus, AuthBeginQr, AuthPollQr, AuthRefreshNodes, AuthReset, helperVars
<1>3. CASE \E t \in Tasks : Begin(t) \/ TakeLock(t)
  BY <1>1, <1>3 DEF Begin, ConfigureBegin, ConnectBegin, EndBegin, StatusBegin, TakeLock,
                    ConnectCheck, Release, AuthConfigure, helperVars
<1>4. ASSUME NEW t \in Tasks, Proceed(t) PROVE AwaitedInv'
  <2>1. CASE Launch(t)
    <3>1. up' \in {up, [up EXCEPT ![task[t].mode] = TRUE]} /\ UNCHANGED <<exchange, queue>>
      BY <2>1 DEF Launch
    <3> QED
      BY <1>0, <3>1
  <2>2. CASE Prepare(t) \/ Record(t) \/ Disconnect(t)
    BY <1>1, <2>2 DEF Prepare, Record, Disconnect, helperVars
  <2> QED
    BY <1>4, <2>1, <2>2 DEF Proceed
<1>5. ASSUME NEW t \in Tasks, Send(t) PROVE AwaitedInv'
  <2> DEFINE m == task[t].mode
             r == [cmd |-> task[t].pc, conf |-> task[t].conf]
  <2>1. UNCHANGED up
    BY <1>5 DEF Send
  <2>2. CASE up[m]
    <3>1. exchange' = [exchange EXCEPT ![m] = t] /\ queue' = [queue EXCEPT ![m] = Append(@, r)]
      BY <1>5, <2>2 DEF Send
    <3>2. m \in Modes /\ r \in Request
      BY <1>0, <1>5 DEF Send, IInv, ModeInv, Calling, Request, Task
    <3>3. Append(queue[m], r) # <<>>
      BY <1>0, <3>2
    <3> HIDE DEF m, r
    <3> QED
      BY <1>0, <2>1, <2>2, <3>1, <3>2, <3>3
  <2>3. CASE ~up[m]
    BY <1>1, <1>5, <2>1, <2>3 DEF Send
  <2> QED
    BY <2>2, <2>3
<1>6. ASSUME NEW m \in Modes, Serve(m) PROVE AwaitedInv'
  <2>1. queue[m] # <<>> /\ queue' = [queue EXCEPT ![m] = Tail(@)] /\ UNCHANGED up
    BY <1>6 DEF Serve
  <2>2. IF Len(queue[m]) = 1 /\ exchange[m] # NoTask
        THEN exchange' = [exchange EXCEPT ![m] = NoTask] ELSE UNCHANGED exchange
    BY <1>6 DEF Serve
  <2>3. Len(queue[m]) # 1 => Tail(queue[m]) # <<>>
    BY <1>0, <2>1, LastOfTail
  <2>4. exchange'[m] # NoTask => queue'[m] # <<>>
    BY <1>0, <2>1, <2>2, <2>3
  <2>5. up[m]
    BY <1>0, <2>1
  <2> QED
    BY <1>0, <2>1, <2>2, <2>4, <2>5
<1>7. CASE \E m \in Modes : TimeOut(m)
  <2>1. PICK m \in Modes : TimeOut(m)
    BY <1>7
  <2>2. /\ exchange' = [exchange EXCEPT ![m] = NoTask] /\ UNCHANGED up /\ exchange[m] # NoTask
        /\ \/ queue' = [queue EXCEPT ![m] = SubSeq(@, 1, Len(@) - 1)]
           \/ UNCHANGED queue
    BY <2>1 DEF TimeOut
  <2>3. up[m]
    BY <1>0, <2>2
  <2> QED
    BY <1>0, <2>2, <2>3
<1>8. CASE \E m \in Modes : HelperDies(m)
  <2>1. PICK m \in Modes : HelperDies(m)
    BY <1>8
  <2>2. up' = [up EXCEPT ![m] = FALSE] /\ queue' = [queue EXCEPT ![m] = <<>>]
    BY <2>1 DEF HelperDies
  <2>3. exchange'[m] = NoTask /\ \A n \in Modes : n # m => exchange'[n] = exchange[n]
    BY <1>0, <2>1 DEF HelperDies
  <2> QED
    BY <1>0, <2>2, <2>3
<1>9. CASE UNCHANGED vars
  BY <1>1, <1>9 DEF vars, helperVars
<1> QED
  BY <1>2, <1>3, <1>4, <1>5, <1>6, <1>7, <1>8, <1>9 DEF Next

LEMMA ControllerAwaited == Spec => []AwaitedInv
<1>1. Init => AwaitedInv
  BY DEF Init, AwaitedInv
<1> QED
  BY <1>1, AwaitedStep, ControllerInv, PTL DEF Spec

WantsLock == {"connect", "configure", "release"}

Waits(t, u) == \/ task[t].pc \in WantsLock /\ lock = u
               \/ task[t].pc \in Calling /\ exchange[task[t].mode] = u /\ u # t

\* Nothing that this program waits for is missing; what is due to t is a server's
\* answer, or its helper's, which serves one request after the other.
Ready(t) == \/ task[t].pc \in WantsLock /\ Free
            \/ task[t].pc \in {"launch", "prepare", "record", "undo", "disconnect"}
            \/ task[t].pc \in Calling /\ exchange[task[t].mode] = NoTask
            \/ /\ task[t].pc \in Calling /\ exchange[task[t].mode] = t
               /\ queue[task[t].mode] # <<>> /\ up[task[t].mode]

NoCircularWait ==
  \A t \in Tasks : task[t].pc # "idle" =>
    \/ Ready(t)
    \/ \E u \in Tasks : /\ Waits(t, u)
                        /\ Ready(u) \/ \E v \in Tasks : Waits(u, v) /\ Ready(v)

LEMMA CallerWaits ==
  ASSUME IInv, AwaitedInv, NEW t \in Tasks, task[t].pc \in Calling
  PROVE  Ready(t) \/ \E v \in Tasks : Waits(t, v) /\ Ready(v)
<1> DEFINE m == task[t].mode
           v == exchange[m]
<1>1. m \in Modes
  BY DEF IInv, ModeInv, Calling
<1>2. CASE v = NoTask
  BY <1>2 DEF Ready
<1>3. CASE v # NoTask
  <2>1. v \in Tasks /\ task[v].pc \in Calling /\ task[v].mode = m
    BY <1>1, <1>3 DEF IInv, TypeOK, ExchangeInv
  <2>2. queue[m] # <<>> /\ up[m]
    BY <1>1, <1>3 DEF AwaitedInv, IInv, TypeOK
  <2>3. Ready(v)
    BY <2>1, <2>2 DEF Ready
  <2>4. v = t \/ Waits(t, v)
    BY DEF Waits
  <2> QED
    BY <2>1, <2>3, <2>4
<1> QED
  BY <1>2, <1>3

\* No command waits in a circle for what another holds, however many there are and
\* whatever fails: it can go on, or waits for one that can, or for the holder of the
\* auth mutex that waits for one that can.
THEOREM NobodyWaitsInACircle == Spec => []NoCircularWait
<1>1. ASSUME IInv, AwaitedInv, NEW t \in Tasks, task[t].pc # "idle"
      PROVE  \/ Ready(t)
             \/ \E u \in Tasks : /\ Waits(t, u)
                                 /\ Ready(u) \/ \E v \in Tasks : Waits(u, v) /\ Ready(v)
  <2>1. task[t].pc \in Places
    BY <1>1 DEF IInv, TypeOK, Task
  <2>2. CASE task[t].pc \in Calling
    BY <1>1, <2>2, CallerWaits
  <2>3. CASE task[t].pc \in WantsLock /\ lock # NoTask
    <3>1. lock \in Tasks /\ Waits(t, lock) /\ task[lock].pc \in Holding
      BY <1>1, <2>3 DEF IInv, TypeOK, LockInv, Waits
    <3>2. CASE task[lock].pc \in Calling
      BY <1>1, <3>1, <3>2, CallerWaits
    <3>3. CASE task[lock].pc \notin Calling
      BY <3>1, <3>3 DEF Ready, Holding, Owning, Calling
    <3> QED
      BY <3>1, <3>2, <3>3
  <2>4. CASE task[t].pc \in WantsLock /\ lock = NoTask
    BY <2>4 DEF Ready, Free
  <2>5. CASE task[t].pc \in {"launch", "prepare", "record", "undo", "disconnect"}
    BY <2>5 DEF Ready
  <2> QED
    BY <1>1, <2>1, <2>2, <2>3, <2>4, <2>5 DEF Places, Main, Holding, Owning, Calling, WantsLock
<1>2. IInv /\ AwaitedInv => NoCircularWait
  BY <1>1 DEF NoCircularWait
<1> QED
  BY <1>2, ControllerInv, ControllerAwaited, PTL
-----------------------------------------------------------------------------
(* A command's way                                                         *)

\* The steps a command has before it at most, from where it is.
Rank == [idle |-> 0, configure |-> 1, status |-> 2, stats |-> 1,
         end |-> 3, release |-> 2, disconnect |-> 1,
         connect |-> 6, hello |-> 5, launch |-> 4, prepare |-> 3, start |-> 2,
         record |-> 1, undo |-> 1]

Advance == \A t \in Tasks :
             task[t].pc # "idle" /\ task'[t] # task[t] => Rank[task'[t].pc] < Rank[task[t].pc]

\* The four who answer, or give up on one.
LEMMA ReplyAdvances ==
  ASSUME IInv, NEW t \in Tasks, NEW ok \in BOOLEAN, task[t].pc \in Calling, Reply(t, ok)
  PROVE  Advance
<1> DEFINE place == IF ok THEN OnSuccess[task[t].pc] ELSE OnFailure[task[t].pc]
<1>1. Rank[place] < Rank[task[t].pc]
  BY DEF Rank, Calling, OnSuccess, OnFailure
<1>2. place \in Places /\ Goto(t, place)
  BY DEF Reply, Calling, OnSuccess, OnFailure, Places, Main, Holding, Owning
<1> HIDE DEF place
<1>3. Moved(t) /\ task'[t].pc = place
  BY <1>2, GotoMoves DEF IInv
<1> QED
  BY <1>1, <1>3 DEF Advance, Moved

LEMMA LocalAdvance ==
  ASSUME IInv, NEW t \in Tasks, TakeLock(t) \/ Proceed(t)
  PROVE  Advance
<1> USE DEF IInv
<1>0. task[t].conf \in Confs \cup {NoConf} /\ (task[t].pc \notin {"idle", "configure"} => task[t].mode \in Modes)
  BY DEF TypeOK, Task, ModeInv
<1>1. CASE ConnectCheck(t)
  <2>1. Moved(t) /\ task[t].pc = "connect" /\ task'[t].pc \in {"hello", "idle"}
    BY <1>1, GotoMoves DEF ConnectCheck, Places, Main, Holding
  <2> QED
    BY <2>1 DEF Advance, Moved, Rank
<1>2. CASE Release(t)
  <2>1. task[t].pc = "release" /\ active.conf \in Confs \cup {NoConf}
    BY <1>2 DEF Release, TypeOK, NoConn
  <2>2. Moved(t) /\ task'[t].pc \in {"disconnect", "idle"}
    BY <1>0, <1>2, <2>1, GotoMoves, EnterMoves DEF Release, Places, Main, Holding, Owning
  <2> QED
    BY <2>1, <2>2 DEF Advance, Moved, Rank
<1>3. CASE AuthConfigure(t)
  <2>1. Moved(t) /\ task[t].pc = "configure" /\ task'[t].pc = "idle"
    BY <1>3, GotoMoves DEF AuthConfigure, Places
  <2> QED
    BY <2>1 DEF Advance, Moved, Rank
<1>4. CASE Launch(t)
  <2>1. Moved(t) /\ task[t].pc = "launch" /\ task'[t].pc \in {"prepare", "idle"}
    BY <1>4, GotoMoves DEF Launch, Finish, Places, Main, Holding
  <2> QED
    BY <2>1 DEF Advance, Moved, Rank
<1>5. CASE Prepare(t)
  <2>1. task[t].pc = "prepare" /\ (nextConf <= MaxConf => nextConf \in Confs)
    BY <1>5 DEF Prepare, TypeOK, Confs
  <2>2. Moved(t) /\ task'[t].pc \in {"start", "idle"}
    BY <1>0, <1>5, <2>1, GotoMoves, EnterMoves DEF Prepare, Finish, Places, Main, Holding, Owning
  <2> QED
    BY <2>1, <2>2 DEF Advance, Moved, Rank
<1>6. CASE Record(t) \/ Disconnect(t)
  <2>1. /\ Moved(t) /\ task[t].pc \in {"record", "undo", "disconnect"} /\ task'[t].pc = "idle"
    BY <1>6, GotoMoves DEF Record, Disconnect, Finish, Places
  <2> QED
    BY <2>1 DEF Advance, Moved, Rank
<1> QED
  BY <1>1, <1>2, <1>3, <1>4, <1>5, <1>6 DEF TakeLock, Proceed

\* A command never goes back: it is at its end after six steps of its own at most,
\* whatever fails and whatever the others do.
THEOREM CommandsOnlyAdvance == Spec => [][Advance]_vars
<1>1. ASSUME IInv, Next PROVE Advance
  <2>1. CASE task' = task
    BY <2>1 DEF Advance
  <2>2. CASE AuthStatus \/ AuthBeginQr \/ AuthPollQr \/ AuthRefreshNodes \/ AuthReset
    BY <2>1, <2>2 DEF AuthStatus, AuthBeginQr, AuthPollQr, AuthRefreshNodes, AuthReset
  <2>3. ASSUME NEW t \in Tasks, Begin(t) PROVE Advance
    <3>1. task[t].pc = "idle"
      BY <2>3 DEF Begin, ConfigureBegin, ConnectBegin, EndBegin, StatusBegin
    <3>2. \A u \in Tasks : u # t => task'[u] = task[u]
      BY <1>1, <2>3 DEF Begin, ConfigureBegin, ConnectBegin, EndBegin, StatusBegin, Goto, Enter,
                        IInv, TypeOK
    <3> QED
      BY <3>1, <3>2 DEF Advance
  <2>4. ASSUME NEW t \in Tasks, Send(t) PROVE Advance
    BY <1>1, <2>1, <2>4, ReplyAdvances DEF Send
  <2>5. ASSUME NEW m \in Modes, Serve(m) \/ TimeOut(m) \/ HelperDies(m) PROVE Advance
    <3>1. exchange[m] # NoTask => exchange[m] \in Tasks /\ task[exchange[m]].pc \in Calling
      BY <1>1 DEF IInv, TypeOK, ExchangeInv
    <3>2. CASE Serve(m)
      <4>1. PICK ok \in BOOLEAN : IF Len(queue[m]) = 1 /\ exchange[m] # NoTask
                                  THEN Reply(exchange[m], ok) ELSE UNCHANGED task
        BY <3>2 DEF Serve
      <4> QED
        BY <1>1, <2>1, <3>1, <4>1, ReplyAdvances
    <3>3. CASE TimeOut(m)
      BY <1>1, <3>1, <3>3, ReplyAdvances DEF TimeOut
    <3>4. CASE HelperDies(m)
      BY <1>1, <2>1, <3>1, <3>4, ReplyAdvances DEF HelperDies
    <3> QED
      BY <2>5, <3>2, <3>3, <3>4
  <2> QED
    BY <1>1, <2>2, <2>3, <2>4, <2>5, LocalAdvance DEF Next
<1>2. IInv /\ [Next]_vars => [Advance]_vars
  BY <1>1
<1> QED
  BY <1>2, ControllerInv, PTL DEF Spec
-----------------------------------------------------------------------------
(* A helper that is gone under a recorded connection                       *)

\* Nothing is left of the command that could still take the record away.
Stranded(m) == /\ active.mode = m /\ ~up[m]
               /\ \A t \in Tasks : task[t].pc = "release" => task[t].mode # m

LEMMA StrandedStep ==
  ASSUME IInv, AwaitedInv, NEW m \in Modes, Stranded(m), [Next]_vars
  PROVE  Stranded(m)'
<1> USE DEF IInv
<1>1. /\ active # NoConn /\ lock = NoTask /\ session \in LoggedIn /\ ~Configuring
      /\ \A t \in Tasks : task[t].pc \notin Holding
      /\ active.mode = m /\ ~up[m] /\ queue[m] = <<>> /\ exchange[m] = NoTask
  BY DEF Stranded, NoConn, HeldInv, QuietInv, LockInv, AwaitedInv, TypeOK
<1>2. CASE UNCHANGED <<active, up, task>>
  BY <1>2 DEF Stranded
<1>3. ASSUME NEW t \in Tasks, UNCHANGED <<active, up>>, Moved(t),
             task'[t].pc = "release" => task'[t].mode # m
      PROVE  Stranded(m)'
  BY <1>3 DEF Stranded, Moved
<1>4. CASE AuthStatus \/ AuthBeginQr \/ AuthPollQr \/ AuthRefreshNodes \/ AuthReset
  BY <1>1, <1>2, <1>4 DEF AuthStatus, AuthBeginQr, AuthPollQr, AuthRefreshNodes, AuthReset,
                          helperVars
<1>5. ASSUME NEW t \in Tasks, Begin(t) PROVE Stranded(m)'
  <2>1. UNCHANGED <<active, up>> /\ Moved(t) /\ task'[t].pc # "release"
    <3>1. CASE ConfigureBegin(t)
      BY <3>1, GotoMoves DEF ConfigureBegin, Places, helperVars
    <3>2. CASE \E n \in Modes : ConnectBegin(t, n) \/ StatusBegin(t, n)
      BY <3>2, EnterMoves DEF ConnectBegin, StatusBegin, Places, Main, helperVars
    <3>3. ASSUME NEW n \in Modes, EndBegin(t, n)
          PROVE  UNCHANGED <<active, up>> /\ Moved(t) /\ task'[t].pc # "release"
      <4>1. (IF active.mode = n THEN active.conf ELSE NoConf) \in Confs \cup {NoConf}
        BY DEF TypeOK, NoConn
      <4> QED
        BY <3>3, <4>1, EnterMoves DEF EndBegin, Places, Main, helperVars
    <3> QED
      BY <1>5, <3>1, <3>2, <3>3 DEF Begin
  <2> QED
    BY <1>3, <2>1
<1>6. ASSUME NEW t \in Tasks, TakeLock(t) PROVE Stranded(m)'
  <2>1. CASE ConnectCheck(t)
    <3>1. UNCHANGED <<active, up>> /\ Moved(t) /\ task'[t].pc = "idle"
      BY <1>1, <2>1, GotoMoves DEF ConnectCheck, Places, helperVars
    <3> QED
      BY <1>3, <3>1
  <2>2. CASE Release(t)
    <3>1. active.mode # task[t].mode /\ UNCHANGED up
      BY <1>1, <2>2 DEF Release, Stranded, helperVars
    <3>2. UNCHANGED active /\ Moved(t) /\ task'[t].pc = "idle"
      BY <2>2, <3>1, GotoMoves DEF Release, Places
    <3> QED
      BY <1>3, <3>1, <3>2
  <2>3. ~AuthConfigure(t)
    BY <1>1 DEF AuthConfigure, Configuring
  <2> QED
    BY <1>6, <2>1, <2>2, <2>3 DEF TakeLock
<1>7. ASSUME NEW t \in Tasks, Proceed(t) PROVE FALSE
  BY <1>1, <1>7 DEF Proceed, Launch, Prepare, Record, Disconnect, Holding, Owning
\* A request to this helper is refused; an answer from another is for another.
<1>8. ASSUME NEW t \in Tasks, NEW ok \in BOOLEAN, task[t].pc \in Calling, Reply(t, ok),
             task[t].mode = m => ~ok, UNCHANGED <<active, up>>
      PROVE  Stranded(m)'
  <2>1. task[t].mode = m => task'[t].pc # "release"
    <3> DEFINE place == IF ok THEN OnSuccess[task[t].pc] ELSE OnFailure[task[t].pc]
    <3>1. /\ place \in Places /\ Goto(t, place)
          /\ ~ok => place # "release"
      BY <1>8 DEF Reply, Calling, OnSuccess, OnFailure, Places, Main, Holding, Owning
    <3> HIDE DEF place
    <3> QED
      BY <1>8, <3>1, GotoMoves
  <2> QED
    BY <1>3, <1>8, <2>1, ReplyMoves
<1>9. ASSUME NEW t \in Tasks, Send(t) PROVE Stranded(m)'
  <2>1. CASE up[task[t].mode]
    BY <1>2, <1>9, <2>1 DEF Send
  <2>2. CASE ~up[task[t].mode]
    BY <1>8, <1>9, <2>2 DEF Send
  <2> QED
    BY <2>1, <2>2
<1>10. ASSUME NEW n \in Modes, Serve(n) \/ TimeOut(n) \/ HelperDies(n) PROVE Stranded(m)'
  <2>1. exchange[n] # NoTask => /\ exchange[n] \in Tasks /\ task[exchange[n]].pc \in Calling
                                /\ task[exchange[n]].mode = n
    BY DEF TypeOK, ExchangeInv
  <2>2. CASE Serve(n)
    <3>1. n # m /\ UNCHANGED <<active, up>>
      BY <1>1, <2>2 DEF Serve
    <3>2. PICK ok \in BOOLEAN : IF Len(queue[n]) = 1 /\ exchange[n] # NoTask
                                THEN Reply(exchange[n], ok) ELSE UNCHANGED task
      BY <2>2 DEF Serve
    <3> QED
      BY <1>2, <1>8, <2>1, <3>1, <3>2
  <2>3. CASE TimeOut(n)
    BY <1>8, <2>1, <2>3 DEF TimeOut
  <2>4. CASE HelperDies(n)
    <3>1. n # m /\ UNCHANGED active /\ up' = [up EXCEPT ![n] = FALSE]
      BY <1>1, <2>4 DEF HelperDies
    <3>2. CASE exchange[n] = NoTask
      BY <2>4, <3>1, <3>2 DEF HelperDies, Stranded, TypeOK
    <3>3. CASE exchange[n] # NoTask
      <4>1. /\ Moved(exchange[n])
            /\ task'[exchange[n]].pc # "idle" => task'[exchange[n]].mode = n
        BY <2>1, <2>4, <3>3, ReplyMoves DEF HelperDies
      <4> QED
        BY <2>1, <3>1, <3>3, <4>1 DEF Stranded, Moved, TypeOK
    <3> QED
      BY <3>2, <3>3
  <2> QED
    BY <1>10, <2>2, <2>3, <2>4
<1> QED
  BY <1>2, <1>4, <1>5, <1>6, <1>7, <1>9, <1>10 DEF Next, vars, helperVars

\* Where the helper of a recorded connection is gone, it is gone for good: every connect
\* is refused for the record, every stop for the helper, every reset for the record.
\* docs/architecture.md calls it a retryable state; the run controller_absence shows one
\* user who retries, this says no number of commands in any order gets out of it.
THEOREM AbsenceIsForGood ==
  ASSUME NEW m \in Modes
  PROVE  Spec => [](Stranded(m) => []Stranded(m))
<1>1. IInv /\ AwaitedInv /\ Stranded(m) /\ [Next]_vars => Stranded(m)'
  BY StrandedStep
<1> QED
  BY <1>1, ControllerInv, ControllerAwaited, PTL DEF Spec
-----------------------------------------------------------------------------
(* The tunnels, with one command at a time                                 *)

GateInv == \A t, u \in Tasks : task[t].pc \in Main /\ task[u].pc \in Main => t = u

Own(m) == [cmd |-> task[exchange[m]].pc, conf |-> task[exchange[m]].conf]

\* What is in a socket was given up, but for the request whose answer is awaited: the last.
QueueAt(m) ==
  /\ exchange[m] # NoTask => queue[m] # <<>> /\ queue[m][Len(queue[m])] = Own(m)
  /\ \A i \in 1..Len(queue[m]) :
       exchange[m] = NoTask \/ i # Len(queue[m]) => queue[m][i] \in timedOut

QueueInv == \A m \in Modes : QueueAt(m)

StartLost(c) == [cmd |-> "start", conf |-> c] \in timedOut
EndLost(c)   == [cmd |-> "end", conf |-> c] \in timedOut

Recording(m, c) == \E t \in Tasks : task[t] = [pc |-> "record", mode |-> m, conf |-> c]
Releasing(m)    == \E t \in Tasks : task[t].pc = "release" /\ task[t].mode = m

\* TunnelAccounted, in these words.
TunnelInv == \A m \in Modes : tunnel[m] # NoConf =>
  active = [mode |-> m, conf |-> tunnel[m]] \/ Recording(m, tunnel[m]) \/ StartLost(tunnel[m])

\* A stop that was answered has left no tunnel, but for one that a lost start brings up.
ReleaseInv == \A m \in Modes : Releasing(m) => tunnel[m] = NoConf \/ StartLost(tunnel[m])

\* A start that was answered has been through everything that was lost before it.
RecordInv == \A m \in Modes, c \in Confs : Recording(m, c) =>
  /\ up[m] => tunnel[m] = c
  /\ \A i \in 1..Len(queue[m]) : queue[m][i].cmd \notin {"start", "end"}

\* The stop in progress is for the connection on record, if it is for its mode.
EndInv == \A t \in Tasks : task[t].pc = "end" /\ task[t].mode = active.mode =>
            task[t].conf = active.conf

\* A recorded tunnel is taken down by its own stop alone.
ActiveInv == active # NoConn =>
  /\ \A i \in 1..Len(queue[active.mode]) : LET r == queue[active.mode][i] IN
       r.cmd \in {"start", "end"} => r = [cmd |-> "end", conf |-> active.conf]
  /\ up[active.mode] =>
       tunnel[active.mode] = active.conf \/ Releasing(active.mode) \/ EndLost(active.conf)

TInv == GateInv /\ QueueInv /\ TunnelInv /\ ReleaseInv /\ RecordInv /\ EndInv /\ ActiveInv

\* The places that the invariant speaks of.
Marked == {"record", "release"}

LEMMA TunnelsInit == Init => TInv
<1> SUFFICES ASSUME Init PROVE TInv
    OBVIOUS
<1>1. /\ \A t \in Tasks : task[t].pc = "idle"
      /\ \A m \in Modes : exchange[m] = NoTask /\ queue[m] = <<>> /\ tunnel[m] = NoConf
      /\ active = NoConn
  BY DEF Init, Idle
<1>2. GateInv /\ EndInv
  BY <1>1 DEF GateInv, EndInv, Main, Holding, Owning
<1>3. QueueInv /\ TunnelInv /\ ActiveInv
  BY <1>1 DEF QueueInv, QueueAt, TunnelInv, ActiveInv
<1>4. ReleaseInv /\ RecordInv
  BY <1>1 DEF ReleaseInv, RecordInv, Recording, Releasing
<1> QED
  BY <1>2, <1>3, <1>4 DEF TInv

LEMMA AuthKeepsTunnels ==
  ASSUME TInv, UNCHANGED <<active, task, exchange, queue, up, tunnel, timedOut>>
  PROVE  TInv'
BY DEF TInv, GateInv, QueueInv, QueueAt, TunnelInv, ReleaseInv, RecordInv, EndInv, ActiveInv, Own,
       StartLost, EndLost, Recording, Releasing

\* Who records and who releases is the same after a move between other places.
LEMMA SameMarks ==
  ASSUME NEW t \in Tasks, Moved(t), task[t].pc \notin Marked, task'[t].pc \notin Marked
  PROVE  /\ \A m \in Modes, c \in Confs : Recording(m, c)' <=> Recording(m, c)
         /\ \A m \in Modes : Releasing(m)' <=> Releasing(m)
<1>1. \A m \in Modes, c \in Confs : Recording(m, c)' <=> Recording(m, c)
  BY DEF Recording, Moved, Marked
<1>2. \A m \in Modes : Releasing(m)' <=> Releasing(m)
  BY DEF Releasing, Moved, Marked
<1> QED
  BY <1>1, <1>2

\* A move of a task that is in no exchange leaves all that is said of the sockets.
LEMMA MoveKeepsQueues ==
  ASSUME IInv, QueueInv, NEW t \in Tasks, Moved(t), task[t].pc \notin Calling,
         UNCHANGED <<exchange, queue, timedOut>>
  PROVE  QueueInv'
<1>1. \A m \in Modes : exchange[m] # NoTask => exchange[m] \in Tasks \ {t}
  BY DEF IInv, ExchangeInv, TypeOK
<1>2. \A m \in Modes : exchange[m] # NoTask => Own(m)' = Own(m)
  BY <1>1 DEF Own, Moved
<1> QED
  BY <1>2 DEF QueueInv, QueueAt

\* A step that brings up no tunnel, and takes down none but those of a helper that is gone.
LEMMA NothingRaised ==
  ASSUME IInv, TInv, GateInv', QueueInv', EndInv', active' = active, timedOut \subseteq timedOut',
         \A m \in Modes, c \in Confs : Recording(m, c)' <=> Recording(m, c),
         \A m \in Modes : Releasing(m)' <=> Releasing(m),
         \/ \A m \in Modes : up'[m] => up[m]
         \/ active = NoConn /\ \A m \in Modes, c \in Confs : ~Recording(m, c),
         \A m \in Modes : tunnel'[m] = tunnel[m] \/ (tunnel'[m] = NoConf /\ ~up'[m]),
         \A m \in Modes : \A i \in 1..Len(queue'[m]) :
           \E j \in 1..Len(queue[m]) : queue'[m][i] = queue[m][j]
  PROVE  TInv'
<1>1. \A m \in Modes : tunnel[m] # NoConf => tunnel[m] \in Confs
  BY DEF IInv, TypeOK
<1>2. \A c \in Confs : (StartLost(c) => StartLost(c)') /\ (EndLost(c) => EndLost(c)')
  BY DEF StartLost, EndLost
<1>3. TunnelInv'
  BY <1>1, <1>2 DEF TInv, TunnelInv
<1>4. ReleaseInv'
  BY <1>1, <1>2 DEF TInv, ReleaseInv
<1>5. RecordInv'
  <2>1. SUFFICES ASSUME NEW m \in Modes, NEW c \in Confs, Recording(m, c)
                 PROVE  /\ up'[m] => tunnel'[m] = c
                        /\ \A i \in 1..Len(queue'[m]) : queue'[m][i].cmd \notin {"start", "end"}
    BY DEF RecordInv
  <2>2. /\ up[m] => tunnel[m] = c
        /\ \A i \in 1..Len(queue[m]) : queue[m][i].cmd \notin {"start", "end"}
    BY <2>1 DEF TInv, RecordInv
  <2> QED
    BY <2>1, <2>2
<1>6. ActiveInv'
  <2>1. SUFFICES ASSUME active # NoConn PROVE ActiveInv'
    BY DEF ActiveInv
  <2>2. active.mode \in Modes /\ active.conf \in Confs
    BY <2>1 DEF IInv, TypeOK
  <2>3. \A i \in 1..Len(queue'[active.mode]) : LET r == queue'[active.mode][i] IN
          r.cmd \in {"start", "end"} => r = [cmd |-> "end", conf |-> active.conf]
    BY <2>1, <2>2 DEF TInv, ActiveInv
  <2>4. up'[active.mode] =>
          \/ tunnel'[active.mode] = active.conf \/ Releasing(active.mode)' \/ EndLost(active.conf)'
    BY <1>2, <2>1, <2>2 DEF TInv, ActiveInv
  <2> QED
    BY <2>3, <2>4 DEF ActiveInv
<1> QED
  BY <1>3, <1>4, <1>5, <1>6 DEF TInv

LEMMA MoveKeepsTunnels ==
  ASSUME IInv, TInv, NEW t \in Tasks, Moved(t),
         task[t].pc \notin Calling \cup Marked, task'[t].pc \notin Marked,
         task'[t].pc \in Main => task[t].pc \in Main \/ \A u \in Tasks : task[u].pc \notin Main,
         task'[t].pc = "end" /\ task'[t].mode = active.mode => task'[t].conf = active.conf,
         UNCHANGED <<active, exchange, queue, tunnel, timedOut>>,
         up' = up \/ (active = NoConn /\ task[t].pc \in Main)
  PROVE  TInv'
<1>1. GateInv' /\ EndInv'
  BY DEF TInv, GateInv, EndInv, Moved
<1>2. QueueInv'
  BY MoveKeepsQueues DEF TInv
<1>3. /\ \A m \in Modes, c \in Confs : Recording(m, c)' <=> Recording(m, c)
      /\ \A m \in Modes : Releasing(m)' <=> Releasing(m)
  BY SameMarks
<1>4. up' = up \/ (active = NoConn /\ \A m \in Modes, c \in Confs : ~Recording(m, c))
  BY DEF TInv, GateInv, Recording, Main, Holding, Owning, Marked
<1> QED
  BY <1>1, <1>2, <1>3, <1>4, NothingRaised

LEMMA BeginKeepsTunnels ==
  ASSUME IInv, TInv, Gated, NEW t \in Tasks, Begin(t)
  PROVE  TInv'
<1>1. TypeOK /\ active.conf \in Confs \cup {NoConf}
  <2>1. NoConn.conf = NoConf
    BY DEF NoConn
  <2> QED
    BY <2>1 DEF IInv, TypeOK
<1>2. /\ task[t].pc = "idle" /\ Moved(t)
      /\ task'[t].pc \in {"configure", "connect", "end", "status"}
      /\ task'[t].pc \in Main => \A u \in Tasks : task[u].pc \notin Main
      /\ task'[t].pc = "end" /\ task'[t].mode = active.mode => task'[t].conf = active.conf
      /\ UNCHANGED <<active, helperVars, faultVars>>
  <2>1. CASE ConfigureBegin(t)
    BY <1>1, <2>1, GotoMoves DEF ConfigureBegin, Places, Main, Holding, Owning
  <2>2. CASE \E m \in Modes : ConnectBegin(t, m)
    BY <1>1, <2>2, EnterMoves DEF ConnectBegin, MayBegin, Places, Main
  <2>3. CASE \E m \in Modes : EndBegin(t, m)
    BY <1>1, <2>3, EnterMoves DEF EndBegin, MayBegin, Places, Main
  <2>4. CASE \E m \in Modes : StatusBegin(t, m)
    BY <1>1, <2>4, EnterMoves DEF StatusBegin, Places, Main, Holding, Owning
  <2> QED
    BY <2>1, <2>2, <2>3, <2>4 DEF Begin
<1> QED
  BY <1>2, MoveKeepsTunnels DEF Calling, Marked, helperVars, faultVars

LEMMA CheckKeepsTunnels ==
  ASSUME IInv, TInv, NEW t \in Tasks, ConnectCheck(t) \/ AuthConfigure(t)
  PROVE  TInv'
<1>1. TypeOK
  BY DEF IInv
<1>2. /\ task[t].pc \in {"connect", "configure"} /\ Moved(t)
      /\ task'[t].pc = "idle" \/ (task[t].pc = "connect" /\ task'[t].pc = "hello")
      /\ UNCHANGED <<active, helperVars, faultVars>>
  <2>1. CASE ConnectCheck(t)
    BY <1>1, <2>1, GotoMoves DEF ConnectCheck, Places, Main, Holding
  <2>2. CASE AuthConfigure(t)
    <3>1. active = NoConn
      BY <2>2 DEF AuthConfigure, IInv, QuietInv, Configuring
    <3> QED
      BY <1>1, <2>2, <3>1, GotoMoves DEF AuthConfigure, Places
  <2> QED
    BY <2>1, <2>2
<1> QED
  BY <1>2, MoveKeepsTunnels DEF Calling, Marked, Main, Holding, Owning, helperVars, faultVars

LEMMA HolderKeepsTunnels ==
  ASSUME IInv, TInv, NEW t \in Tasks, Launch(t) \/ Prepare(t) \/ Disconnect(t)
  PROVE  TInv'
<1>1. /\ task[t].pc \in {"launch", "prepare", "undo", "disconnect"}
      /\ task[t].pc \in Holding
  BY DEF Launch, Prepare, Disconnect, Holding, Owning
<1>2. TypeOK /\ active = NoConn /\ task[t].mode \in Modes
  BY <1>1, HolderAlone DEF IInv
<1>3. /\ Moved(t)
      /\ task'[t].pc \in {"idle", "prepare", "start"}
      /\ UNCHANGED <<active, exchange, queue, tunnel, timedOut>>
  <2>1. CASE Launch(t)
    BY <1>2, <2>1, GotoMoves DEF Launch, Finish, Places, Main, Holding, faultVars
  <2>2. CASE Prepare(t)
    <3>1. CASE Finish(t)
      BY <1>2, <2>2, <3>1, GotoMoves DEF Prepare, Finish, Places, helperVars, faultVars
    <3>2. CASE nextConf <= MaxConf /\ Enter(t, "start", task[t].mode, nextConf)
      <4>1. nextConf \in Confs
        BY <1>2, <3>2 DEF TypeOK, Confs
      <4> QED
        BY <1>2, <2>2, <3>2, <4>1, EnterMoves
           DEF Prepare, Places, Main, Holding, Owning, helperVars, faultVars
    <3> QED
      BY <2>2, <3>1, <3>2 DEF Prepare
  <2>3. CASE Disconnect(t)
    BY <1>2, <2>3, GotoMoves DEF Disconnect, Finish, Places, helperVars, faultVars
  <2> QED
    BY <2>1, <2>2, <2>3
<1> QED
  BY <1>1, <1>2, <1>3, MoveKeepsTunnels DEF Calling, Marked, Main, Holding, Owning

LEMMA RecordKeepsTunnels ==
  ASSUME IInv, TInv, NEW t \in Tasks, Record(t)
  PROVE  TInv'
<1> DEFINE m == task[t].mode
           c == task[t].conf
<1>1. task[t].pc = "record" /\ task[t].pc \in Holding /\ task[t].pc \in Owning
  BY DEF Record, Holding, Owning
<1>2. active = NoConn /\ m \in Modes /\ c \in Confs
  BY <1>1, HolderAlone DEF IInv, OwnInv, TypeOK, Task
<1>3. /\ Moved(t) /\ task'[t].pc = "idle" /\ active' = [mode |-> m, conf |-> c]
      /\ UNCHANGED <<helperVars, faultVars>>
  BY GotoMoves DEF Record, Finish, Places, IInv
<1>4. \A u \in Tasks : task[u].pc \in Main => u = t
  BY <1>1 DEF TInv, GateInv, Main
<1>5. Recording(m, c)
  BY <1>1, <1>2 DEF Recording, IInv, TypeOK, Task
<1>6. \A n \in Modes, d \in Confs : Recording(n, d) => n = m /\ d = c
  BY <1>4 DEF Recording, Main, Holding, Owning
<1>7. \A u \in Tasks : task'[u].pc \notin Main
  BY <1>3, <1>4 DEF Moved, Main, Holding, Owning
<1>8. /\ \A n \in Modes, d \in Confs : ~Recording(n, d)'
      /\ \A n \in Modes : ~Releasing(n)'
  BY <1>7 DEF Recording, Releasing, Main, Holding, Owning
<1>9. GateInv' /\ ReleaseInv' /\ RecordInv' /\ EndInv'
  BY <1>7, <1>8 DEF GateInv, ReleaseInv, RecordInv, EndInv, Main
<1>10. QueueInv'
  BY <1>1, <1>3, MoveKeepsQueues DEF TInv, Calling, helperVars, faultVars
<1>11. TunnelInv'
  <2>1. \A n \in Modes : tunnel[n] # NoConf => tunnel[n] \in Confs
    BY DEF IInv, TypeOK
  <2>2. \A n \in Modes : active # [mode |-> n, conf |-> tunnel[n]]
    BY <1>2 DEF NoConn
  <2> QED
    BY <1>3, <1>6, <2>1, <2>2 DEF TInv, TunnelInv, StartLost, helperVars, faultVars
<1>12. ActiveInv'
  BY <1>2, <1>3, <1>5 DEF TInv, RecordInv, ActiveInv, helperVars
<1> QED
  BY <1>9, <1>10, <1>11, <1>12 DEF TInv

LEMMA ReleaseKeepsTunnels ==
  ASSUME IInv, TInv, NEW t \in Tasks, Release(t)
  PROVE  TInv'
<1> DEFINE m == task[t].mode
<1>1. /\ task[t].pc = "release" /\ m \in Modes /\ TypeOK
      /\ UNCHANGED <<helperVars, faultVars>>
  BY DEF Release, IInv, ModeInv
<1>2. /\ Moved(t) /\ task'[t].pc \in {"idle", "disconnect"}
      /\ \/ active' = NoConn /\ active.mode = m
         \/ active' = active /\ ~(active # NoConn /\ active.mode = m)
  <2>1. CASE active # NoConn /\ active.mode = m
    <3>1. active.conf \in Confs
      BY <1>1, <2>1 DEF TypeOK
    <3> QED
      BY <1>1, <2>1, <3>1, EnterMoves DEF Release, Places, Main, Holding, Owning
  <2>2. CASE ~(active # NoConn /\ active.mode = m)
    BY <1>1, <2>2, GotoMoves DEF Release, Places
  <2> QED
    BY <2>1, <2>2
<1>3. \A u \in Tasks : task[u].pc \in Main => u = t
  BY <1>1 DEF TInv, GateInv, Main
<1>4. \A u \in Tasks : task'[u].pc \in Main => u = t
  BY <1>2, <1>3 DEF Moved
<1>5. /\ \A n \in Modes, d \in Confs : ~Recording(n, d) /\ ~Recording(n, d)'
      /\ \A n \in Modes : ~Releasing(n)'
      /\ \A n \in Modes : Releasing(n) => n = m
  BY <1>1, <1>2, <1>3, <1>4 DEF Recording, Releasing, Main, Holding, Owning
<1>6. GateInv' /\ ReleaseInv' /\ RecordInv' /\ EndInv'
  BY <1>2, <1>4, <1>5 DEF GateInv, ReleaseInv, RecordInv, EndInv, Main
<1>7. QueueInv'
  BY <1>1, <1>2, MoveKeepsQueues DEF TInv, Calling, helperVars, faultVars
<1>8. TunnelInv'
  <2>1. \A n \in Modes : tunnel[n] # NoConf => tunnel[n] \in Confs
    BY <1>1 DEF TypeOK
  <2>2. Releasing(m)
    BY <1>1 DEF Releasing
  <2>3. tunnel[m] = NoConf \/ StartLost(tunnel[m])
    BY <1>1, <2>2 DEF TInv, ReleaseInv
  <2> QED
    BY <1>1, <1>2, <1>5, <2>1, <2>3 DEF TInv, TunnelInv, StartLost, helperVars, faultVars
<1>9. ActiveInv'
  <2>1. active # NoConn => active.mode \in Modes
    BY <1>1 DEF TypeOK
  <2> QED
    BY <1>1, <1>2, <1>5, <2>1 DEF TInv, ActiveInv, EndLost, helperVars, faultVars
<1> QED
  BY <1>6, <1>7, <1>8, <1>9 DEF TInv

\* Where an answer, or the want of one, takes the task that asked.
LEMMA Answered ==
  ASSUME IInv, TInv, NEW t \in Tasks, NEW ok \in BOOLEAN, task[t].pc \in Calling, Reply(t, ok),
         active' = active
  PROVE  /\ Moved(t) /\ GateInv' /\ EndInv'
         /\ task'[t].pc = IF ok THEN OnSuccess[task[t].pc] ELSE OnFailure[task[t].pc]
         /\ task'[t].pc # "idle" => task'[t].mode = task[t].mode /\ task'[t].conf = task[t].conf
<1> DEFINE place == IF ok THEN OnSuccess[task[t].pc] ELSE OnFailure[task[t].pc]
<1>1. /\ place \in Places \ {"end"}
      /\ place \in Main => task[t].pc \in Main
  BY DEF Calling, OnSuccess, OnFailure, Places, Main, Holding, Owning
<1>2. Goto(t, place)
  BY DEF Reply
<1> HIDE DEF place
<1>3. /\ Moved(t) /\ task'[t].pc = place
      /\ place # "idle" => task'[t].mode = task[t].mode /\ task'[t].conf = task[t].conf
  BY <1>1, <1>2, GotoMoves DEF IInv
<1>4. GateInv' /\ EndInv'
  BY <1>1, <1>3 DEF TInv, GateInv, EndInv, Moved
<1> QED
  BY <1>3, <1>4 DEF place

\* An answer that is neither a tunnel nor the end of one.
LEMMA AnsweredSameMarks ==
  ASSUME IInv, TInv, NEW t \in Tasks, NEW ok \in BOOLEAN, task[t].pc \in Calling, Reply(t, ok),
         active' = active, ok => task[t].pc \notin {"start", "end"}
  PROVE  /\ \A m \in Modes, c \in Confs : Recording(m, c)' <=> Recording(m, c)
         /\ \A m \in Modes : Releasing(m)' <=> Releasing(m)
<1>1. Moved(t) /\ task[t].pc \notin Marked /\ task'[t].pc \notin Marked
  BY Answered DEF Marked, Calling, OnSuccess, OnFailure
<1> QED
  BY <1>1, SameMarks

\* One socket is looked at when only that socket and the task that waits at it change.
LEMMA OneQueue ==
  ASSUME IInv, QueueInv, NEW m \in Modes, QueueAt(m)', timedOut \subseteq timedOut',
         \A n \in Modes \ {m} : exchange'[n] = exchange[n] /\ queue'[n] = queue[n],
         \A u \in Tasks : task'[u] = task[u] \/ task[u].mode = m
  PROVE  QueueInv'
<1>1. ASSUME NEW n \in Modes \ {m} PROVE QueueAt(n)'
  <2>1. exchange[n] # NoTask => exchange[n] \in Tasks /\ task[exchange[n]].mode = n
    BY DEF IInv, TypeOK, ExchangeInv
  <2>2. exchange[n] # NoTask => Own(n)' = Own(n)
    BY <2>1 DEF Own
  <2> QED
    BY <2>2 DEF QueueInv, QueueAt
<1> QED
  BY <1>1 DEF QueueInv

LEMMA SendKeepsTunnels ==
  ASSUME IInv, TInv, NEW t \in Tasks, Send(t)
  PROVE  TInv'
<1>0. task[t].pc \in Calling /\ task[t].mode \in Modes
  BY DEF Send, IInv, ModeInv, Calling
<1>1. PICK m \in Modes :
        /\ m = task[t].mode /\ task[t].pc \in Calling /\ exchange[m] = NoTask
        /\ UNCHANGED <<active, up, tunnel, timedOut>>
  BY <1>0 DEF Send, faultVars
<1>2. queue \in [Modes -> Seq(Request)] /\ exchange \in [Modes -> Tasks \cup {NoTask}]
  BY DEF IInv, TypeOK, Request
<1>5. PICK r \in Request : r = [cmd |-> task[t].pc, conf |-> task[t].conf]
  BY <1>0 DEF IInv, TypeOK, Task, Request
<1>6. PICK q \in Seq(Request) : q = queue[m]
  BY <1>2
<1>3. CASE up[m]
  <2>1. /\ exchange' = [exchange EXCEPT ![m] = t] /\ queue' = [queue EXCEPT ![m] = Append(@, r)]
        /\ task' = task
    BY <1>1, <1>3, <1>5 DEF Send
  <2>2. t # NoTask
    OBVIOUS
  <2>3. /\ queue'[m] = Append(q, r) /\ exchange'[m] = t
        /\ \A n \in Modes \ {m} : exchange'[n] = exchange[n] /\ queue'[n] = queue[n]
    BY <1>1, <1>2, <1>6, <2>1
  <2>4. /\ Len(queue'[m]) = Len(q) + 1 /\ Len(q) \in Nat
        /\ \A i \in 1..Len(q) : queue'[m][i] = q[i]
        /\ queue'[m][Len(q) + 1] = r
    BY <2>3, AppendFacts
  <2>5. QueueAt(m)'
    <3>1. Own(m)' = r
      BY <1>5, <2>1, <2>3 DEF Own
    <3>2. \A i \in 1..Len(q) : q[i] \in timedOut
      BY <1>1, <1>6 DEF TInv, QueueInv, QueueAt
    <3>3. queue'[m] # <<>>
      BY <2>4
    <3>4. queue'[m][Len(queue'[m])] = Own(m)'
      BY <2>4, <3>1
    <3>5. \A i \in 1..Len(queue'[m]) : i # Len(queue'[m]) => queue'[m][i] \in timedOut'
      BY <1>1, <2>4, <3>2
    <3> QED
      BY <2>2, <2>3, <3>3, <3>4, <3>5 DEF QueueAt
  <2>6. QueueInv'
    BY <1>1, <2>1, <2>3, <2>5, OneQueue DEF TInv
  <2>7. GateInv' /\ TunnelInv' /\ ReleaseInv' /\ EndInv'
    BY <1>1, <2>1 DEF TInv, GateInv, TunnelInv, ReleaseInv, EndInv, Recording, Releasing, StartLost
  <2>8. RecordInv'
    <3>1. SUFFICES ASSUME NEW n \in Modes, NEW c \in Confs, Recording(n, c)
                   PROVE  /\ up[n] => tunnel[n] = c
                          /\ \A i \in 1..Len(queue'[n]) : queue'[n][i].cmd \notin {"start", "end"}
      BY <1>1, <2>1 DEF RecordInv, Recording
    <3>2. /\ up[n] => tunnel[n] = c
          /\ \A i \in 1..Len(queue[n]) : queue[n][i].cmd \notin {"start", "end"}
      BY <3>1 DEF TInv, RecordInv
    <3>3. r.cmd \notin {"start", "end"}
      BY <1>5, <3>1 DEF TInv, GateInv, Recording, Main, Holding, Owning
    <3> QED
      BY <1>6, <2>3, <2>4, <3>2, <3>3
  <2>9. ActiveInv'
    <3>1. SUFFICES ASSUME active # NoConn PROVE ActiveInv'
      BY <1>1 DEF ActiveInv
    <3>2. active.mode \in Modes
      BY <3>1 DEF IInv, TypeOK
    <3>3. m = active.mode /\ r.cmd \in {"start", "end"} => r = [cmd |-> "end", conf |-> active.conf]
      <4>1. task[t].pc # "start"
        BY <3>1, HolderAlone DEF Holding, Owning
      <4> QED
        BY <1>1, <1>5, <4>1 DEF TInv, EndInv
    <3>4. \A i \in 1..Len(queue'[active.mode]) : LET s == queue'[active.mode][i] IN
            s.cmd \in {"start", "end"} => s = [cmd |-> "end", conf |-> active.conf]
      <4>1. \A i \in 1..Len(queue[active.mode]) : LET s == queue[active.mode][i] IN
              s.cmd \in {"start", "end"} => s = [cmd |-> "end", conf |-> active.conf]
        BY <3>1 DEF TInv, ActiveInv
      <4>2. CASE m = active.mode
        <5>1. \A i \in 1..Len(q) : LET s == q[i] IN
                s.cmd \in {"start", "end"} => s = [cmd |-> "end", conf |-> active.conf]
          BY <1>6, <4>1, <4>2
        <5>2. \A i \in 1..Len(queue'[m]) : i \in 1..Len(q) \/ queue'[m][i] = r
          BY <2>4
        <5> QED
          BY <2>4, <3>3, <4>2, <5>1, <5>2
      <4>3. CASE m # active.mode
        BY <2>3, <3>2, <4>1, <4>3
      <4> QED
        BY <4>2, <4>3
    <3> QED
      BY <1>1, <2>1, <3>1, <3>4 DEF TInv, ActiveInv, Releasing, EndLost
  <2> QED
    BY <2>6, <2>7, <2>8, <2>9 DEF TInv
<1>4. CASE ~up[m]
  <2>1. Reply(t, FALSE) /\ exchange' = exchange /\ queue' = queue
    BY <1>1, <1>4 DEF Send
  <2>2. Moved(t) /\ GateInv' /\ EndInv'
    BY <1>1, <2>1, Answered
  <2>3. /\ \A n \in Modes, c \in Confs : Recording(n, c)' <=> Recording(n, c)
        /\ \A n \in Modes : Releasing(n)' <=> Releasing(n)
    BY <1>1, <2>1, AnsweredSameMarks
  <2>4. QueueInv'
    <3>1. QueueAt(m)'
      BY <1>1, <2>1 DEF TInv, QueueInv, QueueAt
    <3>2. \A u \in Tasks : task'[u] = task[u] \/ task[u].mode = m
      BY <1>1, <2>2 DEF Moved
    <3> QED
      BY <1>1, <2>1, <3>1, <3>2, OneQueue DEF TInv
  <2> QED
    BY <1>1, <2>1, <2>2, <2>3, <2>4, NothingRaised
<1> QED
  BY <1>3, <1>4

LEMMA HelperDiesKeepsTunnels ==
  ASSUME IInv, TInv, NEW m \in Modes, HelperDies(m)
  PROVE  TInv'
<1>1. /\ up' = [up EXCEPT ![m] = FALSE] /\ tunnel' = [tunnel EXCEPT ![m] = NoConf]
      /\ queue' = [queue EXCEPT ![m] = <<>>]
      /\ IF exchange[m] # NoTask
         THEN Reply(exchange[m], FALSE) /\ exchange' = [exchange EXCEPT ![m] = NoTask]
         ELSE UNCHANGED <<task, exchange>>
      /\ UNCHANGED <<active, timedOut>>
  BY DEF HelperDies
<1>2. TypeOK /\ ExchangeInv
  BY DEF IInv
<1>3. /\ ~up'[m] /\ tunnel'[m] = NoConf /\ queue'[m] = <<>> /\ exchange'[m] = NoTask
      /\ \A n \in Modes \ {m} : /\ exchange'[n] = exchange[n] /\ queue'[n] = queue[n]
                               /\ up'[n] = up[n] /\ tunnel'[n] = tunnel[n]
  BY <1>1, <1>2 DEF TypeOK
<1>4. /\ GateInv' /\ EndInv'
      /\ \A n \in Modes, c \in Confs : Recording(n, c)' <=> Recording(n, c)
      /\ \A n \in Modes : Releasing(n)' <=> Releasing(n)
      /\ \A u \in Tasks : task'[u] = task[u] \/ task[u].mode = m
  <2>1. CASE exchange[m] # NoTask
    <3>1. PICK t \in Tasks : t = exchange[m]
      BY <1>2, <2>1 DEF TypeOK
    <3>2. task[t].pc \in Calling /\ task[t].mode = m /\ Reply(t, FALSE)
      BY <1>1, <1>2, <2>1, <3>1 DEF ExchangeInv
    <3> QED
      BY <1>1, <3>2, Answered, AnsweredSameMarks DEF Moved
  <2>2. CASE exchange[m] = NoTask
    BY <1>1, <2>2 DEF TInv, GateInv, EndInv, Recording, Releasing
  <2> QED
    BY <2>1, <2>2
<1>5. QueueAt(m)'
  BY <1>3 DEF QueueAt
<1>6. QueueInv'
  BY <1>1, <1>3, <1>4, <1>5, OneQueue DEF TInv
<1>7. \A n \in Modes : \A i \in 1..Len(queue'[n]) :
        \E j \in 1..Len(queue[n]) : queue'[n][i] = queue[n][j]
  BY <1>3
<1> QED
  BY <1>1, <1>3, <1>4, <1>6, <1>7, NothingRaised

LEMMA TimeOutKeepsTunnels ==
  ASSUME IInv, TInv, NEW m \in Modes, TimeOut(m)
  PROVE  TInv'
<1>1. TypeOK /\ ExchangeInv /\ exchange[m] # NoTask
  BY DEF IInv, TimeOut
<1>2. PICK t \in Tasks : t = exchange[m]
  BY <1>1 DEF TypeOK
<1>3. PICK q \in Seq(Request) : q = queue[m]
  BY <1>1 DEF TypeOK, Request
<1>4. /\ Reply(t, FALSE) /\ exchange' = [exchange EXCEPT ![m] = NoTask]
      /\ \/ queue' = [queue EXCEPT ![m] = SubSeq(@, 1, Len(@) - 1)] /\ timedOut' = timedOut
         \/ queue' = queue /\ timedOut' = timedOut \cup {Own(m)}
      /\ UNCHANGED <<active, up, tunnel>>
  BY <1>2 DEF TimeOut, Own
<1>5. /\ exchange'[m] = NoTask
      /\ \A n \in Modes \ {m} : exchange'[n] = exchange[n] /\ queue'[n] = queue[n]
      /\ queue'[m] = SubSeq(q, 1, Len(q) - 1) \/ queue'[m] = q
  BY <1>1, <1>3, <1>4 DEF TypeOK
<1>6. task[t].pc \in Calling /\ task[t].mode = m
  BY <1>1, <1>2 DEF ExchangeInv
<1>7. /\ GateInv' /\ EndInv'
      /\ \A n \in Modes, c \in Confs : Recording(n, c)' <=> Recording(n, c)
      /\ \A n \in Modes : Releasing(n)' <=> Releasing(n)
      /\ \A u \in Tasks : task'[u] = task[u] \/ task[u].mode = m
  BY <1>4, <1>6, Answered, AnsweredSameMarks DEF Moved
<1>8. /\ q # <<>> /\ q[Len(q)] = Own(m)
      /\ \A i \in 1..Len(q) : i # Len(q) => q[i] \in timedOut
  BY <1>1, <1>3 DEF TInv, QueueInv, QueueAt
<1>9. /\ Len(q) \in Nat \ {0} /\ Len(SubSeq(q, 1, Len(q) - 1)) = Len(q) - 1
      /\ \A i \in 1..(Len(q) - 1) : SubSeq(q, 1, Len(q) - 1)[i] = q[i]
  BY <1>8, QueueFacts
<1>10. /\ \A i \in 1..Len(queue'[m]) : queue'[m][i] \in timedOut'
       /\ \A i \in 1..Len(queue'[m]) : \E j \in 1..Len(q) : queue'[m][i] = q[j]
  <2>1. CASE queue' = [queue EXCEPT ![m] = SubSeq(@, 1, Len(@) - 1)] /\ timedOut' = timedOut
    <3>1. queue'[m] = SubSeq(q, 1, Len(q) - 1)
      BY <1>1, <1>3, <2>1 DEF TypeOK
    <3> QED
      BY <1>8, <1>9, <2>1, <3>1
  <2>2. CASE queue' = queue /\ timedOut' = timedOut \cup {Own(m)}
    BY <1>3, <1>8, <2>2
  <2> QED
    BY <1>4, <2>1, <2>2
<1>11. QueueAt(m)'
  BY <1>5, <1>10 DEF QueueAt
<1>12. QueueInv'
  BY <1>4, <1>5, <1>7, <1>11, OneQueue DEF TInv
<1>13. \A n \in Modes : \A i \in 1..Len(queue'[n]) :
         \E j \in 1..Len(queue[n]) : queue'[n][i] = queue[n][j]
  BY <1>3, <1>5, <1>10
<1> QED
  BY <1>4, <1>7, <1>12, <1>13, NothingRaised

\* The request of a task that waits: it is the only one in the socket.
LEMMA ServeAwaited ==
  ASSUME IInv, TInv, NEW m \in Modes, NEW t \in Tasks, t = exchange[m], NEW ok \in BOOLEAN,
         Len(queue[m]) = 1, Obey(m, Own(m), ok), Reply(t, ok),
         exchange' = [exchange EXCEPT ![m] = NoTask], NEW p, Len(p) = 0, queue' = [queue EXCEPT ![m] = p],
         UNCHANGED <<active, up, timedOut>>
  PROVE  TInv'
<1>1. TypeOK /\ task[t].pc \in Calling /\ task[t].mode = m
  BY DEF IInv, TypeOK, ExchangeInv
<1>2. /\ exchange'[m] = NoTask /\ Len(queue'[m]) = 0
      /\ \A n \in Modes \ {m} : exchange'[n] = exchange[n] /\ queue'[n] = queue[n]
  BY <1>1 DEF TypeOK
<1>3. /\ Moved(t) /\ GateInv' /\ EndInv'
      /\ task'[t].pc = IF ok THEN OnSuccess[task[t].pc] ELSE OnFailure[task[t].pc]
      /\ task'[t].pc # "idle" => task'[t].mode = task[t].mode /\ task'[t].conf = task[t].conf
  BY <1>1, Answered
<1>4. QueueInv'
  <2>1. QueueAt(m)'
    BY <1>2 DEF QueueAt
  <2> QED
    BY <1>1, <1>2, <1>3, <2>1, OneQueue DEF TInv, Moved
<1>5. Own(m).cmd = task[t].pc /\ Own(m).conf = task[t].conf
  BY DEF Own
<1>6. CASE task[t].pc \notin {"start", "end"} \/ ~ok
  <2>1. /\ \A n \in Modes, c \in Confs : Recording(n, c)' <=> Recording(n, c)
        /\ \A n \in Modes : Releasing(n)' <=> Releasing(n)
    BY <1>1, <1>6, AnsweredSameMarks
  <2>2. tunnel' = tunnel
    BY <1>5, <1>6 DEF Obey
  <2>3. \A n \in Modes : \A i \in 1..Len(queue'[n]) :
          \E j \in 1..Len(queue[n]) : queue'[n][i] = queue[n][j]
    BY <1>2
  <2> QED
    BY <1>3, <1>4, <2>1, <2>2, <2>3, NothingRaised
<1>7. CASE ok /\ task[t].pc = "start"
  <2>1. task[t].pc \in Holding /\ task[t].pc \in Owning /\ task[t].pc \in Main
    BY <1>7 DEF Main, Holding, Owning
  <2>2. active = NoConn
    BY <2>1, HolderAlone
  <2>12. PICK c \in Confs : c = task[t].conf
    BY <1>1, <2>1 DEF IInv, OwnInv, TypeOK, Task
  <2>3. tunnel'[m] = c /\ \A n \in Modes \ {m} : tunnel'[n] = tunnel[n]
    BY <1>1, <1>5, <1>7, <2>12 DEF Obey, TypeOK
  <2>4. task'[t].pc = "record" /\ task'[t].mode = m /\ task'[t].conf = c
    BY <1>1, <1>3, <1>7, <2>12 DEF OnSuccess
  <2>5. task'[t] = [pc |-> "record", mode |-> m, conf |-> c]
    BY <1>3, <2>4 DEF Moved, Task
  <2>6. \A u \in Tasks : task[u].pc \in Main => u = t
    BY <2>1 DEF TInv, GateInv
  <2>7. \A u \in Tasks : task'[u].pc \in Main => u = t
    BY <1>3, <2>6 DEF Moved
  <2>8. /\ \A n \in Modes, d \in Confs : ~Recording(n, d)
        /\ \A n \in Modes, d \in Confs : Recording(n, d)' => n = m /\ d = tunnel'[m]
        /\ \A n \in Modes : ~Releasing(n)'
    <3>1. \A n \in Modes, d \in Confs : ~Recording(n, d)
      BY <1>7, <2>6 DEF Recording, Main, Holding, Owning
    <3>2. \A n \in Modes, d \in Confs : Recording(n, d)' => n = m /\ d = tunnel'[m]
      BY <2>3, <2>4, <2>7 DEF Recording, Main, Holding, Owning
    <3>3. \A n \in Modes : ~Releasing(n)'
      BY <2>4, <2>7 DEF Releasing, Main
    <3> QED
      BY <3>1, <3>2, <3>3
  <2>9. Recording(m, c)'
    BY <2>5 DEF Recording
  <2>10. TunnelInv'
    <3>1. \A n \in Modes : tunnel[n] # NoConf => tunnel[n] \in Confs
      BY <1>1 DEF TypeOK
    <3>2. \A n \in Modes : active # [mode |-> n, conf |-> tunnel[n]]
      BY <2>2 DEF NoConn
    <3>3. \A n \in Modes : tunnel[n] # NoConf => StartLost(tunnel[n])
      BY <2>8, <3>1, <3>2 DEF TInv, TunnelInv
    <3> QED
      BY <2>3, <2>9, <3>3 DEF TunnelInv, StartLost
  <2>11. ReleaseInv' /\ RecordInv' /\ ActiveInv'
    BY <1>2, <2>2, <2>8 DEF ReleaseInv, RecordInv, ActiveInv
  <2> QED
    BY <1>3, <1>4, <2>10, <2>11 DEF TInv
<1>8. CASE ok /\ task[t].pc = "end"
  <2>1. tunnel'[m] = NoConf /\ \A n \in Modes \ {m} : tunnel'[n] = tunnel[n]
    BY <1>1, <1>5, <1>8 DEF Obey, TypeOK
  <2>2. task'[t].pc = "release" /\ task'[t].mode = m
    BY <1>1, <1>3, <1>8 DEF OnSuccess
  <2>3. \A u \in Tasks : task[u].pc \in Main => u = t
    BY <1>8 DEF TInv, GateInv, Main
  <2>4. \A u \in Tasks : task'[u].pc \in Main => u = t
    BY <1>3, <2>3 DEF Moved
  <2>5. /\ \A n \in Modes, d \in Confs : ~Recording(n, d)
        /\ \A n \in Modes, d \in Confs : ~Recording(n, d)'
        /\ \A n \in Modes : ~Releasing(n)
        /\ \A n \in Modes : Releasing(n)' <=> n = m
    <3>1. \A n \in Modes, d \in Confs : ~Recording(n, d)
      BY <1>8, <2>3 DEF Recording, Main, Holding, Owning
    <3>2. \A n \in Modes, d \in Confs : ~Recording(n, d)'
      BY <2>2, <2>4 DEF Recording, Main, Holding, Owning
    <3>3. \A n \in Modes : ~Releasing(n)
      BY <1>8, <2>3 DEF Releasing, Main
    <3>4. \A n \in Modes : Releasing(n)' <=> n = m
      BY <2>2, <2>4 DEF Releasing, Main
    <3> QED
      BY <3>1, <3>2, <3>3, <3>4
  <2>6. TunnelInv'
    <3>1. \A n \in Modes : tunnel[n] # NoConf => tunnel[n] \in Confs
      BY <1>1 DEF TypeOK
    <3> QED
      BY <2>1, <2>5, <3>1 DEF TInv, TunnelInv, StartLost
  <2>7. ReleaseInv' /\ RecordInv'
    BY <2>1, <2>5 DEF ReleaseInv, RecordInv
  <2>8. ActiveInv'
    <3>1. active # NoConn => active.mode \in Modes
      BY <1>1 DEF TypeOK
    <3> QED
      BY <1>2, <2>1, <2>5, <3>1 DEF TInv, ActiveInv, EndLost
  <2> QED
    BY <1>3, <1>4, <2>6, <2>7, <2>8 DEF TInv
<1> QED
  BY <1>6, <1>7, <1>8

\* A request that was given up: whatever it does was to be expected.
LEMMA ServeLost ==
  ASSUME IInv, TInv, NEW m \in Modes, NEW q \in Seq(Request), q = queue[m], q # <<>>,
         ~(Len(q) = 1 /\ exchange[m] # NoTask), NEW ok \in BOOLEAN, Obey(m, q[1], ok),
         queue' = [queue EXCEPT ![m] = Tail(q)],
         UNCHANGED <<task, exchange, active, up, timedOut>>
  PROVE  TInv'
<1>1. TypeOK
  BY DEF IInv
<1>2. /\ Len(q) \in Nat \ {0} /\ Len(Tail(q)) = Len(q) - 1
      /\ \A i \in 1..Len(Tail(q)) : Tail(q)[i] = q[i + 1]
  BY QueueFacts
<1>3. queue'[m] = Tail(q) /\ \A n \in Modes \ {m} : queue'[n] = queue[n]
  BY <1>1 DEF TypeOK
<1>4. /\ exchange[m] # NoTask => q[Len(q)] = Own(m)
      /\ \A i \in 1..Len(q) : exchange[m] = NoTask \/ i # Len(q) => q[i] \in timedOut
  BY DEF TInv, QueueInv, QueueAt
<1>15. q[1] \in timedOut
  <2>1. 1 \in 1..Len(q)
    BY <1>2
  <2>2. exchange[m] = NoTask \/ 1 # Len(q)
    OBVIOUS
  <2> QED
    BY <1>4, <2>1, <2>2
<1>5. /\ q[1] \in timedOut /\ q[1].cmd \in {"start", "end"} /\ q[1].conf \in Confs \cup {NoConf}
      /\ q[1] = [cmd |-> q[1].cmd, conf |-> q[1].conf]
  BY <1>1, <1>15 DEF TypeOK
<1>6. QueueInv'
  <2>1. exchange[m] # NoTask => Tail(q) # <<>> /\ Tail(q)[Len(Tail(q))] = Own(m)
    <3>1. SUFFICES ASSUME exchange[m] # NoTask
                   PROVE  Tail(q) # <<>> /\ Tail(q)[Len(Tail(q))] = Own(m)
      OBVIOUS
    <3>2. Len(q) # 1
      BY <3>1
    <3> QED
      BY <1>4, <3>1, <3>2, LastOfTail
  <2>2. \A i \in 1..Len(Tail(q)) : exchange[m] = NoTask \/ i # Len(Tail(q)) => Tail(q)[i] \in timedOut
    BY <1>2, <1>4
  <2>3. QueueAt(m)'
    <3>1. Own(m)' = Own(m)
      BY DEF Own
    <3>2. queue'[m] = Tail(q) /\ exchange' = exchange /\ timedOut' = timedOut
      BY <1>3
    <3> QED
      BY <2>1, <2>2, <3>1, <3>2 DEF QueueAt
  <2> QED
    BY <1>3, <2>3, OneQueue DEF TInv
<1>7. \A i \in 1..Len(queue'[m]) : \E j \in 1..Len(q) : queue'[m][i] = q[j]
  BY <1>2, <1>3
<1>8. /\ \A n \in Modes \ {m} : tunnel'[n] = tunnel[n]
      /\ \/ tunnel'[m] = tunnel[m]
         \/ tunnel'[m] = NoConf /\ EndLost(q[1].conf)
         \/ StartLost(tunnel'[m])
  BY <1>1, <1>5 DEF Obey, TypeOK, StartLost, EndLost
<1>9. \A c \in Confs : ~Recording(m, c)
  BY <1>2, <1>5 DEF TInv, RecordInv
<1>10. GateInv' /\ EndInv'
  BY DEF TInv, GateInv, EndInv
<1>11. TunnelInv'
  <2>1. \A n \in Modes : tunnel[n] # NoConf => tunnel[n] \in Confs
    BY <1>1 DEF TypeOK
  <2> QED
    BY <1>8, <1>9, <2>1 DEF TInv, TunnelInv, Recording, StartLost
<1>12. ReleaseInv'
  BY <1>8 DEF TInv, ReleaseInv, Releasing, StartLost
<1>13. RecordInv'
  BY <1>3, <1>8, <1>9 DEF TInv, RecordInv, Recording
<1>14. ActiveInv'
  <2>1. SUFFICES ASSUME active # NoConn PROVE ActiveInv'
    BY DEF ActiveInv
  <2>2. active.mode \in Modes
    BY <1>1, <2>1 DEF TypeOK
  <2>3. CASE active.mode = m
    <3>1. \A i \in 1..Len(q) : q[i].cmd \in {"start", "end"} =>
            q[i] = [cmd |-> "end", conf |-> active.conf]
      BY <2>1, <2>3 DEF TInv, ActiveInv
    <3>2. EndLost(active.conf)
      BY <1>2, <1>5, <3>1 DEF EndLost
    <3> QED
      BY <1>7, <2>3, <3>1, <3>2 DEF ActiveInv, EndLost
  <2>4. CASE active.mode # m
    BY <1>3, <1>8, <2>1, <2>2, <2>4 DEF TInv, ActiveInv, Releasing, EndLost
  <2> QED
    BY <2>3, <2>4
<1> QED
  BY <1>6, <1>10, <1>11, <1>12, <1>13, <1>14 DEF TInv

LEMMA ServeKeepsTunnels ==
  ASSUME IInv, TInv, NEW m \in Modes, Serve(m)
  PROVE  TInv'
<1>1. PICK q \in Seq(Request) : q = queue[m]
  BY DEF IInv, TypeOK, Request
<1>2. /\ q # <<>> /\ Head(q) = q[1] /\ queue' = [queue EXCEPT ![m] = Tail(q)]
      /\ UNCHANGED <<active, up, timedOut>>
  BY <1>1, QueueFacts DEF Serve, faultVars
<1>3. PICK ok \in BOOLEAN :
        /\ Obey(m, q[1], ok)
        /\ IF Len(q) = 1 /\ exchange[m] # NoTask
           THEN Reply(exchange[m], ok) /\ exchange' = [exchange EXCEPT ![m] = NoTask]
           ELSE UNCHANGED <<task, exchange>>
  BY <1>1, <1>2 DEF Serve
<1>4. CASE Len(q) = 1 /\ exchange[m] # NoTask
  <2>1. PICK t \in Tasks : t = exchange[m]
    BY <1>4 DEF IInv, TypeOK
  <2>2. q[1] = Own(m)
    BY <1>1, <1>4 DEF TInv, QueueInv, QueueAt
  <2>3. Len(Tail(q)) = 0
    BY <1>2, <1>4, QueueFacts
  <2> QED
    BY <1>1, <1>2, <1>3, <1>4, <2>1, <2>2, <2>3, ServeAwaited
<1>5. CASE ~(Len(q) = 1 /\ exchange[m] # NoTask)
  BY <1>1, <1>2, <1>3, <1>5, ServeLost
<1> QED
  BY <1>4, <1>5

LEMMA TunnelsStep == IInv /\ TInv /\ Gated /\ [Next]_vars => TInv'
<1> SUFFICES ASSUME IInv, TInv, Gated, [Next]_vars PROVE TInv'
    OBVIOUS
<1>1. CASE AuthStatus \/ AuthBeginQr \/ AuthPollQr \/ AuthRefreshNodes \/ AuthReset
  BY <1>1, AuthKeepsTunnels
     DEF AuthStatus, AuthBeginQr, AuthPollQr, AuthRefreshNodes, AuthReset, helperVars, faultVars
<1>2. CASE \E t \in Tasks : Begin(t)
  BY <1>2, BeginKeepsTunnels
<1>3. CASE \E t \in Tasks : TakeLock(t) \/ Proceed(t) \/ Send(t)
  BY <1>3, CheckKeepsTunnels, ReleaseKeepsTunnels, HolderKeepsTunnels, RecordKeepsTunnels,
     SendKeepsTunnels DEF TakeLock, Proceed
<1>4. CASE \E m \in Modes : Serve(m) \/ TimeOut(m) \/ HelperDies(m)
  BY <1>4, ServeKeepsTunnels, TimeOutKeepsTunnels, HelperDiesKeepsTunnels
<1>5. CASE UNCHANGED vars
  BY <1>5, AuthKeepsTunnels DEF vars, helperVars, faultVars
<1> QED
  BY <1>1, <1>2, <1>3, <1>4, <1>5 DEF Next

\* The inductive invariant behind the two theorems on tunnels.
THEOREM TunnelsInv == Spec => [](Gated => TInv)
<1>1. Init => (Gated => TInv)
  BY TunnelsInit
<1>2. IInv /\ (Gated => TInv) /\ [Next]_vars => (Gated => TInv)'
  BY TunnelsStep
<1> QED
  BY <1>1, <1>2, ControllerInv, PTL DEF Spec

\* With one command at a time, no tunnel is up that is not on record, about to be, or of a
\* start whose caller gave up: whatever helpers, timeouts and late requests do.
THEOREM TunnelsAlwaysAccounted == Spec => []TunnelAccounted
<1>1. (Gated => TInv) => TunnelAccounted
  <2>1. \A m, c : Recording(m, c) =>
          \E t \in Tasks : task[t].pc = "record" /\ task[t].mode = m /\ task[t].conf = c
    BY DEF Recording
  <2> QED
    BY <2>1 DEF TInv, TunnelInv, StartLost, TunnelAccounted
<1> QED
  BY <1>1, TunnelsInv, PTL

\* With one command at a time, nothing but its own stop or cleanup, late ones included,
\* takes a recorded tunnel from a helper that lives.
THEOREM ActiveAlwaysHasTunnel == Spec => []ActiveHasTunnel
<1>1. (Gated => TInv) => ActiveHasTunnel
  BY DEF TInv, ActiveInv, Releasing, EndLost, ActiveHasTunnel
<1> QED
  BY <1>1, TunnelsInv, PTL
=============================================================================
