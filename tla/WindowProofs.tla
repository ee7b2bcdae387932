---------------------------- MODULE WindowProofs -----------------------------
(***************************************************************************)
(* The window's state keeps its types, and its commands do not overlap,    *)
(* for any modes and any number of invocations in progress.  And what      *)
(* polling makes of the snapshot, whatever was answered before.            *)
(***************************************************************************)
EXTENDS Window, TLAPS

IInv == TypeOK /\ CommandsDoNotOverlap

\* The kinds of invocation are told apart.
LEMMA Kinds == /\ "status" \notin Commands /\ Requests \cap Commands = {} /\ Polls \cap Commands = {}
               /\ "begin" \in Requests /\ "recheck" \in Polls /\ "poll" \in Polls
               /\ {"load", "configure", "refresh", "reset"} \subseteq Requests
               /\ {"status", "connect", "end"} \cap (Requests \cup Polls) = {}
BY DEF Requests, Polls, Commands

\* An invocation that is made has its type.
LEMMA InvokeType ==
  /\ \A what \in {"status"} \cup Commands, m \in Modes : Invoke(what, m) \in Call
  /\ \A what \in Requests \cup Polls : Invoke(what, NoMode) \in Call
BY WindowAssumption DEF Invoke, Call, Requests, Polls, Commands

LEMMA AnswersType == \A what : Answers(what) \subseteq {"on", "off", "error"} \cup Screens
BY DEF Answers

\* What an answer changes of an invocation: its answer, which has the type its kind has.
LEMMA AnswerType ==
  ASSUME NEW c \in Call, NEW a \in Answers(c.what)
  PROVE  /\ [c EXCEPT !.answer = a] \in Call
         /\ [c EXCEPT !.answer = a].what = c.what
BY AnswersType DEF Call

LEMMA ScreenType == \A s, qr : Screen(s, qr) \in Screens
BY DEF Screen, Screens

\* The fields of an invocation.
LEMMA CallFields ==
  ASSUME NEW c \in Call
  PROVE  /\ c.what \in {"status"} \cup Commands => c.mode \in Modes
         /\ c.answer # Asked => c.answer \in Answers(c.what)
BY Kinds DEF Call, Commands

-----------------------------------------------------------------------------
(* How a step that changes calls keeps them apart                          *)

\* Commands that are neither made nor ended stay as they are.
LEMMA OthersKeep ==
  ASSUME CommandsDoNotOverlap, busy' = busy,
         \A c \in calls' \ calls : c.what \notin Commands,
         \A c \in calls \ calls' : c.what \notin Commands
  PROVE  CommandsDoNotOverlap'
<1>1. InProgress(Commands)' = InProgress(Commands)
  BY DEF InProgress
<1>2. QED
  BY <1>1 DEF CommandsDoNotOverlap

\* The answer to a command takes its place.
LEMMA AnswerKeeps ==
  ASSUME IInv, busy' = busy, NEW c \in calls, NEW a \in Answers(c.what), Answer(c, a)
  PROVE  CommandsDoNotOverlap' /\ calls' \subseteq Call
<1> DEFINE d == [c EXCEPT !.answer = a]
<1>1. c \in Call
  BY DEF IInv, TypeOK
<1>2. d \in Call /\ d.what = c.what
  BY <1>1, AnswerType
<1>3. calls' = (calls \ {c}) \cup {d}
  BY DEF Answer
<1>4. calls' \subseteq Call
  BY <1>2, <1>3 DEF IInv, TypeOK
<1>5. CASE c.what \notin Commands
  <2>1. \A e \in calls' \ calls : e.what \notin Commands
    BY <1>2, <1>3, <1>5
  <2>2. \A e \in calls \ calls' : e.what \notin Commands
    BY <1>3, <1>5
  <2>3. CommandsDoNotOverlap'
    BY <2>1, <2>2, OthersKeep DEF IInv
  <2>4. QED
    BY <1>4, <2>3
<1>6. CASE c.what \in Commands
  <2>1. InProgress(Commands) = {c}
    BY <1>6 DEF IInv, CommandsDoNotOverlap, InProgress
  <2>2. InProgress(Commands)' = {d}
    BY <1>2, <1>3, <1>6, <2>1 DEF InProgress
  <2>3. QED
    BY <1>4, <2>1, <2>2 DEF IInv, CommandsDoNotOverlap, InProgress
<1>7. QED
  BY <1>4, <1>5, <1>6

\* A request or a poll that is made, or that ends, is no command.
LEMMA MadeKeeps ==
  ASSUME IInv, busy' = busy, NEW c \in Call, c.what \notin Commands, calls' = calls \cup {c}
  PROVE  CommandsDoNotOverlap' /\ calls' \subseteq Call
<1>1. \A e \in calls' \ calls : e.what \notin Commands
  OBVIOUS
<1>2. \A e \in calls \ calls' : e.what \notin Commands
  OBVIOUS
<1>3. QED
  BY <1>1, <1>2, OthersKeep DEF IInv, TypeOK

LEMMA EndedKeeps ==
  ASSUME IInv, busy' = busy, NEW c \in calls, c.what \notin Commands, calls' = calls \ {c}
  PROVE  CommandsDoNotOverlap' /\ calls' \subseteq Call
<1>1. \A e \in calls' \ calls : e.what \notin Commands
  OBVIOUS
<1>2. \A e \in calls \ calls' : e.what \notin Commands
  OBVIOUS
<1>3. QED
  BY <1>1, <1>2, OthersKeep DEF IInv, TypeOK

LEMMA FollowedKeeps ==
  ASSUME IInv, busy' = busy, NEW c \in calls, c.what \notin Commands,
         NEW d \in Call, d.what \notin Commands, calls' = (calls \ {c}) \cup {d}
  PROVE  CommandsDoNotOverlap' /\ calls' \subseteq Call
<1>1. \A e \in calls' \ calls : e.what \notin Commands
  OBVIOUS
<1>2. \A e \in calls \ calls' : e.what \notin Commands
  OBVIOUS
<1>3. QED
  BY <1>1, <1>2, OthersKeep DEF IInv, TypeOK

LEMMA InitOK == Init => IInv
<1> SUFFICES ASSUME Init PROVE IInv
  OBVIOUS
<1>1. Invoke("status", FirstMode) \in Call /\ Invoke("load", NoMode) \in Call
  BY InvokeType, Kinds, WindowAssumption
<1>2. InProgress(Commands) = {}
  BY Kinds DEF Init, InProgress, Invoke
<1>3. TypeOK
  BY <1>1, WindowAssumption DEF Init, TypeOK, LoggedIn
<1>4. QED
  BY <1>2, <1>3 DEF IInv, CommandsDoNotOverlap, Init
-----------------------------------------------------------------------------
(* The window's own steps                                                  *)

LEMMA StatusOK == ASSUME IInv, NEW m \in Modes, Status(m), busy' = busy
                  PROVE  CommandsDoNotOverlap' /\ calls' \subseteq Call
<1>1. Invoke("status", m) \in Call /\ Invoke("status", m).what \notin Commands
  BY InvokeType, Kinds DEF Invoke
<1>2. QED
  BY <1>1, MadeKeeps DEF Status

LEMMA RequestOK == ASSUME IInv, NEW what \in Requests, Request(what) PROVE IInv'
<1>1. Invoke(what, NoMode) \in Call /\ Invoke(what, NoMode).what \notin Commands
  BY InvokeType, Kinds DEF Invoke
<1>2. CommandsDoNotOverlap' /\ calls' \subseteq Call
  BY <1>1, MadeKeeps DEF Request
<1>3. QED
  BY <1>2 DEF Request, IInv, TypeOK, backend

\* Connect, End: nothing else is in progress, since busy is clear.
LEMMA CommandOK == ASSUME IInv, NEW what \in Commands, ~busy, busy' = TRUE,
                          calls' = calls \cup {Invoke(what, mode)}
                   PROVE  CommandsDoNotOverlap' /\ calls' \subseteq Call
<1>1. Invoke(what, mode) \in Call /\ Invoke(what, mode).what = what
  BY InvokeType DEF Invoke, IInv, TypeOK
<1>2. InProgress(Commands) = {}
  BY DEF IInv, CommandsDoNotOverlap
<1>3. InProgress(Commands)' = {Invoke(what, mode)}
  BY <1>1, <1>2 DEF InProgress
<1>4. CommandsDoNotOverlap'
  BY <1>3 DEF CommandsDoNotOverlap
<1>5. QED
  BY <1>1, <1>4 DEF IInv, TypeOK

LEMMA PressOK == ASSUME IInv, Press \/ Refresh \/ PollQr PROVE IInv'
<1>1. CASE Connect
  <2>1. CommandsDoNotOverlap' /\ calls' \subseteq Call
    BY <1>1, CommandOK DEF Connect, Commands
  <2>2. QED
    BY <1>1, <2>1 DEF Connect, IInv, TypeOK, backend
<1>2. CASE End
  <2>1. CommandsDoNotOverlap' /\ calls' \subseteq Call
    BY <1>2, CommandOK DEF End, Commands
  <2>2. QED
    BY <1>2, <2>1 DEF End, IInv, TypeOK, backend
<1>3. CASE ConfigureAuth \/ BeginQr \/ RefreshNodes \/ ResetAuth
  BY <1>3, RequestOK, Kinds DEF ConfigureAuth, BeginQr, RefreshNodes, ResetAuth
<1>4. ASSUME NEW m \in Modes, ChangeMode(m) PROVE IInv'
  <2>1. CommandsDoNotOverlap' /\ calls' \subseteq Call
    BY <1>4, StatusOK DEF ChangeMode
  <2>2. QED
    BY <1>4, <2>1 DEF ChangeMode, IInv, TypeOK, backend
<1>5. CASE Refresh
  <2>1. mode \in Modes
    BY DEF IInv, TypeOK
  <2>2. CommandsDoNotOverlap' /\ calls' \subseteq Call
    BY <1>5, <2>1, StatusOK DEF Refresh, window
  <2>3. QED
    BY <1>5, <2>2 DEF Refresh, IInv, TypeOK, backend, window
<1>6. CASE PollQr
  <2>1. Invoke("poll", NoMode) \in Call /\ Invoke("poll", NoMode).what \notin Commands
    BY InvokeType, Kinds DEF Invoke
  <2>2. CommandsDoNotOverlap' /\ calls' \subseteq Call
    BY <1>6, <2>1, MadeKeeps DEF PollQr, window
  <2>3. QED
    BY <1>6, <2>2 DEF PollQr, IInv, TypeOK, backend, window
<1>7. QED
  BY <1>1, <1>2, <1>3, <1>4, <1>5, <1>6 DEF Press
-----------------------------------------------------------------------------
(* What the controller answers                                             *)

LEMMA LoadsType == ASSUME TypeOK
                   PROVE  /\ Loads \subseteq {"unloaded", "absent"} \cup LoggedIn
                          /\ \A s \in Loads : Expire(s) \subseteq {"unloaded", "absent"} \cup LoggedIn
                          /\ Expire(session) \subseteq {"unloaded", "absent"} \cup LoggedIn
BY DEF TypeOK, Loads, Expire, LoggedIn

LEMMA ServeOK == ASSUME IInv, NEW c \in calls, Serve(c) \/ StatusTimesOut(c) PROVE IInv'
<1>0. TypeOK
  BY DEF IInv
<1>1. /\ c \in Call /\ LoggedIn = {"guest", "member"}
      /\ Answers("status") = {"on", "off"} /\ Answers("end") = {"on", "off"}
      /\ Answers("connect") = {"on", "error"}
      /\ \A what \in Requests \cup Polls : Answers(what) = {"form", "ready", "qr", "home", "error"}
  BY <1>0, Kinds DEF TypeOK, LoggedIn, Screens, Answers
<1>2. c.what \in {"status"} \cup Commands => c.mode \in Modes
  BY <1>1, CallFields
<1>3. CASE ServeStatus(c) \/ StatusTimesOut(c)
  <2>1. CommandsDoNotOverlap' /\ calls' \subseteq Call
    BY <1>1, <1>3, AnswerKeeps DEF ServeStatus, StatusTimesOut, window
  <2>2. QED
    BY <1>0, <1>3, <2>1 DEF ServeStatus, StatusTimesOut, IInv, TypeOK, window, backend
<1>4. CASE ServeConnect(c)
  <2>1. c.what \in Commands /\ c.mode \in Modes
    BY <1>2, <1>4 DEF ServeConnect, Commands
  <2>2. CommandsDoNotOverlap' /\ calls' \subseteq Call
    BY <1>1, <1>4, <2>1, AnswerKeeps DEF ServeConnect, window
  <2>3. tunnels' \subseteq Modes /\ active' \in Modes \cup {NoMode}
    BY <1>0, <1>4, <2>1 DEF ServeConnect, TypeOK
  <2>4. session' \in {"unloaded", "absent"} \cup LoggedIn
    BY <1>0, <1>4, LoadsType DEF ServeConnect
  <2>5. QED
    BY <1>0, <1>4, <2>2, <2>3, <2>4 DEF ServeConnect, IInv, TypeOK, window
<1>5. CASE ServeEnd(c)
  <2>1. c.what \in Commands
    BY <1>5 DEF ServeEnd, Commands
  <2>2. CommandsDoNotOverlap' /\ calls' \subseteq Call
    BY <1>1, <1>5, <2>1, AnswerKeeps DEF ServeEnd, window
  <2>3. tunnels' \subseteq Modes /\ active' \in Modes \cup {NoMode}
    BY <1>0, <1>5 DEF ServeEnd, TypeOK
  <2>4. session' \in {"unloaded", "absent"} \cup LoggedIn
    BY <1>0, <1>5, LoadsType DEF ServeEnd, TypeOK
  <2>5. QED
    BY <1>0, <1>5, <2>2, <2>3, <2>4 DEF ServeEnd, IInv, TypeOK, window
<1>6. CASE ServeAuthStatus(c)
  <2>1. c.what \in Requests \cup Polls
    BY <1>6, Kinds DEF ServeAuthStatus
  <2>2. CommandsDoNotOverlap' /\ calls' \subseteq Call
    BY <1>1, <1>6, <2>1, AnswerKeeps, ScreenType DEF Screens, ServeAuthStatus, window
  <2>3. session' \in {"unloaded", "absent"} \cup LoggedIn
    BY <1>0, <1>6, LoadsType DEF ServeAuthStatus
  <2>4. QED
    BY <1>0, <1>6, <2>2, <2>3 DEF ServeAuthStatus, IInv, TypeOK, window
<1>7. CASE ServeConfigure(c)
  <2>1. c.what \in Requests
    BY <1>7, Kinds DEF ServeConfigure
  <2>2. CommandsDoNotOverlap' /\ calls' \subseteq Call
    BY <1>1, <1>7, <2>1, AnswerKeeps DEF ServeConfigure, window
  <2>3. QED
    BY <1>0, <1>1, <1>7, <2>2 DEF ServeConfigure, IInv, TypeOK, window
<1>8. CASE ServeBegin(c)
  <2>1. c.what \in Requests
    BY <1>8, Kinds DEF ServeBegin
  <2>2. CommandsDoNotOverlap' /\ calls' \subseteq Call
    BY <1>1, <1>8, <2>1, AnswerKeeps, ScreenType DEF Screens, ServeBegin, window
  <2>3. session' \in {"unloaded", "absent"} \cup LoggedIn
    BY <1>0, <1>8, LoadsType DEF ServeBegin
  <2>4. QED
    BY <1>0, <1>8, <2>2, <2>3 DEF ServeBegin, IInv, TypeOK, window
<1>9. CASE ServePoll(c)
  <2>1. c.what \in Polls
    BY <1>9, Kinds DEF ServePoll
  <2>2. CommandsDoNotOverlap' /\ calls' \subseteq Call
    BY <1>1, <1>9, <2>1, AnswerKeeps, ScreenType DEF Screens, ServePoll, window
  <2>3. session' \in {"unloaded", "absent"} \cup LoggedIn
    BY <1>0, <1>1, <1>9, LoadsType DEF ServePoll
  <2>4. QED
    BY <1>0, <1>9, <2>2, <2>3 DEF ServePoll, IInv, TypeOK, window
<1>10. CASE ServeRefresh(c)
  <2>1. c.what \in Requests
    BY <1>10, Kinds DEF ServeRefresh
  <2>2. CommandsDoNotOverlap' /\ calls' \subseteq Call
    BY <1>1, <1>10, <2>1, AnswerKeeps DEF ServeRefresh, window
  <2>3. session' \in {"unloaded", "absent"} \cup LoggedIn
    BY <1>0, <1>10, LoadsType DEF ServeRefresh
  <2>4. QED
    BY <1>0, <1>10, <2>2, <2>3 DEF ServeRefresh, IInv, TypeOK, window
<1>11. CASE ServeReset(c)
  <2>1. c.what \in Requests
    BY <1>11, Kinds DEF ServeReset
  <2>2. CommandsDoNotOverlap' /\ calls' \subseteq Call
    BY <1>1, <1>11, <2>1, AnswerKeeps DEF ServeReset, window
  <2>3. QED
    BY <1>0, <1>11, <2>2 DEF ServeReset, IInv, TypeOK, window
<1>12. QED
  BY <1>3, <1>4, <1>5, <1>6, <1>7, <1>8, <1>9, <1>10, <1>11, Zenon DEF Serve
-----------------------------------------------------------------------------
(* What the window shows                                                   *)

LEMMA DisplayOK == ASSUME IInv, NEW c \in calls, Display(c) PROVE IInv'
<1>0. TypeOK
  BY DEF IInv
<1>1. c \in Call
  BY <1>0 DEF TypeOK
<1>2. CASE ShowStatus(c)
  <2>1. c.mode \in Modes /\ c.answer \in {"on", "off"} /\ c.what \notin Commands
    BY <1>1, <1>2, CallFields, Kinds DEF ShowStatus, Answers
  <2>2. CommandsDoNotOverlap' /\ calls' \subseteq Call
    BY <1>2, <2>1, EndedKeeps DEF ShowStatus
  <2>3. QED
    BY <1>0, <1>2, <2>1, <2>2 DEF ShowStatus, Show, IInv, TypeOK, backend
<1>3. CASE ShowCommand(c)
  <2>1. c.mode \in Modes /\ c.answer \in {"on", "off", "error"} /\ c.what \in Commands
    BY <1>1, <1>3, CallFields DEF ShowCommand, Answers, Commands
  <2>2. InProgress(Commands) = {c}
    BY <2>1 DEF IInv, CommandsDoNotOverlap, InProgress
  <2>3. InProgress(Commands)' = {}
    BY <1>3, <2>2 DEF ShowCommand, InProgress
  <2>4. CommandsDoNotOverlap'
    BY <1>3, <2>3 DEF ShowCommand, CommandsDoNotOverlap
  <2>5. snapshot' \in [mode : Modes, is : {"on", "off"}] \cup {[mode |-> NoMode, is |-> "off"]}
    BY <1>0, <1>3, <2>1 DEF ShowCommand, Show, TypeOK
  <2>6. QED
    BY <1>0, <1>3, <2>4, <2>5 DEF ShowCommand, IInv, TypeOK, backend
<1>4. CASE ShowRequest(c)
  <2>1. c.what \notin Commands /\ c.answer \in Screens \cup {"error"}
    BY <1>1, <1>4, CallFields, Kinds DEF Answers, ShowRequest
  <2>2. Invoke("begin", NoMode) \in Call /\ Invoke("begin", NoMode).what \notin Commands
    BY InvokeType, Kinds DEF Invoke
  <2>3. CommandsDoNotOverlap' /\ calls' \subseteq Call
    <3>1. CASE calls' = (calls \ {c}) \cup {Invoke("begin", NoMode)}
      BY <1>4, <2>1, <2>2, <3>1, FollowedKeeps DEF ShowRequest
    <3>2. CASE calls' = calls \ {c}
      BY <1>4, <2>1, <3>2, EndedKeeps DEF ShowRequest
    <3>3. QED
      BY <1>4, <3>1, <3>2 DEF ShowRequest
  <2>4. auth' \in Screens \cup {"none"} /\ authBusy' \in BOOLEAN
    BY <1>0, <1>4, <2>1 DEF ShowRequest, TypeOK, Screens
  <2>5. QED
    BY <1>0, <1>4, <2>3, <2>4 DEF ShowRequest, IInv, TypeOK, backend
<1>5. CASE ShowPoll(c)
  <2>1. c.what \notin Commands /\ c.answer \in Screens \cup {"error"}
    BY <1>1, <1>5, CallFields, Kinds DEF Answers, ShowPoll
  <2>2. Invoke("recheck", NoMode) \in Call /\ Invoke("recheck", NoMode).what \notin Commands
    BY InvokeType, Kinds DEF Invoke
  <2>3. CommandsDoNotOverlap' /\ calls' \subseteq Call
    <3>1. CASE calls' = (calls \ {c}) \cup {Invoke("recheck", NoMode)}
      BY <1>5, <2>1, <2>2, <3>1, FollowedKeeps DEF ShowPoll
    <3>2. CASE calls' = calls \ {c}
      BY <1>5, <2>1, <3>2, EndedKeeps DEF ShowPoll
    <3>3. QED
      BY <1>5, <3>1, <3>2 DEF ShowPoll
  <2>4. QED
    BY <1>0, <1>5, <2>1, <2>3 DEF ShowPoll, IInv, TypeOK, backend
<1>6. QED
  BY <1>2, <1>3, <1>4, <1>5 DEF Display
-----------------------------------------------------------------------------
LEMMA Inductive == IInv /\ [Next]_vars => IInv'
<1> SUFFICES ASSUME IInv, [Next]_vars PROVE IInv'
  OBVIOUS
<1>1. CASE UNCHANGED vars
  BY <1>1 DEF vars, window, backend, IInv, TypeOK, CommandsDoNotOverlap, InProgress
<1>2. ASSUME NEW m \in Modes, TunnelDies(m) PROVE IInv'
  BY <1>2 DEF TunnelDies, window, IInv, TypeOK, CommandsDoNotOverlap, InProgress
<1>3. QED
  BY <1>1, <1>2, PressOK, ServeOK, DisplayOK DEF Next

\* The window's state keeps its types, and its commands do not overlap.
THEOREM WindowTypeOK == Spec => []TypeOK
<1>1. IInv => TypeOK
  BY DEF IInv
<1>2. QED
  BY <1>1, InitOK, Inductive, PTL DEF Spec

\* One connect, stop or cleanup at a time, for any number of invocations in progress: what
\* module Controller calls Gated.
THEOREM CommandsNeverOverlap == Spec => []CommandsDoNotOverlap
<1>1. IInv => CommandsDoNotOverlap
  BY DEF IInv
<1>2. QED
  BY <1>1, InitOK, Inductive, PTL DEF Spec
-----------------------------------------------------------------------------
(* What polling alone makes of the snapshot: the safety that SnapshotSettles rests on. *)

Outdated(c) == c.what = "status" /\ (c.mode # mode \/ c.answer \notin {Asked, Truth.is})

\* The modes of which an answer is to come, or is there, that does not say what is shown last.
Behind == {m \in Modes : \E c \in calls : c.mode = m /\ Outdated(c)}

\* Polling makes no answer outdated; one that is shown is either not outdated, and then right,
\* or one less; and the truth, once shown with none outdated, stays on the screen.
Settling == /\ Behind' \subseteq Behind
            /\ \A c \in calls : ShowStatus(c) => snapshot' = Truth' \/ Behind' # Behind
            /\ Behind = {} /\ snapshot = Truth => snapshot' = Truth'

\* The bound that Status states.
OneStatus == \A c, d \in calls : c.what = "status" /\ d.what = "status" /\ c.mode = d.mode => c = d

\* A poll is made only of a mode that none is in progress of, and its answer takes its place.
LEMMA OneStatusAdd ==
  ASSUME OneStatus, NEW c, c.what = "status" => {e \in InProgress({"status"}) : e.mode = c.mode} = {},
         calls' = calls \cup {c}
  PROVE  OneStatus'
BY DEF OneStatus, InProgress

LEMMA OneStatusEnd == ASSUME OneStatus, calls' \subseteq calls PROVE OneStatus'
BY DEF OneStatus

LEMMA OneStatusFollow ==
  ASSUME OneStatus, NEW c \in calls, NEW d, d.what # "status", calls' = (calls \ {c}) \cup {d}
  PROVE  OneStatus'
BY DEF OneStatus

LEMMA OneStatusAnswer ==
  ASSUME OneStatus, TypeOK, NEW c \in calls, NEW a, Answer(c, a)
  PROVE  OneStatus'
<1> DEFINE d == [c EXCEPT !.answer = a]
<1>1. d.what = c.what /\ d.mode = c.mode
  BY DEF TypeOK, Call
<1>2. calls' = (calls \ {c}) \cup {d}
  BY DEF Answer
<1>3. ASSUME NEW x \in calls', NEW y \in calls', x.what = "status", y.what = "status", x.mode = y.mode
      PROVE  x = y
  <2>1. \A e \in calls : e.what = "status" /\ c.what = "status" /\ e.mode = c.mode => e = c
    BY DEF OneStatus
  <2>2. x \in calls \ {c} \/ x = d
    BY <1>2, Zenon
  <2>3. y \in calls \ {c} \/ y = d
    BY <1>2, Zenon
  <2>4. QED
    BY <1>1, <1>3, <2>1, <2>2, <2>3 DEF OneStatus
<1>4. QED
  BY <1>3 DEF OneStatus

LEMMA OneStatusServe ==
  ASSUME OneStatus, TypeOK, NEW c \in calls, Serve(c) \/ StatusTimesOut(c)
  PROVE  OneStatus'
<1>1. \E a : Answer(c, a)
  <2>1. CASE ServeStatus(c) \/ StatusTimesOut(c)
    BY <2>1, Zenon DEF ServeStatus, StatusTimesOut
  <2>2. CASE ServeConnect(c) \/ ServeEnd(c) \/ ServeAuthStatus(c) \/ ServeConfigure(c)
    BY <2>2, Zenon DEF ServeConnect, ServeEnd, ServeAuthStatus, ServeConfigure
  <2>3. CASE ServeBegin(c) \/ ServeRefresh(c) \/ ServeReset(c)
    BY <2>3, Zenon DEF ServeBegin, ServeRefresh, ServeReset
  <2>4. CASE ServePoll(c)
    BY <2>4, Zenon DEF ServePoll
  <2>5. QED
    BY <2>1, <2>2, <2>3, <2>4, Zenon DEF Serve
<1>2. QED
  BY <1>1, OneStatusAnswer

LEMMA OneStatusDisplay ==
  ASSUME OneStatus, NEW c \in calls, Display(c)
  PROVE  OneStatus'
<1>1. CASE calls' \subseteq calls
  BY <1>1, OneStatusEnd
<1>2. \/ calls' \subseteq calls
      \/ \E what \in {"begin", "recheck"} : calls' = (calls \ {c}) \cup {Invoke(what, NoMode)}
  BY DEF Display, ShowStatus, ShowCommand, ShowRequest, ShowPoll
<1>3. QED
  BY <1>1, <1>2, OneStatusFollow DEF Invoke

LEMMA OneStatusPress ==
  ASSUME OneStatus, Press \/ Refresh \/ PollQr
  PROVE  OneStatus'
<1>1. ASSUME NEW m, Status(m) PROVE OneStatus'
  BY <1>1, OneStatusAdd DEF Status, Invoke
<1>2. ASSUME NEW what, NEW m, what # "status", calls' = calls \cup {Invoke(what, m)} PROVE OneStatus'
  BY <1>2, OneStatusAdd DEF Invoke
<1>3. CASE Refresh \/ \E m \in Modes : ChangeMode(m)
  BY <1>1, <1>3 DEF Refresh, ChangeMode
<1>4. CASE Connect \/ End \/ PollQr
  BY <1>2, <1>4 DEF Connect, End, PollQr
<1>5. CASE ConfigureAuth \/ BeginQr \/ RefreshNodes \/ ResetAuth
  BY <1>2, <1>5 DEF ConfigureAuth, BeginQr, RefreshNodes, ResetAuth, Request
<1>6. QED
  BY <1>3, <1>4, <1>5 DEF Press

LEMMA OneStatusInductive == Spec => []OneStatus
<1>1. Init => OneStatus
  BY DEF Init, OneStatus, Invoke
<1>2. TypeOK /\ OneStatus /\ [Next]_vars => OneStatus'
  <2> SUFFICES ASSUME TypeOK, OneStatus, [Next]_vars PROVE OneStatus'
    OBVIOUS
  <2>1. CASE UNCHANGED vars
    BY <2>1, OneStatusEnd DEF vars
  <2>2. ASSUME NEW m \in Modes, TunnelDies(m) PROVE OneStatus'
    BY <2>2, OneStatusEnd DEF TunnelDies
  <2>3. QED
    BY <2>1, <2>2, OneStatusPress, OneStatusServe, OneStatusDisplay DEF Next
<1>3. QED
  BY <1>1, <1>2, WindowTypeOK, PTL DEF Spec

\* Nothing that polling does changes what is true.
LEMMA QuietSettles == ASSUME IInv, OneStatus, Quiet PROVE Settling
<1> USE DEF Outdated, Behind
<1>0. TypeOK /\ Truth.is \in {"on", "off"} /\ "on" # Asked /\ "off" # Asked
  BY DEF IInv, Truth, Asked
<1>1. UNCHANGED Truth /\ UNCHANGED mode
  BY DEF Quiet, Refresh, ServeStatus, ShowStatus, Truth, window, backend
<1>2. CASE Refresh
  <2>1. calls' = calls \cup {Invoke("status", mode)} /\ UNCHANGED snapshot
    BY <1>2 DEF Refresh, Status, window
  <2>2. Behind' \subseteq Behind
    BY <1>1, <2>1 DEF Invoke
  <2>3. ~\E c \in calls : ShowStatus(c)
    <3>1. Invoke("status", mode) \notin calls
      BY <1>2 DEF Refresh, Status, InProgress, Invoke
    <3>2. QED
      BY <2>1, <3>1 DEF ShowStatus
  <2>4. QED
    BY <1>1, <2>1, <2>2, <2>3 DEF Settling
<1>3. ASSUME NEW c \in calls, ServeStatus(c) PROVE Settling
  <2> DEFINE a == IF c.mode \in tunnels THEN "on" ELSE "off"
             d == [c EXCEPT !.answer = a]
  <2>1. /\ c \in Call /\ c.what = "status" /\ c.answer = Asked
        /\ calls' = (calls \ {c}) \cup {d} /\ UNCHANGED snapshot
    BY <1>0, <1>3 DEF ServeStatus, Answer, TypeOK, window
  <2>2. d.what = "status" /\ d.mode = c.mode /\ d.answer = a /\ d # c
    BY <1>0, <2>1 DEF Call
  <2>3. c.mode = mode => a = Truth.is
    BY DEF Truth
  <2>4. Behind' \subseteq Behind
    BY <1>1, <2>1, <2>2, <2>3
  <2>5. ~\E e \in calls : ShowStatus(e)
    <3>1. d \notin calls
      BY <2>1, <2>2 DEF OneStatus
    <3>2. QED
      BY <2>1, <3>1 DEF ShowStatus
  <2>6. QED
    BY <1>1, <2>1, <2>4, <2>5 DEF Settling
<1>4. ASSUME NEW c \in calls, ShowStatus(c) PROVE Settling
  <2>1. /\ c \in Call /\ c.what = "status" /\ c.answer # Asked
        /\ calls' = calls \ {c} /\ snapshot' = [mode |-> c.mode, is |-> c.answer]
    BY <1>0, <1>4 DEF ShowStatus, Show, TypeOK
  <2>2. Behind' \subseteq Behind
    BY <1>1, <2>1
  <2>3. CASE Outdated(c)
    <3>1. c.mode \in Behind
      BY <2>1, <2>3, CallFields
    <3>2. c.mode \notin Behind'
      BY <1>1, <2>1 DEF OneStatus
    <3>3. QED
      BY <2>2, <3>1, <3>2 DEF Settling
  <2>4. CASE ~Outdated(c)
    <3>1. snapshot' = Truth
      BY <2>1, <2>4 DEF Truth
    <3>2. QED
      BY <1>1, <2>2, <3>1 DEF Settling
  <2>5. QED
    BY <2>3, <2>4
<1>5. QED
  BY <1>2, <1>3, <1>4 DEF Quiet

\* While only polls go on, answers that are outdated become fewer with every one that is shown,
\* and the truth stays on the screen once none is left: what remains of SnapshotSettles is that
\* the timer and the answers have their turn.
THEOREM PollingSettles == Spec => [][Quiet => Settling]_vars
<1>1. IInv /\ OneStatus => [Quiet => Settling]_vars
  BY QuietSettles
<1>2. Spec => []IInv
  BY InitOK, Inductive, PTL DEF Spec
<1>3. QED
  BY <1>1, <1>2, OneStatusInductive, PTL
=============================================================================
