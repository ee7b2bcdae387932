---------------------------- MODULE TunnelHelper ----------------------------
(***************************************************************************)
(* What a tunnel helper promises the desktop that drives it, with nothing  *)
(* said of how: docs/helper-protocol.md lists the commands, and the code   *)
(* that keeps the promise is the Supervisor of apps/helper (module         *)
(* Supervisor, which implements this specification).                       *)
(*                                                                         *)
(* The helper owns at most one tunnel.  Every answer is true of that       *)
(* tunnel at the moment it is given, a start never replaces a tunnel that  *)
(* is already up, and a start that fails leaves no new tunnel behind.      *)
(***************************************************************************)
CONSTANTS Specs,   \* the tunnel specifications a client may ask for
          NoSpec   \* "no tunnel"

VARIABLES tunnel,  \* the tunnel the helper owns, or NoSpec
          told     \* the last answer: its kind, the specification it is about,
                   \* and the tunnel it reports

hvars == <<tunnel, told>>

Tell(kind, asked) == told'.kind = kind /\ told'.asked = asked

Init == tunnel = NoSpec /\ told.kind = "none"

\* The asked tunnel is up, whether this request or an earlier one raised it.
Started(s) == /\ tunnel \in {NoSpec, s}
              /\ tunnel' = s
              /\ Tell("started", s) /\ told'.tunnel = s

\* Refused or failed: whatever was up stays up, and nothing new is.
StartFailed(s) == Tell("error", s) /\ UNCHANGED tunnel

\* After a stop or a cleanup that succeeds nothing is up.
Ended(kind) == tunnel' = NoSpec /\ Tell(kind, NoSpec) /\ told'.tunnel = NoSpec

\* After one that fails the tunnel may or may not have survived.
EndFailed == tunnel' \in {tunnel, NoSpec} /\ Tell("error", NoSpec)

Reported == Tell("status", NoSpec) /\ told'.tunnel = tunnel /\ UNCHANGED tunnel

\* A greeting, the traffic counters, or a request that could not be served.
Aside(kind) == Tell(kind, NoSpec) /\ UNCHANGED tunnel

\* The connection ends; no answer is outstanding any more.
Closed == told'.kind = "none" /\ UNCHANGED tunnel

\* The helper process goes, and its tunnel with it.
Gone == told'.kind = "none" /\ tunnel' = NoSpec

Next == \/ \E s \in Specs : Started(s) \/ StartFailed(s)
        \/ \E kind \in {"stopped", "cleaned"} : Ended(kind)
        \/ \E kind \in {"hello", "stats", "error"} : Aside(kind)
        \/ Reported
        \/ EndFailed
        \/ Closed
        \/ Gone

Spec == Init /\ [][Next]_hvars
=============================================================================
