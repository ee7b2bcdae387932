------------------------------ MODULE CliProofs ------------------------------
(***************************************************************************)
(* Proofs about the command-line client, for any number of login methods   *)
(* and of runs.                                                            *)
(*                                                                         *)
(* The login half and the DNS half of the state do not meet, so each has   *)
(* an inductive invariant of its own on top of TypeOK.  A rank of pc says  *)
(* how long a run can go on.                                               *)
(***************************************************************************)
EXTENDS Cli, TLAPS

USE CliAssumption

LoggingIn == {"login", "method"}

\* How many logins a run can have behind it, from the one retry it has.
LoginsInv ==
  /\ pc \in LoggingIn => logins <= (IF retry = "unused" THEN 0 ELSE 1)
  /\ pc \in {"otp", "connect", "peer"} => logins <= (IF retry = "unused" THEN 1 ELSE 2)

\* After a refusal the run passes a login before it asks for the VPN again.
RefusalInv ==
  /\ retry = "refused" /\ pc \in {"otp", "connect", "peer"} => logins > 0
  /\ end = "refused" => retry # "unused" /\ pc = "off"
  /\ ExpiredSessionIsRenewed

\* Where the user's resolv.conf is in every phase.
DnsInv ==
  /\ DnsIsKept
  /\ ~unbacked => backup # "ours"
  /\ pc = "override" /\ ~unbacked => backup = "user"
  /\ pc \in {"backup", "override", "restore"} => dns
  /\ pc = "off" /\ dns /\ end \in {"stopped", "timeout"} => backup = "none"
  /\ DnsIsRestored

\* TypeOK in two parts, one for each prover.
FlagsOK == v1 \in BOOLEAN /\ dns \in BOOLEAN /\ accepted \in BOOLEAN /\ lease \in BOOLEAN
           /\ unbacked \in BOOLEAN

OthersOK == /\ pc \in {"off", "login", "method", "otp", "connect", "peer", "open", "configure",
                       "backup", "override", "up", "disconnect", "logout", "stop", "restore"}
            /\ left \in 0..MaxMethods
            /\ retry \in {"unused", "refused", "text"}
            /\ state \in State /\ saved \in State
            /\ logins \in 0..2
            /\ end \in {"none", "failed", "refused", "killed", "stopped", "timeout", "unrestored"}
            /\ device \in {"none", "open", "up"}
            /\ handshake \in {"never", "fresh", "stale"}
            /\ resolv \in {"user", "ours", "none"} /\ backup \in {"user", "ours", "none"}

LEMMA TypeParts == TypeOK <=> FlagsOK /\ OthersOK
BY DEF TypeOK, FlagsOK, OthersOK

IInv == TypeOK /\ LoginsInv /\ RefusalInv /\ DnsInv

LEMMA InitInv == Init => IInv
<1> SUFFICES ASSUME Init PROVE IInv
  OBVIOUS
<1> USE DEF Init
<1>1. TypeOK
  <2>1. FlagsOK
    BY Zenon DEF FlagsOK
  <2>2. QED
    BY <2>1, TypeParts DEF OthersOK, State
<1>2. LoginsInv /\ RefusalInv
  BY DEF LoginsInv, LoggingIn, RefusalInv, ExpiredSessionIsRenewed
<1>3. DnsInv
  <2>1. DnsIsKept
    BY Zenon DEF DnsIsKept
  <2>2. QED
    BY <2>1 DEF DnsInv, DnsIsRestored
<1>4. QED
  BY <1>1, <1>2, <1>3 DEF IInv

(* The flags.                                                              *)

LEMMA FlagSteps ==
  ASSUME FlagsOK, [Next]_vars
  PROVE  FlagsOK'
<1> USE DEF FlagsOK, client, server, files, tunnel
<1>1. ASSUME NEW d \in BOOLEAN, Start(d) PROVE FlagsOK'
  BY Zenon, <1>1 DEF Start
<1>2. CASE LoginBegin \/ MethodAccepted \/ MethodFails \/ NoMethodLeft \/ LoginV1 \/ OtpV1
  BY Zenon, <1>2 DEF LoginBegin, MethodAccepted, MethodFails, NoMethodLeft, LoginV1, OtpV1
<1>3. CASE Connect \/ Peer \/ Open \/ Configure
  BY Zenon, <1>3 DEF Connect, Peer, Open, Configure
<1>4. CASE Backup \/ Override \/ Rewrite
  BY Zenon, <1>4 DEF Backup, Override, Rewrite
<1>5. CASE Signal \/ Tick \/ Handshake \/ Age
  BY Zenon, <1>5 DEF Signal, Tick, Handshake, Age
<1>6. CASE Disconnect \/ Logout \/ Stop \/ Restore
  BY Zenon, <1>6 DEF Disconnect, Logout, Stop, Restore
<1>7. CASE Kill \/ Expire \/ DropLease
  BY Zenon, <1>7 DEF Kill, Expire, DropLease
<1>8. CASE UNCHANGED vars
  BY Zenon, <1>8 DEF vars
<1>9. QED
  BY Zenon, <1>1, <1>2, <1>3, <1>4, <1>5, <1>6, <1>7, <1>8 DEF Next, ShutDown

(* The login half.                                                         *)

LEMMA LoginSteps ==
  ASSUME OthersOK, LoginsInv, RefusalInv, [Next]_vars
  PROVE  OthersOK' /\ LoginsInv' /\ RefusalInv'
<1> USE DEF OthersOK, State, LoginsInv, LoggingIn, RefusalInv, ExpiredSessionIsRenewed,
            client, server, files, tunnel
<1>1. ASSUME NEW d \in BOOLEAN, Start(d) PROVE OthersOK' /\ LoginsInv' /\ RefusalInv'
  BY <1>1 DEF Start
<1>2. CASE LoginBegin
  BY <1>2 DEF LoginBegin, At, Exit, Save
<1>3. CASE MethodAccepted
  BY <1>3 DEF MethodAccepted, Complete, At, Exit
<1>4. CASE MethodFails
  BY <1>4 DEF MethodFails, Save
<1>5. CASE NoMethodLeft
  BY <1>5 DEF NoMethodLeft, Exit
<1>6. CASE LoginV1
  BY <1>6 DEF LoginV1, Complete, At, Exit, Save
<1>7. CASE OtpV1
  BY <1>7 DEF OtpV1, At, Exit, Save
<1>8. CASE Connect
  BY <1>8 DEF Connect, Refused, Fails, Loop, At, Exit, Save
<1>9. CASE Peer
  BY <1>9 DEF Peer, Refused, Fails, Loop, At, Exit, Save
<1>10. CASE Open \/ Configure
  BY <1>10 DEF Open, Configure, Exit
<1>11. CASE Backup \/ Override \/ Rewrite
  BY <1>11 DEF Backup, Override, Rewrite, At
<1>12. CASE Signal \/ Tick \/ Handshake \/ Age
  BY <1>12 DEF Signal, Tick, Handshake, Age
<1>13. CASE ShutDown
  BY <1>13 DEF ShutDown, Disconnect, Logout, Stop, Restore, At, Save
<1>14. CASE Kill \/ Expire \/ DropLease
  BY <1>14 DEF Kill, Exit, Expire, DropLease
<1>15. CASE UNCHANGED vars
  BY <1>15 DEF vars
<1>16. QED
  BY <1>1, <1>2, <1>3, <1>4, <1>5, <1>6, <1>7, <1>8, <1>9, <1>10, <1>11, <1>12, <1>13, <1>14,
     <1>15 DEF Next

(* The DNS half.                                                           *)

\* Steps that leave the files alone, and end a run only by a failure.
LEMMA FilesUntouched ==
  ASSUME TypeOK, DnsInv, UNCHANGED files,
         pc' # "off" \/ UNCHANGED pc \/ ~dns'
           \/ end' \in {"none", "failed", "refused", "killed"},
         pc' = "off" /\ pc = "off" => UNCHANGED <<end, dns>>,
         pc' = "override" => pc = "override",
         pc' \in {"backup", "override", "restore"} => dns'
  PROVE  DnsInv'
BY DEF TypeOK, DnsInv, DnsIsKept, DnsIsRestored, files

LEMMA DnsSteps ==
  ASSUME TypeOK, DnsInv, [Next]_vars
  PROVE  DnsInv'
<1> USE DEF client, server, files, tunnel
<1>1. ASSUME NEW d \in BOOLEAN, Start(d) PROVE DnsInv'
  BY <1>1, FilesUntouched DEF Start
<1>2. CASE LoginBegin \/ MethodAccepted \/ MethodFails \/ NoMethodLeft \/ LoginV1 \/ OtpV1
  BY <1>2, FilesUntouched
     DEF LoginBegin, MethodAccepted, MethodFails, NoMethodLeft, LoginV1, OtpV1, Complete, At, Exit
<1>3. CASE Connect \/ Peer
  BY <1>3, FilesUntouched DEF Connect, Peer, Refused, Fails, Loop, At, Exit
<1>4. CASE Open \/ Configure
  BY <1>4, FilesUntouched DEF Open, Configure, Exit
<1>5. CASE Signal \/ Tick \/ Handshake \/ Age
  BY <1>5, FilesUntouched DEF Signal, Tick, Handshake, Age, DnsInv
<1>6. CASE Disconnect \/ Logout \/ Stop
  <2>1. CASE Disconnect \/ Logout
    BY <2>1, FilesUntouched DEF Disconnect, Logout, At
  <2>2. CASE Stop
    <3>1. dns' = dns /\ pc = "stop" /\ (pc' = "off" => ~dns) /\ pc' \in {"off", "restore"}
          /\ (pc' = "restore" => dns) /\ UNCHANGED files
      BY Zenon, <2>2 DEF Stop
    <3>2. QED
      BY <3>1, FilesUntouched
  <2>3. QED
    BY <1>6, <2>1, <2>2
<1>7. CASE Kill \/ Expire \/ DropLease
  BY <1>7, FilesUntouched DEF Kill, Exit, Expire, DropLease, DnsInv
<1>8. CASE Backup
  BY <1>8 DEF Backup, At, TypeOK, DnsInv, DnsIsKept, DnsIsRestored
<1>9. CASE Override
  BY <1>9 DEF Override, At, TypeOK, DnsInv, DnsIsKept, DnsIsRestored
<1>10. CASE Restore
  BY <1>10 DEF Restore, TypeOK, DnsInv, DnsIsKept, DnsIsRestored
<1>11. CASE Rewrite
  <2>1. resolv' = "user" /\ UNCHANGED <<pc, dns, end, backup>>
    BY <1>11 DEF Rewrite
  <2>2. ~unbacked' => ~unbacked \/ (pc # "override" /\ backup # "ours")
    BY Zenon, <1>11 DEF Rewrite
  <2>3. ~unbacked' => backup # "ours" /\ (pc = "override" => backup = "user")
    BY <2>2 DEF DnsInv
  <2>4. QED
    BY <2>1, <2>3 DEF DnsInv, DnsIsKept, DnsIsRestored
<1>12. CASE UNCHANGED vars
  BY <1>12, FilesUntouched DEF vars, DnsInv
<1>13. QED
  BY <1>1, <1>2, <1>3, <1>4, <1>5, <1>6, <1>7, <1>8, <1>9, <1>10, <1>11, <1>12
     DEF Next, ShutDown

(* The theorems.                                                           *)

LEMMA Inductive == Spec => []IInv
<1>1. IInv /\ [Next]_vars => IInv'
  BY FlagSteps, LoginSteps, DnsSteps DEF IInv, TypeOK, FlagsOK, OthersOK
<1>2. QED
  BY InitInv, <1>1, PTL DEF Spec

\* The client's state keeps its types: in particular no run logs in more than twice.
THEOREM CliTypeOK == Spec => []TypeOK
<1>1. IInv => TypeOK
  BY DEF IInv
<1>2. QED
  BY Inductive, <1>1, PTL

\* Whatever is killed or fails, the user's resolv.conf is in its place or in the backup of
\* DNSManager, unless it could not be backed up.
THEOREM DnsIsAlwaysKept == Spec => []DnsIsKept
<1>1. IInv => DnsIsKept
  BY DEF IInv, DnsInv
<1>2. QED
  BY Inductive, <1>1, PTL

\* A run that ended on a signal or on a lost peer has put the user's resolv.conf back.
THEOREM DnsIsAlwaysRestored == Spec => []DnsIsRestored
<1>1. IInv => DnsIsRestored
  BY DEF IInv, DnsInv
<1>2. QED
  BY Inductive, <1>1, PTL

\* A run gives up on a refused session only after a login of its own.
THEOREM ExpiredSessionsAreRenewed == Spec => []ExpiredSessionIsRenewed
<1>1. IInv => ExpiredSessionIsRenewed
  BY DEF IInv, RefusalInv
<1>2. QED
  BY Inductive, <1>1, PTL

(* How long a run can be.                                                  *)

\* What a run has before it on its way through the login, the connection and the shutdown.
Rank == CASE pc = "login"      -> MaxMethods + 15
          [] pc = "method"     -> left + 14
          [] pc = "otp"        -> 13
          [] pc = "connect"    -> 12
          [] pc = "peer"       -> 11
          [] pc = "open"       -> 10
          [] pc = "configure"  -> 9
          [] pc = "backup"     -> 8
          [] pc = "override"   -> 7
          [] pc = "up"         -> 6
          [] pc = "disconnect" -> 5
          [] pc = "logout"     -> 4
          [] pc = "stop"       -> 3
          [] pc = "restore"    -> 2
          [] pc = "off"        -> 0

\* The retry that logout_retry allows is one more way through.
Remaining == Rank + (IF retry = "unused" THEN MaxMethods + 16 ELSE 0)

Advances == pc # "off" /\ <<pc, left>>' # <<pc, left>> => Remaining' < Remaining

LEMMA StepAdvances == ASSUME OthersOK, OthersOK', [Next]_vars PROVE Advances
<1> USE DEF Advances, OthersOK, Remaining, Rank, client, server, files, tunnel
<1>1. ASSUME NEW d \in BOOLEAN, Start(d) PROVE Advances
  BY <1>1 DEF Start
<1>2. CASE LoginBegin
  BY <1>2 DEF LoginBegin, At, Exit
<1>3. CASE MethodAccepted
  BY <1>3 DEF MethodAccepted, Complete, At, Exit
<1>4. CASE MethodFails
  BY <1>4 DEF MethodFails
<1>5. CASE NoMethodLeft
  BY <1>5 DEF NoMethodLeft, Exit
<1>6. CASE LoginV1
  BY <1>6 DEF LoginV1, Complete, At, Exit
<1>7. CASE OtpV1
  BY <1>7 DEF OtpV1, At, Exit
<1>8. CASE Connect
  BY <1>8 DEF Connect, Refused, Fails, Loop, At, Exit
<1>9. CASE Peer
  BY <1>9 DEF Peer, Refused, Fails, Loop, At, Exit
<1>10. CASE Open \/ Configure
  BY <1>10 DEF Open, Configure, Exit
<1>11. CASE Backup \/ Override \/ Rewrite
  BY <1>11 DEF Backup, Override, Rewrite, At
<1>12. CASE Signal \/ Tick \/ Handshake \/ Age
  BY <1>12 DEF Signal, Tick, Handshake, Age
<1>13. CASE ShutDown
  <2>1. CASE Disconnect
    BY <2>1 DEF Disconnect, At
  <2>2. CASE Logout
    BY <2>2 DEF Logout, At
  <2>3. CASE Stop
    <3>1. pc = "stop" /\ pc' \in {"off", "restore"} /\ UNCHANGED <<left, retry>>
      BY Zenon, <2>3 DEF Stop
    <3>2. QED
      BY <3>1
  <2>4. CASE Restore
    BY <2>4 DEF Restore
  <2>5. QED
    BY Zenon, <1>13, <2>1, <2>2, <2>3, <2>4 DEF ShutDown
<1>14. CASE Kill \/ Expire \/ DropLease
  BY <1>14 DEF Kill, Exit, Expire, DropLease
<1>15. CASE UNCHANGED vars
  BY <1>15 DEF vars
<1>16. QED
  BY <1>1, <1>2, <1>3, <1>4, <1>5, <1>6, <1>7, <1>8, <1>9, <1>10, <1>11, <1>12, <1>13, <1>14,
     <1>15 DEF Next

\* run() cannot go round for ever, whatever the server answers: every step it takes uses up
\* some of a number that no step raises before it has ended, and that starts at 2 *
\* MaxMethods + 31 at the most.  Any error whose text has "logout" in it spends the same
\* one retry as a refused session.
THEOREM RunsAdvance == Spec => [][Advances]_vars /\ [](Remaining \in 0..2 * MaxMethods + 31)
<1>1. IInv => Remaining \in 0..2 * MaxMethods + 31
  BY DEF IInv, TypeOK, Rank, Remaining
<1>2. IInv /\ IInv' /\ [Next]_vars => [Advances]_vars
  BY StepAdvances DEF IInv, TypeOK, OthersOK
<1>3. QED
  BY Inductive, <1>1, <1>2, PTL DEF Spec
=============================================================================
