--------------------------------- MODULE Cli ---------------------------------
(***************************************************************************)
(* The command-line client on Linux: run() of main.rs with the login and   *)
(* connect calls of its Client, the tunnel device it opens and the         *)
(* DNSManager that puts its own /etc/resolv.conf in the place of the       *)
(* user's.  One run after another; each may be killed at any point, and    *)
(* the server may answer, refuse, fail or forget the client at any time.   *)
(***************************************************************************)
EXTENDS Naturals

CONSTANT MaxMethods   \* login methods the server offers at most

ASSUME CliAssumption == MaxMethods \in Nat

VARIABLES pc,         \* where run() is
          v1,         \* the platform is feilian_v1
          dns,        \* use_vpn_dns, and not in netstack mode
          left,       \* login methods that are still to be tried
          retry,      \* logout_retry, or what it was spent on
          state,      \* Client.conf.state
          saved,      \* the state in the configuration file
          logins,     \* logins of this run
          end,        \* how this run ends, or the last one has ended
          device,     \* libwg's device; it goes with its process
          handshake,  \* the last one: none yet, less than five minutes old, or more
          accepted,   \* the server accepts the client's cookies
          lease,      \* the server has a VPN session for the client's key
          resolv,     \* /etc/resolv.conf: the user's, one of ours (maybe torn), or none
          backup,     \* DNSManager.backup_path
          unbacked    \* history: the user's resolv.conf was overwritten without a backup

client   == <<left, retry, state, saved, logins>>
server   == <<accepted, lease>>
files    == <<resolv, backup, unbacked>>
tunnel   == <<device, handshake>>
vars     == <<pc, v1, dns, end, client, server, files, tunnel>>

State == {"Init", "Login"}

TypeOK == /\ pc \in {"off", "login", "method", "otp", "connect", "peer", "open", "configure",
                     "backup", "override", "up", "disconnect", "logout", "stop", "restore"}
          /\ v1 \in BOOLEAN /\ dns \in BOOLEAN
          /\ left \in 0..MaxMethods
          /\ retry \in {"unused", "refused", "text"}
          /\ state \in State /\ saved \in State
          /\ logins \in 0..2
          /\ end \in {"none", "failed", "refused", "killed", "stopped", "timeout", "unrestored"}
          /\ device \in {"none", "open", "up"}
          /\ handshake \in {"never", "fresh", "stale"}
          /\ accepted \in BOOLEAN /\ lease \in BOOLEAN
          /\ resolv \in {"user", "ours", "none"} /\ backup \in {"user", "ours", "none"}
          /\ unbacked \in BOOLEAN

Init == /\ pc = "off" /\ v1 \in BOOLEAN /\ dns = FALSE
        /\ left = 0 /\ retry = "unused" /\ state = "Init" /\ saved \in State /\ logins = 0
        /\ end = "none"
        /\ device = "none" /\ handshake = "never"
        /\ accepted \in BOOLEAN /\ lease \in BOOLEAN
        /\ resolv \in {"user", "none"} /\ backup = "none" /\ unbacked = (resolv = "none")
-----------------------------------------------------------------------------
\* The process ends, and libwg's device with it.
Exit(how) == pc' = "off" /\ end' = how /\ device' = "none"

At(place) == pc' = place /\ UNCHANGED <<end, device>>

\* The head of run's loop: need_login, then login or connect_vpn.
Loop(s) == At(IF s = "Init" THEN "login" ELSE "connect")

\* Config::save succeeds or fails.
Save(s) == saved' \in {saved, s}

Start(d) ==
  /\ pc = "off"
  /\ dns' = d
  /\ retry' = "unused" /\ state' = saved /\ logins' = 0 /\ handshake' = "never"
  /\ end' = "none" /\ pc' = (IF saved = "Init" THEN "login" ELSE "connect")
  /\ UNCHANGED <<v1, left, saved, device, server, files>>

\* SIGKILL, a crash, or a signal before wait_for_shutdown_signal handles it.
Kill == /\ pc # "off"
        /\ Exit("killed")
        /\ UNCHANGED <<v1, dns, client, server, files, handshake>>
-----------------------------------------------------------------------------
(* Logging in                                                              *)

\* The methods are listed; a request that fails may have reset the saved state.
LoginBegin ==
  /\ pc = "login" /\ ~v1
  /\ \/ left' \in 0..MaxMethods /\ At("method") /\ UNCHANGED saved
     \/ Exit("failed") /\ Save("Init") /\ UNCHANGED left
  /\ UNCHANGED <<v1, dns, retry, state, logins, server, files, handshake>>

\* complete_login and login_v1: the state is set, and saved or the run fails.
Complete(place) == /\ state' = "Login" /\ logins' = logins + 1
                   /\ \/ saved' = "Login" /\ At(place)
                      \/ UNCHANGED saved /\ Exit("failed")

\* The server accepts a password, an email code or a scanned QR code; or a method of another
\* platform, for which nothing is asked, is carried by cookies the server still accepts.
MethodAccepted ==
  /\ pc = "method" /\ left > 0
  /\ accepted' = TRUE
  /\ Complete("connect")
  /\ UNCHANGED <<v1, dns, left, retry, lease, files, handshake>>

\* The next method is tried, whatever came of this one.
MethodFails ==
  /\ pc = "method" /\ left > 0
  /\ left' = left - 1
  /\ accepted' \in {accepted, TRUE}
  /\ Save("Init")
  /\ UNCHANGED <<pc, v1, dns, end, retry, state, logins, lease, files, tunnel>>

NoMethodLeft ==
  /\ pc = "method" /\ left = 0
  /\ Exit("failed")
  /\ UNCHANGED <<v1, dns, client, server, files, handshake>>

LoginV1 ==
  /\ pc = "login" /\ v1
  /\ \/ accepted' = TRUE /\ Complete("otp")
     \/ Exit("failed") /\ Save("Init") /\ UNCHANGED <<state, logins, accepted>>
  /\ UNCHANGED <<v1, dns, left, retry, lease, files, handshake>>

\* What becomes of the TOTP secret is of no consequence, but for a status that logs out.
OtpV1 ==
  /\ pc = "otp"
  /\ \/ At("connect") /\ UNCHANGED <<state, saved>>
     \/ At("connect") /\ state' = "Init" /\ Save("Init")
     \/ Exit("failed") /\ UNCHANGED <<state, saved>>
  /\ UNCHANGED <<v1, dns, left, retry, logins, server, files, handshake>>
-----------------------------------------------------------------------------
(* Connecting                                                              *)

\* Mutant: the session stays on record, so that nobody logs in again.
StayLoggedIn ==
  IF retry = "unused" THEN retry' = "refused" /\ Loop(state) /\ UNCHANGED <<state, saved>>
  ELSE Exit("refused") /\ UNCHANGED <<retry, state, saved>>

\* Mutant: any number of sessions may be refused.
RetryForEver == /\ state' = "Init" /\ Save("Init")
                /\ Loop("Init") /\ UNCHANGED retry

\* handle_logout_err, and run: the first refusal is answered with a login, the next one ends.
Refused == /\ state' = "Init" /\ Save("Init")
           /\ IF retry = "unused" THEN retry' = "refused" /\ Loop("Init")
              ELSE Exit("refused") /\ UNCHANGED retry

\* Any other error ends the run, except that one whose text has "logout" in it is taken for
\* a refusal: then the loop goes on with the state as it is.
Fails == /\ \/ Exit("failed") /\ UNCHANGED retry
            \/ retry = "unused" /\ retry' = "text" /\ Loop(state)
         /\ UNCHANGED <<state, saved>>

\* list_vpn, the choice of a node among those that answer, and its cookies.
Connect ==
  /\ pc = "connect"
  /\ \/ accepted /\ At("peer") /\ UNCHANGED <<retry, state, saved>>
     \/ Refused
     \/ Fails
  /\ UNCHANGED <<v1, dns, left, logins, server, files, handshake>>

\* fetch_peer_info makes the session, whatever becomes of its answer.
Peer ==
  /\ pc = "peer"
  /\ \/ accepted /\ lease' = TRUE /\ At("open") /\ UNCHANGED <<retry, state, saved>>
     \/ Refused /\ UNCHANGED lease
     \/ Fails /\ lease' \in {lease, lease \/ accepted}
  /\ UNCHANGED <<v1, dns, left, logins, accepted, files, handshake>>

\* start_wg_go, start_wg_go_netstack.
Open ==
  /\ pc = "open"
  /\ \/ pc' = "configure" /\ device' = "open" /\ UNCHANGED end
     \/ Exit("failed")
  /\ UNCHANGED <<v1, dns, client, server, files, handshake>>

\* config_wg, config_wg_netstack.
Configure ==
  /\ pc = "configure"
  /\ \/ pc' = (IF dns THEN "backup" ELSE "up") /\ device' = "up" /\ UNCHANGED end
     \/ Exit("failed")
  /\ UNCHANGED <<v1, dns, client, server, files, handshake>>
-----------------------------------------------------------------------------
(* DNSManager::set_dns                                                     *)

\* Mutant: a backup that exists is replaced.
BackupAgain ==
  /\ pc = "backup"
  /\ At("override")
  /\ \/ resolv # "none" /\ backup' = resolv /\ resolv' = "none" /\ UNCHANGED unbacked
     \/ unbacked' = TRUE /\ UNCHANGED <<resolv, backup>>
  /\ UNCHANGED <<v1, dns, client, server, handshake>>

\* A backup that exists is kept; if resolv.conf cannot be renamed there is none.
Backup ==
  /\ pc = "backup"
  /\ At("override")
  /\ \/ backup # "none" /\ UNCHANGED files
     \/ /\ backup = "none" /\ resolv # "none"
        /\ backup' = resolv /\ resolv' = "none" /\ unbacked' = (unbacked /\ resolv # "user")
     \/ backup = "none" /\ unbacked' = TRUE /\ UNCHANGED <<resolv, backup>>
  /\ UNCHANGED <<v1, dns, client, server, handshake>>

\* An error is only logged.
Override ==
  /\ pc = "override"
  /\ At("up")
  /\ resolv' \in {resolv, "ours"}
  /\ UNCHANGED <<v1, dns, client, server, backup, unbacked, handshake>>
-----------------------------------------------------------------------------
(* While the tunnel is up                                                  *)

Signal == /\ pc = "up"
          /\ pc' = "disconnect" /\ end' = "stopped"
          /\ UNCHANGED <<v1, dns, client, server, files, tunnel>>

\* Mutant: the age of the handshake is compared the wrong way round.
TickReversed == /\ pc = "up" /\ handshake = "fresh"
                /\ pc' = "disconnect" /\ end' = "timeout"
                /\ UNCHANGED <<v1, dns, client, server, files, tunnel>>

\* check_wg_connection, every five minutes: a handshake there never was is not too old.
Tick == /\ pc = "up" /\ handshake = "stale"
        /\ pc' = "disconnect" /\ end' = "timeout"
        /\ UNCHANGED <<v1, dns, client, server, files, tunnel>>

\* The peers renew their handshake while the server has the session; or time passes.
Handshake == /\ device = "up" /\ lease
             /\ handshake' = "fresh"
             /\ UNCHANGED <<pc, v1, dns, end, client, server, files, device>>

Age == /\ pc # "off" /\ handshake = "fresh"
       /\ handshake' = "stale"
       /\ UNCHANGED <<pc, v1, dns, end, client, server, files, device>>
-----------------------------------------------------------------------------
(* Shutting down                                                           *)

\* disconnect_vpn: an answer may be an error, lost, or a status that logs out.
Disconnect ==
  /\ pc = "disconnect"
  /\ At(IF v1 THEN "logout" ELSE "stop")
  /\ lease' \in {lease, FALSE}
  /\ \/ UNCHANGED <<state, saved>>
     \/ state' = "Init" /\ Save("Init")
  /\ UNCHANGED <<v1, dns, left, retry, logins, accepted, files, handshake>>

\* Client::logout leaves the state as it is.
Logout ==
  /\ pc = "logout"
  /\ At("stop")
  /\ accepted' \in {accepted, FALSE}
  /\ UNCHANGED <<v1, dns, client, lease, files, handshake>>

\* Mutant: only a user's stop restores the DNS.
StopAndLeave ==
  /\ pc = "stop"
  /\ device' = "none" /\ pc' = (IF dns /\ end = "stopped" THEN "restore" ELSE "off")
  /\ UNCHANGED <<v1, dns, end, client, server, files, handshake>>

Stop ==
  /\ pc = "stop"
  /\ device' = "none" /\ pc' = (IF dns THEN "restore" ELSE "off")
  /\ UNCHANGED <<v1, dns, end, client, server, files, handshake>>

\* restore_dns: nothing to do without a backup, and a rename that fails is only logged.
Restore ==
  /\ pc = "restore"
  /\ pc' = "off"
  /\ \/ backup = "none" /\ UNCHANGED <<files, end>>
     \/ /\ backup # "none"
        /\ resolv' = backup /\ backup' = "none" /\ UNCHANGED <<unbacked, end>>
     \/ backup # "none" /\ end' = "unrestored" /\ UNCHANGED files
  /\ UNCHANGED <<v1, dns, client, server, tunnel>>
-----------------------------------------------------------------------------
(* The server and the system                                               *)

Expire == /\ accepted /\ accepted' = FALSE
          /\ UNCHANGED <<pc, v1, dns, end, client, lease, files, tunnel>>

DropLease == /\ lease /\ lease' = FALSE
             /\ UNCHANGED <<pc, v1, dns, end, client, accepted, files, tunnel>>

\* The user, or the system's own resolver, writes resolv.conf; between a backup that failed
\* and the write after it that is as good as lost.
Rewrite == /\ resolv # "user" /\ resolv' = "user"
           /\ unbacked' = (unbacked /\ (backup = "ours" \/ pc = "override"))
           /\ UNCHANGED <<pc, v1, dns, end, client, server, backup, tunnel>>
-----------------------------------------------------------------------------
ShutDown == Disconnect \/ Logout \/ Stop \/ Restore

Next == \/ \E d \in BOOLEAN : Start(d)
        \/ LoginBegin \/ MethodAccepted \/ MethodFails \/ NoMethodLeft \/ LoginV1 \/ OtpV1
        \/ Connect \/ Peer \/ Open \/ Configure \/ Backup \/ Override
        \/ Signal \/ Tick \/ Handshake \/ Age
        \/ ShutDown
        \/ Kill \/ Expire \/ DropLease \/ Rewrite

\* Requests have timeouts and the clean-up is straight-line code; time passes, and the
\* watch on the handshake has its turn.
Fairness == WF_vars(ShutDown) /\ WF_vars(Tick) /\ WF_vars(Age)

Spec == Init /\ [][Next]_vars /\ Fairness
-----------------------------------------------------------------------------
(* Properties                                                              *)

\* Whatever is killed or fails, and however many runs follow, the user's resolv.conf is in
\* its place or in the backup, unless it could not be backed up at all (set_dns: "Overriding
\* without backup").
DnsIsKept == ~unbacked => "user" \in {resolv, backup}

\* A run that set the DNS and ended by itself, on a signal or on a lost peer, has put the
\* user's resolv.conf back, also when it found the backup of a run that was killed.
DnsIsRestored ==
  pc = "off" /\ dns /\ end \in {"stopped", "timeout"} /\ ~unbacked
    => resolv = "user" /\ backup = "none"

\* A run gives up on a refused session only after a login of its own was refused: one that
\* was saved by an earlier run, and has expired, always gets a new login.
ExpiredSessionIsRenewed == end = "refused" /\ retry # "text" => logins > 0

\* README.md:466 "disconnect if wireguard handshake timeout": a run whose session the server
\* has dropped ends, once there has been a handshake.
LostPeerEndsRun == pc = "up" /\ ~lease /\ handshake # "never" ~> pc = "off"

\* README.md:396 (in translation) "fixed: the client does not exit after the server
\* disconnects abnormally".
ServerLossEndsRun == pc = "up" /\ ~lease ~> pc = "off"
=============================================================================
