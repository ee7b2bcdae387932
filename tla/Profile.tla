------------------------------- MODULE Profile -------------------------------
(***************************************************************************)
(* What the desktop keeps between its runs: profile.json, written by       *)
(* truncation, and four entries of the operating system's keyring.  The    *)
(* commands that touch them (load_auth_if_needed, auth_configure, a login, *)
(* a logout forced by the server, auth_reset) are split at every write, so *)
(* that a write may fail and the desktop may be killed between any two.    *)
(*                                                                         *)
(* One command runs at a time: all but the start of auth_configure hold    *)
(* the auth mutex, and the window offers the enterprise form only while it *)
(* has no session.  An enterprise is identified with the WireGuard key     *)
(* pair that was generated for it.                                         *)
(***************************************************************************)
CONSTANTS Ids,   \* enterprises that can be configured, each with its key pair
          NoId

ASSUME ProfileAssumption == NoId \notin Ids

VARIABLES profile,     \* profile.json: absent, torn, or whole; its identity, login state, and
                       \* the secrets it holds in plain text, as older versions wrote them
          keyring,     \* SecretStore: whose secret each entry is
          session,     \* AuthSession.client.conf, or NoConf
          loaded,      \* AuthState.loaded
          cmd, pc, at, \* the command in progress, its next step, and that step's keyring entry
          conf,        \* the Config it is working on
          owed,        \* history: the secrets a profile in plain text was found with, until
                       \* the user configures another enterprise or leaves this one
          forgotten,   \* history: the enterprises the user has left
          interrupted  \* history: a configure that rewrote the profile has not got as far as
                       \* leaving the keyring with this enterprise's key alone

work    == <<cmd, pc, at, conf>>
history == <<owed, forgotten, interrupted>>
vars    == <<profile, keyring, session, loaded, work, history>>

Secrets == {"key", "totp", "password", "socks5"}
Held    == [Secrets -> Ids \cup {NoId}]
Nothing == [s \in Secrets |-> NoId]

Config == [id : Ids \cup {NoId}, login : BOOLEAN, held : Held]
NoConf == [id |-> NoId, login |-> FALSE, held |-> Nothing]

File   == [is : {"absent", "torn", "whole"}, id : Ids \cup {NoId}, login : BOOLEAN,
           plain : SUBSET Secrets]
Absent == [is |-> "absent", id |-> NoId, login |-> FALSE, plain |-> {}]
Torn   == [is |-> "torn", id |-> NoId, login |-> FALSE, plain |-> {}]

TypeOK == /\ profile \in File
          /\ keyring \in Held
          /\ session \in Config
          /\ loaded \in BOOLEAN
          /\ cmd \in {"none", "load", "configure", "login", "logout", "reset"}
          /\ pc \in {"idle", "restore", "truncate", "write", "store", "delete", "open", "remove"}
          /\ at \in Secrets \cup {"none"}
          /\ conf \in Config
          /\ owed \in Held
          /\ forgotten \subseteq Ids
          /\ interrupted \in BOOLEAN

\* A new installation, or a profile of an older version, with all it knows in it.
Init == /\ \/ profile = Absent
           \/ \E i \in Ids, b \in BOOLEAN, p \in SUBSET Secrets :
                "key" \in p /\ profile = [is |-> "whole", id |-> i, login |-> b, plain |-> p]
        /\ keyring = Nothing
        /\ session = NoConf /\ loaded = FALSE
        /\ cmd = "none" /\ pc = "idle" /\ at = "none" /\ conf = NoConf
        /\ owed = [s \in Secrets |-> IF s \in profile.plain THEN profile.id ELSE NoId]
        /\ forgotten = {} /\ interrupted = FALSE
-----------------------------------------------------------------------------
Start(command, place, secret, c) == cmd' = command /\ pc' = place /\ at' = secret /\ conf' = c

Step(place, secret) == pc' = place /\ at' = secret /\ UNCHANGED <<cmd, conf>>

Stop == cmd' = "none" /\ pc' = "idle" /\ at' = "none" /\ conf' = NoConf

\* The order in which each command goes through the entries of the keyring.
NextSecret ==
  [load      |-> [key |-> "totp", totp |-> "password", password |-> "socks5", socks5 |-> "none"],
   configure |-> [totp |-> "password", password |-> "socks5", socks5 |-> "none"],
   reset     |-> [totp |-> "password", password |-> "socks5", socks5 |-> "key", key |-> "none"]]

\* Any read, write or keyring call may fail; the command returns the error as it is.
GiveUp == /\ pc # "idle"
          /\ Stop
          /\ UNCHANGED <<profile, keyring, session, loaded, history>>

\* The desktop quits, or is killed.
Exit == /\ loaded' = FALSE
        /\ session' = NoConf
        /\ Stop
        /\ UNCHANGED <<profile, keyring, history>>
-----------------------------------------------------------------------------
(* load_auth_if_needed                                                     *)

LoadBegin ==
  /\ pc = "idle" /\ ~loaded /\ profile.is # "torn"
  /\ IF profile.is = "absent"
     THEN loaded' = TRUE /\ UNCHANGED work
     ELSE /\ Start("load", "restore", "key",
                   [id |-> profile.id, login |-> profile.login,
                    held |-> [s \in Secrets |-> IF s \in profile.plain THEN profile.id ELSE NoId]])
          /\ UNCHANGED loaded
  /\ UNCHANGED <<profile, keyring, session, history>>

Restored == LET s == NextSecret[cmd][at]
            IN pc' = (IF s = "none" THEN "truncate" ELSE "restore") /\ at' = s /\ UNCHANGED cmd

\* Mutant: a secret in the profile is taken as it is.
MigrateNothing == /\ pc = "restore" /\ conf.held[at] # NoId
                  /\ Restored
                  /\ UNCHANGED <<profile, keyring, session, loaded, conf, history>>

\* A secret in the profile is copied to the keyring.
Migrate == /\ pc = "restore" /\ conf.held[at] # NoId
           /\ keyring' = [keyring EXCEPT ![at] = conf.held[at]]
           /\ Restored
           /\ UNCHANGED <<profile, session, loaded, conf, history>>

\* A secret that is not is looked up there; a missing private key is an error.
Restore == /\ pc = "restore" /\ conf.held[at] = NoId
           /\ at = "key" => keyring[at] # NoId
           /\ conf' = [conf EXCEPT !.held[at] = keyring[at]]
           /\ Restored
           /\ UNCHANGED <<profile, keyring, session, loaded, history>>
-----------------------------------------------------------------------------
(* Config::save: fs::write truncates the file and then writes it           *)

Truncate ==
  /\ pc = "truncate"
  /\ profile' = Torn
  /\ interrupted' = (interrupted \/ cmd = "configure")
  /\ Step("write", "none")
  /\ UNCHANGED <<keyring, session, loaded, owed, forgotten>>

\* Mutant: the secrets that are held are written into the profile.
SavedWithSecrets == [is |-> "whole", id |-> conf.id, login |-> conf.login,
                     plain |-> {s \in Secrets : conf.held[s] # NoId}]

\* A desktop profile is written without its secrets.
Saved == [is |-> "whole", id |-> conf.id, login |-> conf.login, plain |-> {}]

Write ==
  /\ pc = "write"
  /\ profile' = Saved
  /\ \/ cmd = "load" /\ Step("open", "none")
     \/ cmd = "configure" /\ Step("store", "key")
     \/ cmd = "login" /\ conf.held["totp"] # NoId /\ Step("store", "totp")
     \/ cmd = "login" /\ conf.held["totp"] = NoId /\ Stop
     \/ cmd = "logout" /\ Stop
  /\ UNCHANGED <<keyring, session, loaded, history>>
-----------------------------------------------------------------------------
(* auth_configure                                                          *)

\* A new key pair is nobody else's, on disk or in the keyring.  (One of an enterprise that
\* was left and has no trace any more stands for a new one: so three Ids are enough.)
Fresh(i) == i # profile.id /\ \A s \in Secrets : keyring[s] # i

ConfigureBegin(i) ==
  /\ pc = "idle" /\ session.id = NoId /\ Fresh(i)
  /\ Start("configure", "truncate", "none",
           [id |-> i, login |-> FALSE, held |-> [Nothing EXCEPT !["key"] = i]])
  /\ owed' = Nothing
  /\ forgotten' = forgotten \ {i}
  /\ UNCHANGED <<profile, keyring, session, loaded, interrupted>>

\* Mutant: the new key is not stored.
StoreOnlyTotp ==
  /\ pc = "store"
  /\ keyring' = IF at = "totp" THEN [keyring EXCEPT ![at] = conf.held[at]] ELSE keyring
  /\ IF cmd = "configure" THEN Step("delete", "totp") ELSE Stop
  /\ UNCHANGED <<profile, session, loaded, history>>

\* store_secret: a new enterprise's private key, or the TOTP secret a login brought.
Store ==
  /\ pc = "store"
  /\ keyring' = [keyring EXCEPT ![at] = conf.held[at]]
  /\ IF cmd = "configure" THEN Step("delete", "totp") ELSE Stop
  /\ UNCHANGED <<profile, session, loaded, history>>

\* Client::new, and the session that has it.
Open == /\ pc = "open"
        /\ session' = conf
        /\ loaded' = TRUE
        /\ Stop
        /\ UNCHANGED <<profile, keyring, history>>
-----------------------------------------------------------------------------
(* Logging in and out                                                      *)

\* complete_login: the session is logged in, with the TOTP secret the server sent,
\* if it sent one, before anything is saved.
LoginBegin ==
  /\ pc = "idle" /\ session.id # NoId
  /\ \E t \in {session.held["totp"], session.id} :
       session' = [session EXCEPT !.login = TRUE, !.held["totp"] = t]
  /\ Start("login", "truncate", "none", session')
  /\ UNCHANGED <<profile, keyring, loaded, history>>

\* handle_logout_err.
LogoutBegin ==
  /\ pc = "idle" /\ session.id # NoId
  /\ session' = [session EXCEPT !.login = FALSE]
  /\ Start("logout", "truncate", "none", session')
  /\ UNCHANGED <<profile, keyring, loaded, history>>
-----------------------------------------------------------------------------
(* auth_reset, which the window offers for a session only                  *)

ResetBegin ==
  /\ pc = "idle" /\ session.id # NoId
  /\ Start("reset", "delete", "totp", NoConf)
  /\ owed' = Nothing
  /\ UNCHANGED <<profile, keyring, session, loaded, forgotten, interrupted>>

\* Mutant: the session is gone by the time it is asked whose it was.
ForgetTooLate == /\ session' = NoConf /\ loaded' = TRUE
                 /\ forgotten' = forgotten \cup {session'.id}

Forget == /\ session' = NoConf /\ loaded' = TRUE
          /\ forgotten' = forgotten \cup {session.id}

\* With its last entry a configure has a session to open, and a reset one to drop.
Deleted(s) ==
  \/ s # "none" /\ Step("delete", s) /\ UNCHANGED <<session, loaded, forgotten, interrupted>>
  \/ /\ s = "none" /\ interrupted' = FALSE
     /\ \/ cmd = "configure" /\ Step("open", "none") /\ UNCHANGED <<session, loaded, forgotten>>
        \/ cmd = "reset" /\ Step("remove", "none") /\ Forget

\* Mutant: the entries of the enterprise that is left or replaced stay where they are.
DeleteNothing ==
  /\ pc = "delete"
  /\ Deleted(NextSecret[cmd][at])
  /\ UNCHANGED <<profile, keyring, owed>>

\* delete_optional_profile_secrets and delete_all_profile_secrets, entry by entry.
Delete ==
  /\ pc = "delete"
  /\ keyring' = [keyring EXCEPT ![at] = NoId]
  /\ Deleted(NextSecret[cmd][at])
  /\ UNCHANGED <<profile, owed>>

Remove == /\ pc = "remove"
          /\ profile' = Absent
          /\ Stop
          /\ UNCHANGED <<keyring, session, loaded, history>>
-----------------------------------------------------------------------------
Next == \/ LoadBegin \/ Migrate \/ Restore
        \/ Truncate \/ Write \/ Store \/ Open
        \/ \E i \in Ids : ConfigureBegin(i)
        \/ LoginBegin \/ LogoutBegin
        \/ ResetBegin \/ Delete \/ Remove
        \/ GiveUp \/ Exit

Spec == Init /\ [][Next]_vars
-----------------------------------------------------------------------------
(* Properties                                                              *)

\* Moving the secrets of an old profile into the keyring loses none of them, wherever
\* it fails or is cut off: each is in one place or still in the other.
\* docs/architecture.md: "Existing plaintext desktop profiles are migrated on native
\* startup and rewritten without secret fields."
MigrationKeepsSecrets ==
  \A s \in Secrets : owed[s] # NoId =>
    \/ keyring[s] = owed[s]
    \/ profile.is = "whole" /\ profile.id = owed[s] /\ s \in profile.plain

\* A desktop that has a session has no secret left in the profile, whichever of the
\* commands wrote it last.
ProfileIsRedacted == session.id # NoId => profile.plain = {}

\* The key a session uses is the one a restart will find, also after a reset that could
\* not go through with it: no identity lives in memory only.
IdentityIsDurable == session.id # NoId => keyring["key"] = session.held["key"]

\* An enterprise the user has left never comes back, even when its profile could not be
\* removed or the desktop was killed before it was; and none of its secrets is in the
\* keyring any more, not one that an earlier session had in memory either.
ForgottenStaysForgotten ==
  session.id \notin forgotten /\ \A s \in Secrets : keyring[s] \notin forgotten

\* A session has its own secrets and nobody else's, unless a configure was cut off before
\* the keyring was in step with the profile; a later one that is not puts it right.
OwnSecrets ==
  ~interrupted => \A s \in Secrets : session.held[s] \in {NoId, session.id}

\* docs/architecture.md: "A missing secure credential is a hard error rather than a reason
\* to generate a different WireGuard identity."  A session whose own private key was never
\* stored takes the one of an earlier enterprise instead.
MissingKeyIsAnError == session.held["key"] = session.id
=============================================================================
