---------------------------- MODULE ProfileProofs ----------------------------
(***************************************************************************)
(* What the desktop keeps is safe for any set of enterprises, wherever its *)
(* commands fail or are cut off: secrets survive a migration, the profile  *)
(* holds none while there is a session, identities are durable, those left *)
(* stay gone, and a session has its own secrets.                           *)
(*                                                                         *)
(* The argument: each property is true of the keyring and the profile at   *)
(* rest and is kept by every write because of what the command in progress *)
(* has behind it.  So the invariant says, for each place of each command,  *)
(* which entries are done and whose the file is: a load truncates only     *)
(* when every plain secret is in the keyring, a configure opens a session  *)
(* only when its key is in and the others are cleared, a reset deletes the *)
(* key last and drops the session with it.                                 *)
(***************************************************************************)
EXTENDS Profile, TLAPS

\* Which command is at which place, with which entry of the keyring.
PlaceInv ==
  /\ pc = "idle" => cmd = "none"
  /\ pc = "restore" => cmd = "load" /\ at \in Secrets
  /\ pc \in {"truncate", "write"} => cmd \in {"load", "configure", "login", "logout"}
  /\ pc = "store" => \/ cmd = "configure" /\ at = "key"
                     \/ cmd = "login" /\ at = "totp"
  /\ pc = "delete" => \/ cmd = "configure" /\ at \in Secrets \ {"key"}
                      \/ cmd = "reset" /\ at \in Secrets
  /\ pc = "open" => cmd \in {"load", "configure"}
  /\ pc = "remove" => cmd = "reset"

\* Who has a session, and what is being worked on.
WorkInv ==
  /\ session.id = NoId \/ ~loaded => session = NoConf
  /\ cmd \in {"load", "configure"} => session = NoConf /\ conf.id # NoId
  /\ cmd = "configure" => conf.held = [Nothing EXCEPT !["key"] = conf.id]
  /\ cmd \in {"login", "logout"} => session.id # NoId /\ conf = session
  /\ pc = "delete" /\ cmd = "reset" => session.id # NoId
  /\ pc = "remove" => session = NoConf

\* What is on disk, and whose it is.
FileInv ==
  /\ profile.is = "whole" <=> profile.id # NoId
  /\ profile.plain # {} => profile.is = "whole" /\ session = NoConf
  /\ session.id # NoId => profile.id \in {NoId, session.id}
  /\ pc = "write" => profile = Torn
  /\ cmd = "load" /\ pc \in {"restore", "truncate"} => profile.id = conf.id
  /\ pc \in {"store", "open"} \/ (pc = "delete" /\ cmd = "configure") =>
       profile.id = conf.id /\ profile.plain = {}

\* The entries a command has behind it.
Done(s) == CASE pc = "restore" -> \/ at = "totp" /\ s = "key"
                                  \/ at = "password" /\ s \in {"key", "totp"}
                                  \/ at = "socks5" /\ s # "socks5"
             [] pc = "delete" -> \/ at = "password" /\ s = "totp"
                                 \/ at = "socks5" /\ s \in {"totp", "password"}
                                 \/ at = "key" /\ s # "key"
             [] OTHER -> pc \in {"truncate", "write", "open"}

\* What a load has found so far: the plain secrets are in the keyring as well, and the
\* others have been read from there.
LoadInv ==
  cmd = "load" =>
    /\ \A s \in profile.plain : pc \in {"restore", "truncate"} => conf.held[s] = profile.id
    /\ \A s \in Secrets : Done(s) => conf.held[s] = keyring[s]
    /\ \A s \in Secrets : pc = "restore" /\ ~Done(s) =>
         conf.held[s] = IF s \in profile.plain THEN profile.id ELSE NoId

\* A secret that is owed is the profile's or the session's own, wherever it is.
OwedInv ==
  \A s \in Secrets : owed[s] # NoId =>
    /\ cmd \notin {"configure", "reset"}
    /\ profile.id \in {NoId, owed[s]}
    /\ session.id # NoId => session.held[s] = owed[s] /\ session.id = owed[s]
    /\ cmd = "load" => conf.id = owed[s]
    /\ pc = "write" => keyring[s] = owed[s]

\* The key in use, or about to be, is in the keyring.
KeyInv ==
  /\ session.id # NoId => session.held["key"] # NoId
  /\ cmd = "load" /\ Done("key") => conf.held["key"] # NoId
  /\ cmd = "configure" /\ pc \in {"delete", "open"} => keyring["key"] = conf.id

\* An enterprise that was left can neither be loaded nor be on its way to.
LeftInv ==
  /\ profile.id \in forgotten =>
       /\ profile.plain = {} /\ keyring["key"] = NoId /\ session = NoConf
  /\ cmd \in {"load", "configure"} /\ conf.id \in forgotten =>
       cmd = "load" /\ pc = "restore" /\ at = "key"
  /\ cmd = "configure" => conf.id \notin forgotten

\* As long as the profile and the keyring are in step, the keyring has this profile's
\* secrets and no others.
StepInv ==
  /\ ~interrupted =>
       /\ profile.is = "whole" => \A s \in Secrets : keyring[s] \in {NoId, profile.id}
       /\ session.id # NoId => \A s \in Secrets : keyring[s] \in {NoId, session.id}
       /\ cmd = "load" => \A s \in Secrets : /\ conf.held[s] \in {NoId, conf.id}
                                             /\ keyring[s] \in {NoId, conf.id}
  /\ cmd = "configure" /\ pc \in {"write", "store", "delete"} => interrupted
  /\ cmd = "configure" /\ pc \in {"delete"} =>
       \A s \in Secrets : Done(s) => keyring[s] = NoId
  /\ cmd = "reset" /\ pc = "delete" => \A s \in Secrets : Done(s) => keyring[s] = NoId

\* Nothing in memory is a secret of an enterprise that was left, and a reset comes to the
\* profile with the keyring empty.
TraceInv ==
  /\ \A s \in Secrets : session.held[s] \notin forgotten /\ conf.held[s] \notin forgotten
  /\ cmd = "reset" => conf = NoConf
  /\ pc = "remove" => keyring = Nothing

IInv == /\ TypeOK /\ PlaceInv /\ WorkInv /\ FileInv /\ LoadInv /\ OwedInv /\ KeyInv
        /\ LeftInv /\ StepInv /\ TraceInv
        /\ MigrationKeepsSecrets /\ ProfileIsRedacted /\ IdentityIsDurable
        /\ ForgottenStaysForgotten /\ OwnSecrets

USE ProfileAssumption

\* A new or an old installation has no session, and owes what its profile holds.
LEMMA ProfileInit == Init => IInv
<1> SUFFICES ASSUME Init PROVE IInv
    OBVIOUS
<1> USE DEF Init, NoConf, Nothing, Secrets
<1>1. PICK w \in {"absent", "whole"}, i \in Ids \cup {NoId}, b \in BOOLEAN, p \in SUBSET Secrets :
        /\ profile = [is |-> w, id |-> i, login |-> b, plain |-> p]
        /\ w = "whole" <=> i # NoId
        /\ w = "absent" => p = {}
  BY DEF Absent
<1>2. TypeOK
  <2>1. profile \in File
    BY <1>1 DEF File
  <2>2. keyring \in Held /\ owed \in Held
    BY <1>1 DEF Held
  <2>3. session \in Config /\ conf \in Config
    BY DEF Config, Held
  <2> QED
    BY <2>1, <2>2, <2>3 DEF TypeOK
<1>3. PlaceInv /\ WorkInv /\ FileInv
  BY <1>1 DEF PlaceInv, WorkInv, FileInv
<1>4. LoadInv /\ OwedInv /\ KeyInv
  BY <1>1 DEF LoadInv, OwedInv, KeyInv
<1>5. LeftInv /\ StepInv
  BY <1>1 DEF LeftInv, StepInv
<1>6. MigrationKeepsSecrets /\ ProfileIsRedacted /\ IdentityIsDurable
  BY <1>1 DEF MigrationKeepsSecrets, ProfileIsRedacted, IdentityIsDurable
<1>7. ForgottenStaysForgotten /\ OwnSecrets /\ TraceInv
  BY DEF ForgottenStaysForgotten, OwnSecrets, TraceInv
<1> QED
  BY <1>2, <1>3, <1>4, <1>5, <1>6, <1>7 DEF IInv

\* A load starts from the profile's plain secrets and has nothing from the keyring yet.
LEMMA LoadBeginKeeps ==
  ASSUME IInv, LoadBegin
  PROVE  IInv'
<1> USE DEF IInv, NoConf, Nothing, Secrets, work, history, LoadBegin, Start
<1>0. TypeOK'
  <2>1. CASE profile.is = "absent"
    BY <2>1 DEF TypeOK, work
  <2>2. CASE profile.is # "absent"
    <3>1. conf' \in Config
      BY <2>2 DEF TypeOK, Config, Held, File
    <3>2. pc' = "restore" /\ cmd' = "load" /\ at' \in Secrets
      BY <2>2
    <3> QED
      BY <3>1, <3>2, <2>2 DEF TypeOK
  <2> QED
    BY <2>1, <2>2
<1>1. (PlaceInv)'
  BY DEF TypeOK, Config, Held, PlaceInv
<1>2. (WorkInv)'
  BY DEF TypeOK, Config, File, WorkInv, FileInv
<1>3. (FileInv)'
  BY DEF FileInv
<1>4. (LoadInv)'
  BY DEF TypeOK, File, LoadInv, Done
<1>5. (OwedInv)'
  BY DEF TypeOK, File, FileInv, OwedInv
<1>6. (KeyInv)'
  BY DEF KeyInv, Done
<1>7. (LeftInv)'
  BY DEF LeftInv
<1>8. (StepInv)'
  BY DEF TypeOK, File, StepInv
<1>9. (MigrationKeepsSecrets)'
  BY DEF MigrationKeepsSecrets
<1>10. (ProfileIsRedacted /\ IdentityIsDurable)'
  BY DEF ProfileIsRedacted, IdentityIsDurable
<1>11. (ForgottenStaysForgotten /\ OwnSecrets)'
  BY DEF ForgottenStaysForgotten, OwnSecrets
<1>12. (TraceInv)'
  BY DEF TypeOK, LeftInv, TraceInv
<1> QED
  BY <1>0, <1>1, <1>2, <1>3, <1>4, <1>5, <1>6, <1>7, <1>8, <1>9, <1>10, <1>11, <1>12

\* The entry written is the profile's own, and is in both places now.
LEMMA MigrateKeeps ==
  ASSUME IInv, Migrate
  PROVE  IInv'
<1> USE DEF IInv, NoConf, Nothing, Secrets, history, Migrate, Restored, NextSecret
<1>0. TypeOK'
  BY DEF TypeOK, PlaceInv, Config, Held, File
<1>1. (PlaceInv)'
  BY DEF PlaceInv
<1>2. (WorkInv)'
  BY DEF WorkInv
<1>3. (FileInv)'
  BY DEF FileInv
<1>4. (LoadInv)'
  BY <1>0 DEF TypeOK, Held, LoadInv, Done
<1>5. (OwedInv)'
  BY DEF OwedInv
<1>6. (KeyInv)'
  BY <1>0 DEF TypeOK, Held, KeyInv, Done
<1>7. (LeftInv)'
  BY DEF PlaceInv, FileInv, LoadInv, LeftInv
<1>8. (StepInv)'
  BY DEF PlaceInv, FileInv, StepInv
<1>9. (MigrationKeepsSecrets)'
  BY DEF PlaceInv, LoadInv, OwedInv, MigrationKeepsSecrets
<1>10. (ProfileIsRedacted /\ IdentityIsDurable)'
  BY DEF PlaceInv, WorkInv, ProfileIsRedacted, IdentityIsDurable
<1>11. (ForgottenStaysForgotten /\ OwnSecrets)'
  BY DEF TypeOK, Held, PlaceInv, TraceInv, ForgottenStaysForgotten, OwnSecrets
<1>12. (TraceInv)'
  BY DEF TraceInv
<1> QED
  BY <1>0, <1>1, <1>2, <1>3, <1>4, <1>5, <1>6, <1>7, <1>8, <1>9, <1>10, <1>11, <1>12

\* The entry read is the keyring's; the key is an error if there is none, which is what
\* stops the load of an enterprise that was left.
LEMMA RestoreKeeps ==
  ASSUME IInv, Restore
  PROVE  IInv'
<1> USE DEF IInv, NoConf, Nothing, Secrets, history, Restore, Restored, NextSecret
<1>0. TypeOK'
  BY DEF TypeOK, PlaceInv, Config, Held, File
<1>1. (PlaceInv)'
  BY DEF PlaceInv
<1>2. (WorkInv)'
  BY DEF PlaceInv, WorkInv
<1>3. (FileInv)'
  BY DEF FileInv
<1>4. (LoadInv)'
  BY DEF TypeOK, Config, Held, PlaceInv, FileInv, LoadInv, Done
<1>5. (OwedInv)'
  BY DEF OwedInv
<1>6. (KeyInv)'
  BY DEF TypeOK, Config, Held, PlaceInv, KeyInv, Done
<1>7. (LeftInv)'
  BY DEF FileInv, LeftInv
<1>8. (StepInv)'
  BY DEF StepInv
<1>9. (MigrationKeepsSecrets)'
  BY DEF MigrationKeepsSecrets
<1>10. (ProfileIsRedacted /\ IdentityIsDurable)'
  BY DEF ProfileIsRedacted, IdentityIsDurable
<1>11. (ForgottenStaysForgotten /\ OwnSecrets)'
  BY DEF ForgottenStaysForgotten, OwnSecrets
<1>12. (TraceInv)'
  BY DEF TypeOK, Config, Held, PlaceInv, TraceInv, ForgottenStaysForgotten
<1> QED
  BY <1>0, <1>1, <1>2, <1>3, <1>4, <1>5, <1>6, <1>7, <1>8, <1>9, <1>10, <1>11, <1>12

\* The file is given up only when everything that is owed is in the keyring.
LEMMA TruncateKeeps ==
  ASSUME IInv, Truncate
  PROVE  IInv'
<1> USE DEF IInv, NoConf, Nothing, Secrets, Truncate, Step, Torn
<1>0. TypeOK'
  BY DEF TypeOK, PlaceInv, Config, Held, File
<1>1. (PlaceInv)'
  BY DEF PlaceInv
<1>2. (WorkInv)'
  BY DEF WorkInv
<1>3. (FileInv)'
  BY DEF FileInv
<1>4. (LoadInv)'
  BY DEF LoadInv, Done
<1>5. (OwedInv)'
  BY DEF PlaceInv, WorkInv, FileInv, LoadInv, OwedInv, Done, MigrationKeepsSecrets
<1>6. (KeyInv)'
  BY DEF KeyInv, StepInv, Done
<1>7. (LeftInv)'
  BY DEF TypeOK, LeftInv
<1>8. (StepInv)'
  BY DEF StepInv
<1>9. (MigrationKeepsSecrets)'
  BY DEF PlaceInv, WorkInv, FileInv, LoadInv, OwedInv, Done, MigrationKeepsSecrets
<1>10. (ProfileIsRedacted /\ IdentityIsDurable)'
  BY DEF ProfileIsRedacted, IdentityIsDurable
<1>11. (ForgottenStaysForgotten /\ OwnSecrets)'
  BY DEF ForgottenStaysForgotten, OwnSecrets
<1>12. (TraceInv)'
  BY DEF TraceInv
<1> QED
  BY <1>0, <1>1, <1>2, <1>3, <1>4, <1>5, <1>6, <1>7, <1>8, <1>9, <1>10, <1>11, <1>12

\* What is written is what is being worked on, without its secrets.
LEMMA WriteKeeps ==
  ASSUME IInv, Write
  PROVE  IInv'
<1> USE DEF IInv, NoConf, Nothing, Secrets, history, Write, Step, Stop, Saved
<1>0. TypeOK'
  <2>1. profile' \in File
    BY DEF TypeOK, Config, File
  <2>2. conf' \in Config
    <3>1. NoConf \in Config
      BY DEF Config, Held
    <3>2. conf' = conf \/ conf' = NoConf
      OBVIOUS
    <3> QED
      BY <3>1, <3>2 DEF TypeOK
  <2> QED
    BY <2>1, <2>2 DEF TypeOK
<1>1. (PlaceInv)'
  BY <1>0 DEF Held, File, PlaceInv
<1>2. (WorkInv)'
  BY DEF Config, WorkInv
<1>3. (FileInv)'
  BY DEF TypeOK, WorkInv, FileInv
<1>4. (LoadInv)'
  BY DEF LoadInv, Done
<1>5. (OwedInv)'
  BY DEF WorkInv, OwedInv
<1>6. (KeyInv)'
  BY DEF KeyInv, Done
<1>7. (LeftInv)'
  BY DEF WorkInv, LeftInv, ForgottenStaysForgotten
<1>8. (StepInv)'
  BY DEF WorkInv, StepInv
<1>9. (MigrationKeepsSecrets)'
  BY DEF OwedInv, MigrationKeepsSecrets
<1>10. (ProfileIsRedacted /\ IdentityIsDurable)'
  BY DEF ProfileIsRedacted, IdentityIsDurable
<1>11. (ForgottenStaysForgotten /\ OwnSecrets)'
  BY DEF ForgottenStaysForgotten, OwnSecrets
<1>12. (TraceInv)'
  BY DEF TypeOK, Config, Held, PlaceInv, TraceInv
<1> QED
  BY <1>0, <1>1, <1>2, <1>3, <1>4, <1>5, <1>6, <1>7, <1>8, <1>9, <1>10, <1>11, <1>12

\* The entry stored is the one of the profile that was just written.
LEMMA StoreKeeps ==
  ASSUME IInv, Store
  PROVE  IInv'
<1> USE DEF IInv, NoConf, Nothing, Secrets, history, Store, Step, Stop
<1>0. TypeOK'
  <2>1. keyring' \in Held
    BY DEF TypeOK, PlaceInv, Config, Held
  <2>2. conf' \in Config
    <3>1. NoConf \in Config
      BY DEF Config, Held
    <3>2. conf' = conf \/ conf' = NoConf
      OBVIOUS
    <3> QED
      BY <3>1, <3>2 DEF TypeOK
  <2> QED
    BY <2>1, <2>2 DEF TypeOK
<1>1. (PlaceInv)'
  BY DEF PlaceInv, StepInv
<1>2. (WorkInv)'
  BY DEF WorkInv
<1>3. (FileInv)'
  BY DEF FileInv
<1>4. (LoadInv)'
  BY DEF LoadInv
<1>5. (OwedInv)'
  BY DEF OwedInv
<1>6. (KeyInv)'
  BY DEF TypeOK, Held, PlaceInv, WorkInv, KeyInv
<1>7. (LeftInv)'
  BY DEF PlaceInv, FileInv, LeftInv
<1>8. (StepInv)'
  BY DEF PlaceInv, WorkInv, FileInv, StepInv, Done, OwnSecrets
<1>9. (MigrationKeepsSecrets)'
  BY DEF PlaceInv, WorkInv, OwedInv, MigrationKeepsSecrets
<1>10. (ProfileIsRedacted /\ IdentityIsDurable)'
  BY DEF PlaceInv, WorkInv, ProfileIsRedacted, IdentityIsDurable
<1>11. (ForgottenStaysForgotten /\ OwnSecrets)'
  BY DEF TypeOK, Held, PlaceInv, LoadInv, TraceInv, ForgottenStaysForgotten, OwnSecrets
<1>12. (TraceInv)'
  BY DEF TypeOK, Config, Held, PlaceInv, TraceInv
<1> QED
  BY <1>0, <1>1, <1>2, <1>3, <1>4, <1>5, <1>6, <1>7, <1>8, <1>9, <1>10, <1>11, <1>12

\* The session opened is the loaded or configured one, whose key is in the keyring.
LEMMA OpenKeeps ==
  ASSUME IInv, Open
  PROVE  IInv'
<1> USE DEF IInv, NoConf, Nothing, Secrets, history, Open, Stop
<1>0. TypeOK'
  BY DEF TypeOK, PlaceInv, Config, Held, File
<1>1. (PlaceInv)'
  BY DEF PlaceInv, WorkInv, Done
<1>2. (WorkInv)'
  BY DEF Held, File, PlaceInv, WorkInv
<1>3. (FileInv)'
  BY <1>0 DEF PlaceInv, WorkInv, FileInv
<1>4. (LoadInv)'
  BY DEF TypeOK, Config, Held, LoadInv
<1>5. (OwedInv)'
  BY DEF PlaceInv, FileInv, LoadInv, OwedInv, Done, MigrationKeepsSecrets
<1>6. (KeyInv)'
  BY DEF PlaceInv, WorkInv, KeyInv, Done
<1>7. (LeftInv)'
  BY DEF PlaceInv, FileInv, LeftInv
<1>8. (StepInv)'
  BY DEF WorkInv, FileInv, StepInv
<1>9. (MigrationKeepsSecrets)'
  BY <1>0 DEF PlaceInv, MigrationKeepsSecrets
<1>10. (ProfileIsRedacted /\ IdentityIsDurable)'
  BY DEF PlaceInv, WorkInv, FileInv, LoadInv, KeyInv, Done, ProfileIsRedacted, IdentityIsDurable
<1>11. (ForgottenStaysForgotten /\ OwnSecrets)'
  BY DEF PlaceInv, WorkInv, LeftInv, StepInv, ForgottenStaysForgotten, OwnSecrets
<1>12. (TraceInv)'
  BY DEF TypeOK, Config, Held, PlaceInv, TraceInv
<1> QED
  BY <1>0, <1>1, <1>2, <1>3, <1>4, <1>5, <1>6, <1>7, <1>8, <1>9, <1>10, <1>11, <1>12

\* A new enterprise has nothing on disk, in the keyring or among those left.
LEMMA ConfigureBeginKeeps ==
  ASSUME IInv, NEW i \in Ids, ConfigureBegin(i)
  PROVE  IInv'
<1> USE DEF IInv, NoConf, Nothing, Secrets, ConfigureBegin, Start, Fresh
<1>0. TypeOK'
  BY DEF TypeOK, PlaceInv, Config, Held, File
<1>1. (PlaceInv)'
  BY DEF PlaceInv
<1>2. (WorkInv)'
  BY DEF WorkInv
<1>3. (FileInv)'
  BY DEF FileInv
<1>4. (LoadInv)'
  BY DEF LoadInv
<1>5. (OwedInv)'
  BY DEF OwedInv
<1>6. (KeyInv)'
  BY DEF KeyInv
<1>7. (LeftInv)'
  BY DEF LeftInv
<1>8. (StepInv)'
  BY DEF StepInv
<1>9. (MigrationKeepsSecrets)'
  BY DEF MigrationKeepsSecrets
<1>10. (ProfileIsRedacted /\ IdentityIsDurable)'
  BY DEF ProfileIsRedacted, IdentityIsDurable
<1>11. (ForgottenStaysForgotten /\ OwnSecrets)'
  BY DEF ForgottenStaysForgotten, OwnSecrets
<1>12. (TraceInv)'
  BY DEF WorkInv, TraceInv
<1> QED
  BY <1>0, <1>1, <1>2, <1>3, <1>4, <1>5, <1>6, <1>7, <1>8, <1>9, <1>10, <1>11, <1>12

\* A login leaves the session's key alone and brings a TOTP secret of its own.
LEMMA LoginBeginKeeps ==
  ASSUME IInv, LoginBegin
  PROVE  IInv'
<1> USE DEF IInv, NoConf, Nothing, Secrets, history, LoginBegin, Start
<1>0. TypeOK'
  <2>1. PICK t \in {session.held["totp"], session.id} :
          session' = [session EXCEPT !.login = TRUE, !.held["totp"] = t]
    OBVIOUS
  <2>2. t \in Ids \cup {NoId}
    BY DEF TypeOK, Config, Held
  <2>3. session' = [id |-> session.id, login |-> TRUE, held |-> [session.held EXCEPT !["totp"] = t]]
    BY <2>1 DEF TypeOK, Config
  <2>4. session' \in Config
    BY <2>2, <2>3 DEF TypeOK, Config, Held
  <2> QED
    BY <2>4 DEF TypeOK
<1>1. (PlaceInv)'
  BY DEF PlaceInv
<1>2. (WorkInv)'
  BY DEF WorkInv
<1>3. (FileInv)'
  BY DEF FileInv
<1>4. (LoadInv)'
  BY DEF LoadInv
<1>5. (OwedInv)'
  BY DEF OwedInv
<1>6. (KeyInv)'
  BY DEF KeyInv
<1>7. (LeftInv)'
  BY DEF LeftInv
<1>8. (StepInv)'
  BY DEF StepInv
<1>9. (MigrationKeepsSecrets)'
  BY DEF MigrationKeepsSecrets
<1>10. (ProfileIsRedacted /\ IdentityIsDurable)'
  BY DEF ProfileIsRedacted, IdentityIsDurable
<1>11. (ForgottenStaysForgotten /\ OwnSecrets)'
  BY DEF ForgottenStaysForgotten, OwnSecrets
<1>12. (TraceInv)'
  BY DEF TraceInv, ForgottenStaysForgotten
<1> QED
  BY <1>0, <1>1, <1>2, <1>3, <1>4, <1>5, <1>6, <1>7, <1>8, <1>9, <1>10, <1>11, <1>12

\* A logout changes the session's login state only.
LEMMA LogoutBeginKeeps ==
  ASSUME IInv, LogoutBegin
  PROVE  IInv'
<1> USE DEF IInv, NoConf, Nothing, Secrets, history, LogoutBegin, Start
<1>0. TypeOK'
  BY DEF TypeOK, PlaceInv, Config, Held, File
<1>1. (PlaceInv)'
  BY DEF PlaceInv
<1>2. (WorkInv)'
  BY DEF WorkInv
<1>3. (FileInv)'
  BY DEF FileInv
<1>4. (LoadInv)'
  BY DEF LoadInv
<1>5. (OwedInv)'
  BY DEF OwedInv
<1>6. (KeyInv)'
  BY DEF KeyInv
<1>7. (LeftInv)'
  BY DEF LeftInv
<1>8. (StepInv)'
  BY DEF StepInv
<1>9. (MigrationKeepsSecrets)'
  BY DEF MigrationKeepsSecrets
<1>10. (ProfileIsRedacted /\ IdentityIsDurable)'
  BY DEF ProfileIsRedacted, IdentityIsDurable
<1>11. (ForgottenStaysForgotten /\ OwnSecrets)'
  BY DEF ForgottenStaysForgotten, OwnSecrets
<1>12. (TraceInv)'
  BY DEF TraceInv
<1> QED
  BY <1>0, <1>1, <1>2, <1>3, <1>4, <1>5, <1>6, <1>7, <1>8, <1>9, <1>10, <1>11, <1>12

\* A reset touches nothing yet, and ends what is owed.
LEMMA ResetBeginKeeps ==
  ASSUME IInv, ResetBegin
  PROVE  IInv'
<1> USE DEF IInv, NoConf, Nothing, Secrets, ResetBegin, Start
<1>0. TypeOK'
  BY DEF TypeOK, PlaceInv, Config, Held, File
<1>1. (PlaceInv)'
  BY DEF PlaceInv
<1>2. (WorkInv)'
  BY DEF WorkInv
<1>3. (FileInv)'
  BY DEF FileInv
<1>4. (LoadInv)'
  BY DEF LoadInv
<1>5. (OwedInv)'
  BY DEF OwedInv
<1>6. (KeyInv)'
  BY DEF KeyInv
<1>7. (LeftInv)'
  BY DEF LeftInv
<1>8. (StepInv)'
  BY DEF StepInv, Done
<1>9. (MigrationKeepsSecrets)'
  BY DEF MigrationKeepsSecrets
<1>10. (ProfileIsRedacted /\ IdentityIsDurable)'
  BY DEF ProfileIsRedacted, IdentityIsDurable
<1>11. (ForgottenStaysForgotten /\ OwnSecrets)'
  BY DEF ForgottenStaysForgotten, OwnSecrets
<1>12. (TraceInv)'
  BY DEF TypeOK, Config, Held, PlaceInv, TraceInv
<1> QED
  BY <1>0, <1>1, <1>2, <1>3, <1>4, <1>5, <1>6, <1>7, <1>8, <1>9, <1>10, <1>11, <1>12

\* Entries go one by one; the last one of a reset, its key, takes the session with it.
LEMMA DeleteKeeps ==
  ASSUME IInv, Delete
  PROVE  IInv'
<1> USE DEF IInv, NoConf, Nothing, Secrets, Delete, Deleted, NextSecret, Step, Forget
<1>0. TypeOK'
  <2>1. keyring' \in Held
    BY DEF TypeOK, PlaceInv, Held
  <2>2. session' \in Config
    <3>1. NoConf \in Config
      BY DEF Config, Held
    <3>2. session' = session \/ session' = NoConf
      OBVIOUS
    <3> QED
      BY <3>1, <3>2 DEF TypeOK
  <2>3. forgotten' \subseteq Ids
    BY DEF TypeOK, PlaceInv, WorkInv, Config
  <2>4. at' \in Secrets \cup {"none"} /\ pc' \in {"delete", "open", "remove"}
    BY DEF TypeOK, PlaceInv
  <2> QED
    BY <2>1, <2>2, <2>3, <2>4 DEF TypeOK
<1>1. (PlaceInv)'
  BY DEF PlaceInv
<1>2. (WorkInv)'
  BY DEF WorkInv
<1>3. (FileInv)'
  BY DEF FileInv
<1>4. (LoadInv)'
  BY DEF PlaceInv, LoadInv
<1>5. (OwedInv)'
  BY DEF OwedInv
<1>6. (KeyInv)'
  BY DEF PlaceInv, KeyInv
<1>7. (LeftInv)'
  BY <1>0 DEF TypeOK, Held, FileInv, LeftInv
<1>8. (StepInv)'
  BY <1>0 DEF TypeOK, Held, FileInv, KeyInv, StepInv, Done
<1>9. (MigrationKeepsSecrets)'
  BY DEF PlaceInv, OwedInv, MigrationKeepsSecrets
<1>10. (ProfileIsRedacted /\ IdentityIsDurable)'
  BY DEF PlaceInv, ProfileIsRedacted, IdentityIsDurable
<1>11. (ForgottenStaysForgotten /\ OwnSecrets /\ TraceInv)'
  <2>1. /\ keyring \in Held /\ at \in Secrets /\ keyring' = [keyring EXCEPT ![at] = NoId]
        /\ forgotten \subseteq Ids /\ conf' = conf
    BY DEF TypeOK, PlaceInv
  <2>2. \A s \in Secrets : keyring'[s] \in {NoId, keyring[s]}
    BY <2>1 DEF Held
  <2>3. CASE UNCHANGED <<session, forgotten>>
    <3>1. pc' # "remove"
      BY <2>3 DEF PlaceInv, WorkInv
    <3>2. ForgottenStaysForgotten'
      BY <2>1, <2>2, <2>3 DEF ForgottenStaysForgotten
    <3>3. TraceInv'
      BY <2>1, <2>3, <3>1 DEF TraceInv
    <3>4. OwnSecrets'
      BY <2>3 DEF WorkInv, PlaceInv, OwnSecrets
    <3> QED
      BY <3>2, <3>3, <3>4
  <2>4. CASE cmd = "reset" /\ at = "key" /\ session' = NoConf
             /\ forgotten' = forgotten \cup {session.id} /\ cmd' = cmd
    <3>1. \A s \in Secrets : keyring'[s] = NoId
      BY <2>1, <2>4 DEF Held, StepInv, Done
    <3>2. keyring' = Nothing
      BY <2>1, <3>1 DEF Held
    <3>3. session.id # NoId /\ conf = NoConf
      BY <2>4 DEF WorkInv, TraceInv
    <3> QED
      BY <2>1, <2>4, <3>1, <3>2, <3>3 DEF TraceInv, ForgottenStaysForgotten, OwnSecrets
  <2> QED
    BY <2>3, <2>4 DEF PlaceInv
<1> QED
  BY <1>0, <1>1, <1>2, <1>3, <1>4, <1>5, <1>6, <1>7, <1>8, <1>9, <1>10, <1>11

\* The profile goes when its session and its secrets are gone.
LEMMA RemoveKeeps ==
  ASSUME IInv, Remove
  PROVE  IInv'
<1> USE DEF IInv, NoConf, Nothing, Secrets, history, Remove, Stop, Absent
<1>0. TypeOK'
  BY DEF TypeOK, PlaceInv, Config, Held, File
<1>1. (PlaceInv)'
  BY DEF PlaceInv
<1>2. (WorkInv)'
  BY DEF WorkInv
<1>3. (FileInv)'
  BY DEF FileInv
<1>4. (LoadInv)'
  BY DEF LoadInv
<1>5. (OwedInv)'
  BY DEF OwedInv
<1>6. (KeyInv)'
  BY DEF KeyInv
<1>7. (LeftInv)'
  BY DEF TypeOK, LeftInv
<1>8. (StepInv)'
  BY DEF StepInv
<1>9. (MigrationKeepsSecrets)'
  BY DEF PlaceInv, OwedInv, MigrationKeepsSecrets
<1>10. (ProfileIsRedacted /\ IdentityIsDurable)'
  BY DEF ProfileIsRedacted, IdentityIsDurable
<1>11. (ForgottenStaysForgotten /\ OwnSecrets)'
  BY DEF ForgottenStaysForgotten, OwnSecrets
<1>12. (TraceInv)'
  BY DEF PlaceInv, TraceInv
<1> QED
  BY <1>0, <1>1, <1>2, <1>3, <1>4, <1>5, <1>6, <1>7, <1>8, <1>9, <1>10, <1>11, <1>12

\* A command that fails leaves everything as it found it at that step.
LEMMA GiveUpKeeps ==
  ASSUME IInv, GiveUp
  PROVE  IInv'
<1> USE DEF IInv, NoConf, Nothing, Secrets, history, GiveUp, Stop
<1>0. TypeOK'
  BY DEF TypeOK, PlaceInv, Config, Held, File
<1>1. (PlaceInv)'
  BY DEF PlaceInv
<1>2. (WorkInv)'
  BY DEF WorkInv
<1>3. (FileInv)'
  BY DEF FileInv
<1>4. (LoadInv)'
  BY DEF LoadInv
<1>5. (OwedInv)'
  BY DEF OwedInv
<1>6. (KeyInv)'
  BY DEF KeyInv
<1>7. (LeftInv)'
  BY DEF LeftInv
<1>8. (StepInv)'
  BY DEF StepInv
<1>9. (MigrationKeepsSecrets)'
  BY DEF MigrationKeepsSecrets
<1>10. (ProfileIsRedacted /\ IdentityIsDurable)'
  BY DEF ProfileIsRedacted, IdentityIsDurable
<1>11. (ForgottenStaysForgotten /\ OwnSecrets)'
  BY DEF ForgottenStaysForgotten, OwnSecrets
<1>12. (TraceInv)'
  BY DEF TypeOK, Config, Held, PlaceInv, TraceInv
<1> QED
  BY <1>0, <1>1, <1>2, <1>3, <1>4, <1>5, <1>6, <1>7, <1>8, <1>9, <1>10, <1>11, <1>12

\* The files and the keyring are all that is left of a desktop that ends.
LEMMA ExitKeeps ==
  ASSUME IInv, Exit
  PROVE  IInv'
<1> USE DEF IInv, NoConf, Nothing, Secrets, history, Exit, Stop
<1>0. TypeOK'
  BY DEF TypeOK, PlaceInv, Config, Held, File
<1>1. (PlaceInv)'
  BY DEF PlaceInv
<1>2. (WorkInv)'
  BY DEF WorkInv
<1>3. (FileInv)'
  BY DEF FileInv
<1>4. (LoadInv)'
  BY DEF LoadInv
<1>5. (OwedInv)'
  BY DEF OwedInv
<1>6. (KeyInv)'
  BY DEF KeyInv
<1>7. (LeftInv)'
  BY DEF LeftInv
<1>8. (StepInv)'
  BY DEF StepInv
<1>9. (MigrationKeepsSecrets)'
  BY DEF MigrationKeepsSecrets
<1>10. (ProfileIsRedacted /\ IdentityIsDurable)'
  BY DEF ProfileIsRedacted, IdentityIsDurable
<1>11. (ForgottenStaysForgotten /\ OwnSecrets)'
  BY DEF TypeOK, ForgottenStaysForgotten, OwnSecrets
<1>12. (TraceInv)'
  BY DEF TypeOK, Config, Held, PlaceInv, TraceInv
<1> QED
  BY <1>0, <1>1, <1>2, <1>3, <1>4, <1>5, <1>6, <1>7, <1>8, <1>9, <1>10, <1>11, <1>12

\* Every step of the desktop keeps the invariant.
LEMMA ProfileStep == IInv /\ [Next]_vars => IInv'
<1> SUFFICES ASSUME IInv, [Next]_vars PROVE IInv'
    OBVIOUS
<1>1. CASE LoadBegin
  BY <1>1, LoadBeginKeeps
<1>2. CASE Migrate
  BY <1>2, MigrateKeeps
<1>3. CASE Restore
  BY <1>3, RestoreKeeps
<1>4. CASE Truncate
  BY <1>4, TruncateKeeps
<1>5. CASE Write
  BY <1>5, WriteKeeps
<1>6. CASE Store
  BY <1>6, StoreKeeps
<1>7. CASE Open
  BY <1>7, OpenKeeps
<1>8. ASSUME NEW i \in Ids, ConfigureBegin(i) PROVE IInv'
  BY <1>8, ConfigureBeginKeeps
<1>9. CASE LoginBegin
  BY <1>9, LoginBeginKeeps
<1>10. CASE LogoutBegin
  BY <1>10, LogoutBeginKeeps
<1>11. CASE ResetBegin
  BY <1>11, ResetBeginKeeps
<1>12. CASE Delete
  BY <1>12, DeleteKeeps
<1>13. CASE Remove
  BY <1>13, RemoveKeeps
<1>14. CASE GiveUp
  BY <1>14, GiveUpKeeps
<1>15. CASE Exit
  BY <1>15, ExitKeeps
<1>16. CASE UNCHANGED vars
  BY <1>16 DEF IInv, TypeOK, PlaceInv, WorkInv, FileInv, LoadInv, OwedInv, KeyInv, LeftInv, StepInv,
     TraceInv, Done, MigrationKeepsSecrets, ProfileIsRedacted, IdentityIsDurable, ForgottenStaysForgotten,
     OwnSecrets, vars, work, history
<1> QED
  BY <1>1, <1>2, <1>3, <1>4, <1>5, <1>6, <1>7, <1>8, <1>9, <1>10, <1>11, <1>12, <1>13,
     <1>14, <1>15, <1>16 DEF Next

\* The inductive invariant behind the theorems below.
THEOREM ProfileInv == Spec => []IInv
BY ProfileInit, ProfileStep, PTL DEF Spec

\* What the desktop keeps and what it works on keep their types.
THEOREM ProfileTypeOK == Spec => []TypeOK
<1>1. IInv => TypeOK
  BY DEF IInv
<1> QED
  BY <1>1, ProfileInv, PTL

\* The secrets an old profile holds in plain text survive their migration, wherever
\* load_auth_if_needed fails or is cut off.
THEOREM SecretsSurviveMigration == Spec => []MigrationKeepsSecrets
<1>1. IInv => MigrationKeepsSecrets
  BY DEF IInv
<1> QED
  BY <1>1, ProfileInv, PTL

\* While there is a session, no secret is in profile.json, whichever command saved it last.
THEOREM ProfileIsAlwaysRedacted == Spec => []ProfileIsRedacted
<1>1. IInv => ProfileIsRedacted
  BY DEF IInv
<1> QED
  BY <1>1, ProfileInv, PTL

\* The key of the session is in the keyring at every moment, also while auth_reset fails.
THEOREM IdentityIsAlwaysDurable == Spec => []IdentityIsDurable
<1>1. IInv => IdentityIsDurable
  BY DEF IInv
<1> QED
  BY <1>1, ProfileInv, PTL

\* An enterprise that auth_reset has forgotten is never loaded again.
THEOREM ForgottenForGood == Spec => []ForgottenStaysForgotten
<1>1. IInv => ForgottenStaysForgotten
  BY DEF IInv
<1> QED
  BY <1>1, ProfileInv, PTL

\* A reset that comes to its end has left nothing: no profile, no session and not one
\* entry in the keyring, whatever state earlier commands had left them in.
THEOREM ResetLeavesNothing ==
  Spec => [][pc = "remove" /\ pc' = "idle" /\ profile' # profile =>
               profile' = Absent /\ keyring' = Nothing /\ session' = NoConf]_vars
<1>1. IInv /\ [Next]_vars =>
        [pc = "remove" /\ pc' = "idle" /\ profile' # profile =>
           profile' = Absent /\ keyring' = Nothing /\ session' = NoConf]_vars
  BY DEF IInv, WorkInv, TraceInv, Next, LoadBegin, Migrate, Restore, Truncate, Write, Store, Open,
         ConfigureBegin, LoginBegin, LogoutBegin, ResetBegin, Delete, Remove, GiveUp, Exit
<1> QED
  BY <1>1, ProfileInv, PTL DEF Spec

\* Unless auth_configure was cut off, a session has the secrets of its own enterprise only.
THEOREM SecretsAreAlwaysOwn == Spec => []OwnSecrets
<1>1. IInv => OwnSecrets
  BY DEF IInv
<1> QED
  BY <1>1, ProfileInv, PTL
=============================================================================
