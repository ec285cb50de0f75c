---------------------------- MODULE Credentials ----------------------------
(***************************************************************************)
(* The OAuth credential of one MCP server: oauthStore with its generation  *)
(* (logouts) and epoch (logins and retirements), the token sources of the  *)
(* connections that refresh it, the login task that replaces it and takes  *)
(* its own back when it is cancelled, and the settings that log out or     *)
(* withdraw the server.                                                    *)
(*                                                                         *)
(* A credential is the number of the login it stems from; 0 is none.       *)
(* Every use of oauthStore.mu is a step, and so is a wait for the server.  *)
(***************************************************************************)
EXTENDS FiniteSets, Naturals

CONSTANTS Conns,      \* connections to the server
          MaxLogins,  \* bound: logins, the one saved at the start included
          MaxEpoch    \* bound: changes of the epoch

VARIABLES
  saved,    \* the credential store.read finds on disk
  memory,   \* oauthStore.memory: found before the one on disk
  revoked,  \* oauthStore.revoked: the one on disk is not looked at
  generation, epoch,  \* oauthStore
  lock,     \* oauthStore.refreshMu: the mutex of the server, or 0
  conn,     \* [Conns -> a connection's token source and where it is]
  task,     \* the login task
  logins,   \* logins so far
  removal   \* a withdrawal of the server: "none", "retired", "written"

credVars == <<saved, memory, revoked, generation, epoch, lock, conn, task,
              logins, removal>>
storeVars == <<saved, memory, revoked, generation, epoch, lock>>

NoConn == [at |-> "out", version |-> 0, epoch |-> 0, record |-> 0, mutex |-> 0]
NoTask == [at |-> "none", prior |-> 0, version |-> 0, epoch |-> 0,
           issued |-> FALSE, cancelled |-> FALSE]
Held == {"checking", "reading", "asking"}

TypeOK ==
  /\ saved \in 0..MaxLogins /\ memory \in 0..MaxLogins /\ revoked \in BOOLEAN
  /\ generation \in 0..1 /\ epoch \in 0..MaxEpoch
  /\ lock \in 0..Cardinality(Conns) + 1
  /\ \A c \in Conns : conn[c].record \in 0..MaxLogins
  /\ task.prior \in 0..MaxLogins /\ logins \in 1..MaxLogins
  /\ removal \in {"none", "retired", "written"}

Init ==
  /\ saved = 1 /\ memory = 0 /\ revoked = FALSE
  /\ generation = 0 /\ epoch = 0 /\ lock = 0
  /\ conn = [c \in Conns |-> NoConn]
  /\ task = NoTask
  /\ logins = 1
  /\ removal = "none"

Read == IF memory /= 0 THEN memory ELSE IF revoked THEN 0 ELSE saved

\* Saved on disk first; what memory had is dropped then.
Save(r) == saved' = r /\ memory' = 0 /\ revoked' = FALSE
Drop == saved' = 0 /\ memory' = 0 /\ revoked' = TRUE /\ lock' = 0

-----------------------------------------------------------------------------
(* The token source of a connection.                                       *)

Set(c, r) == conn' = [conn EXCEPT ![c] = r]

\* credentialHandler: the generation, the credential and, after the server
\* was asked about its authorization, the epoch.
HandlerVersion(c) ==
  /\ conn[c].at = "out" /\ removal /= "written"
  /\ Set(c, [NoConn EXCEPT !.at = "opening", !.version = generation])
  /\ UNCHANGED <<storeVars, task, logins, removal>>

HandlerRecord(c) ==
  /\ conn[c].at = "opening"
  /\ Set(c, IF Read = 0 THEN NoConn
            ELSE [conn[c] EXCEPT !.at = "found", !.record = Read])
  /\ UNCHANGED <<storeVars, task, logins, removal>>

HandlerEpoch(c) ==
  /\ conn[c].at = "found"
  /\ Set(c, [conn[c] EXCEPT !.at = "ready", !.epoch = epoch])
  /\ UNCHANGED <<storeVars, task, logins, removal>>

\* The access token has expired or was refused: the source takes the mutex
\* of its server, a new one if there is none.
FreshLock == CHOOSE l \in 1..Cardinality(Conns) + 1 :
               \A c \in Conns : conn[c].mutex /= l

Expire(c) ==
  /\ conn[c].at = "ready"
  /\ IF conn[c].version /= generation
     THEN Set(c, NoConn) /\ UNCHANGED lock
     ELSE LET l == IF lock = 0 THEN FreshLock ELSE lock IN
          /\ lock' = l
          /\ Set(c, [conn[c] EXCEPT !.at = "locking", !.mutex = l])
  /\ UNCHANGED <<saved, memory, revoked, generation, epoch, task, logins, removal>>

Lock(c) ==
  /\ conn[c].at = "locking"
  /\ \A d \in Conns : ~(conn[d].at \in Held /\ conn[d].mutex = conn[c].mutex)
  /\ Set(c, IF conn[c].version /= generation THEN NoConn
            ELSE [conn[c] EXCEPT !.at = IF conn[c].epoch = epoch
                                        THEN "reading" ELSE "asking"])
  /\ UNCHANGED <<storeVars, task, logins, removal>>

Unlocked(c, r) == [conn[c] EXCEPT !.at = "ready", !.mutex = 0, !.record = r]

\* A newer credential of its own epoch is taken over; a valid one is used.
ReadLatest(c) ==
  /\ conn[c].at = "reading"
  /\ \/ Read /= 0 /\ Set(c, Unlocked(c, Read))
     \/ Set(c, [conn[c] EXCEPT !.at = "asking",
                               !.record = IF Read = 0 THEN @ ELSE Read])
  /\ UNCHANGED <<storeVars, task, logins, removal>>

\* The server answers: refused, or with a new token that is saved unless a
\* login or a retirement came between; if the disk fails memory keeps it.
MaySave_Always(c) == TRUE
MaySave(c) == conn[c].epoch = epoch

StillIn_Never(c) == TRUE
StillIn(c) == conn[c].version = generation

Answer(c) ==
  LET r == conn[c].record IN
  /\ conn[c].at = "asking"
  /\ \/ Set(c, Unlocked(c, r)) /\ UNCHANGED <<saved, memory, revoked>>
     \/ /\ ~StillIn(c)
        /\ Set(c, NoConn)
        /\ UNCHANGED <<saved, memory, revoked>>
     \/ /\ StillIn(c)
        /\ Set(c, Unlocked(c, r))
        /\ IF ~MaySave(c) THEN UNCHANGED <<saved, memory, revoked>>
           ELSE \/ Save(r)
                \/ memory' = r /\ UNCHANGED <<saved, revoked>>
  /\ UNCHANGED <<generation, epoch, lock, task, logins, removal>>

Disconnect(c) ==
  /\ conn[c].at = "ready"
  /\ Set(c, NoConn)
  /\ UNCHANGED <<storeVars, task, logins, removal>>

-----------------------------------------------------------------------------
(* The login task.                                                         *)

\* runOAuth remembers what it may have to put back, then the generation.
StartLogin ==
  /\ task.at = "none" /\ removal /= "written"
  /\ task' = [NoTask EXCEPT !.at = "starting", !.prior = Read]
  /\ UNCHANGED <<storeVars, conn, logins, removal>>

LoginVersion ==
  /\ task.at = "starting"
  /\ task' = [task EXCEPT !.at = "waiting", !.version = generation]
  /\ UNCHANGED <<storeVars, conn, logins, removal>>

\* The user came back with a code: nothing was cancelled, logged out or
\* changed meanwhile.  Otherwise, or when the login fails, the task ends.
LoginAnswered ==
  /\ task.at = "waiting"
  /\ \/ /\ ~task.cancelled /\ task.version = generation /\ removal /= "written"
        /\ task' = [task EXCEPT !.at = "issuing"]
     \/ task' = [task EXCEPT !.at = "leaving"]
  /\ UNCHANGED <<storeVars, conn, logins, removal>>

Issue ==
  /\ task.at = "issuing"
  /\ \/ /\ task.version = generation /\ logins < MaxLogins /\ epoch < MaxEpoch
        /\ Save(logins + 1)
        /\ logins' = logins + 1
        /\ epoch' = epoch + 1
        /\ task' = [task EXCEPT !.at = "checking", !.issued = TRUE,
                                !.epoch = epoch + 1]
     \/ /\ task' = [task EXCEPT !.at = "leaving"]
        /\ UNCHANGED <<saved, memory, revoked, logins, epoch>>
  /\ UNCHANGED <<generation, lock, conn, removal>>

\* Logged out or changed meanwhile: a changed server keeps no credential.
LoginChecked ==
  /\ task.at = "checking"
  /\ IF task.version = generation /\ removal = "written" /\ epoch = task.epoch
     THEN /\ epoch < MaxEpoch
          /\ Drop /\ epoch' = epoch + 1
          /\ UNCHANGED generation
     ELSE UNCHANGED storeVars
  /\ task' = [task EXCEPT !.at = IF task.version = generation /\ removal /= "written"
                                 THEN "connecting" ELSE "leaving"]
  /\ UNCHANGED <<conn, logins, removal>>

\* The server is connected again with the new credential, or is not.
LoginConnects ==
  /\ task.at = "connecting"
  /\ \/ ~task.cancelled /\ task' = NoTask
     \/ task' = [task EXCEPT !.at = "leaving"]
  /\ UNCHANGED <<storeVars, conn, logins, removal>>

\* The deferred end of runOAuth: a cancelled login that had saved its
\* credential takes it back, and puts the one before in its place.
PutsBack_Always == task.cancelled /\ task.issued
PutsBack == task.cancelled /\ task.issued /\ epoch = task.epoch

LoginLeaves ==
  /\ task.at = "leaving"
  /\ task' = NoTask
  /\ IF ~PutsBack THEN UNCHANGED storeVars
     ELSE /\ epoch < MaxEpoch
          /\ epoch' = epoch + 1
          /\ IF task.prior /= 0 /\ task.version = generation
             THEN Save(task.prior) /\ UNCHANGED lock
             ELSE Drop
          /\ UNCHANGED generation
  /\ UNCHANGED <<conn, logins, removal>>

CancelLogin ==
  /\ task.at /= "none" /\ ~task.cancelled
  /\ task' = [task EXCEPT !.cancelled = TRUE]
  /\ UNCHANGED <<storeVars, conn, logins, removal>>

-----------------------------------------------------------------------------
(* The settings.                                                           *)

\* LogoutOAuth: the tasks are cancelled, the credential and its mutex go,
\* and what was opened before is of an older generation.
Logout ==
  /\ generation = 0 /\ removal = "none"
  /\ task' = [task EXCEPT !.cancelled = task.at /= "none"]
  /\ Drop
  /\ generation' = 1
  /\ UNCHANGED <<epoch, conn, logins, removal>>

\* Save or Delete of the server: the tasks are cancelled and the credential
\* retired before the configuration is written; runs keep their connections.
Retire ==
  /\ removal = "none" /\ epoch < MaxEpoch
  /\ removal' = "retired"
  /\ task' = [task EXCEPT !.cancelled = task.at /= "none"]
  /\ Drop
  /\ epoch' = epoch + 1
  /\ UNCHANGED <<generation, conn, logins>>

WriteConfig ==
  /\ removal = "retired"
  /\ removal' = "written"
  /\ UNCHANGED <<storeVars, conn, task, logins>>

ConnStep(c) == \/ HandlerRecord(c) \/ HandlerEpoch(c) \/ Expire(c) \/ Lock(c)
               \/ ReadLatest(c) \/ Answer(c)

Next == \/ \E c \in Conns : HandlerVersion(c) \/ ConnStep(c) \/ Disconnect(c)
        \/ StartLogin \/ LoginVersion \/ LoginAnswered \/ Issue \/ LoginChecked
        \/ LoginConnects \/ LoginLeaves \/ CancelLogin
        \/ Logout \/ Retire \/ WriteConfig

Spec == Init /\ [][Next]_credVars

-----------------------------------------------------------------------------
(* Properties.                                                             *)

\* What a login has issued is replaced by a newer login, taken back when it
\* is cancelled, or removed with the server: no refresh of an older
\* connection puts an older credential over it (oauth_store.go:160-176).
NewLoginStays ==
  Read' < Read => Read' = 0 \/ (task.at = "leaving" /\ task'.at = "none")

\* A token leaves its source only in the generation it was opened in: after
\* a logout no connection goes on refreshing (oauth_credential.go:117-139,
\* 191-196).
LoggedOutIsOut ==
  \A c \in Conns : conn[c].at = "asking" /\ conn'[c].at = "ready" /\ Read' /= Read
    => conn[c].version = generation
=============================================================================
