----------------------------- MODULE AdminSession -----------------------------
(***************************************************************************)
(* The administrator of the console and the sessions: src/store/admin.go,  *)
(* with handleSetup, handleLogin and adminAuthMiddleware of                *)
(* src/handler/console_api.go.                                             *)
(*                                                                         *)
(* admin.json is read and written with adminMu held, but handleSetup is    *)
(* three critical sections: may there be a setup, write the administrator, *)
(* log in.  Sessions are in memory, in a map under sessionsMu; the         *)
(* middleware removes a session that has expired with sessionsMu held for  *)
(* reading only.  Go ends a process in which it sees two goroutines in a   *)
(* map, one of them writing; no recover helps.                             *)
(*                                                                         *)
(* A user is a name and its password: whoever logs in with another password*)
(* is refused and changes nothing.  What a request does once it was        *)
(* admitted is up to its route; Console.tla is the specification.          *)
(***************************************************************************)

CONSTANTS
    Handlers,   \* goroutines that serve the console
    Users,      \* names with a password each
    Tokens,     \* session tokens (UUIDs); in TLC, the bound on those issued
    NoUser, NoToken, Torn

VARIABLES
    adminFile,  \* admin.json: its user, NoUser for "{}", Torn if it does not parse
    sessions,   \* the map of sessions
    alive,      \* whether the process runs
    pc,         \* where a handler is
    cred,       \* the user its request names
    tok,        \* the token it presents
    issuedTo,   \* for whom a token was issued (history)
    rivals,     \* whether two setups have passed their check together (history)
    misread     \* whether admin.json could not be read for a check (history)

handlerVars == <<pc, cred, tok>>
adminVars == <<adminFile, sessions, alive, handlerVars, issuedTo, rivals, misread>>

TypeOK ==
    /\ adminFile \in Users \cup {NoUser, Torn}
    /\ sessions \in [Tokens -> {"none", "live", "expired"}]
    /\ alive \in BOOLEAN
    /\ pc \in [Handlers -> {"idle", "checked", "written", "looking", "deleting", "admitted"}]
    /\ cred \in [Handlers -> Users \cup {NoUser}]
    /\ tok \in [Handlers -> Tokens \cup {NoToken}]
    /\ issuedTo \in [Tokens -> Users \cup {NoUser}]
    /\ rivals \in BOOLEAN /\ misread \in BOOLEAN

NoSessions == [t \in Tokens |-> "none"]
AllIdle == [h \in Handlers |-> "idle"]
NoCreds == [h \in Handlers |-> NoUser]
NoToks == [h \in Handlers |-> NoToken]

\* EnsurePaths has written "{}".
Init ==
    /\ adminFile = NoUser
    /\ sessions = NoSessions
    /\ alive = TRUE
    /\ pc = AllIdle /\ cred = NoCreds /\ tok = NoToks
    /\ issuedTo = [t \in Tokens |-> NoUser]
    /\ rivals = FALSE /\ misread = FALSE

-----------------------------------------------------------------------------
(* The answer is written and the handler returns.                          *)
Return(h) ==
    /\ pc' = [pc EXCEPT ![h] = "idle"]
    /\ cred' = [cred EXCEPT ![h] = NoUser]
    /\ tok' = [tok EXCEPT ![h] = NoToken]

(* Mutant: an administrator may be set up again.                           *)
IsSetupRequired_Always == TRUE

(* A missing, empty or unreadable file means that nobody is set up.        *)
IsSetupRequired == adminFile \in {NoUser, Torn}

(* handleSetup asks; without an error it only goes on if it must.  A file  *)
(* that could not be opened counts as missing.                             *)
SetupCheck(h, u) ==
    /\ pc[h] = "idle"
    /\ \/ IsSetupRequired /\ UNCHANGED misread
       \/ misread' = TRUE
    /\ pc' = [pc EXCEPT ![h] = "checked"]
    /\ cred' = [cred EXCEPT ![h] = u]
    /\ rivals' = (rivals \/ \E g \in Handlers : pc[g] = "checked")
    /\ UNCHANGED <<adminFile, sessions, alive, tok, issuedTo>>

SetupAdmin(h) ==
    /\ pc[h] = "checked"
    /\ adminFile' = cred[h]
    /\ pc' = [pc EXCEPT ![h] = "written"]
    /\ UNCHANGED <<sessions, alive, cred, tok, issuedTo, rivals, misread>>

(* The password is too long for bcrypt, or the file cannot be opened, or   *)
(* it is truncated and not written.                                        *)
SetupFails(h) ==
    /\ pc[h] = "checked"
    /\ adminFile' \in {adminFile, Torn}
    /\ Return(h)
    /\ UNCHANGED <<sessions, alive, issuedTo, rivals, misread>>

(* LoginAdmin: admin.json names this user, and with sessionsMu held a      *)
(* session is made for a new token.                                        *)
Insert(h, u, t) ==
    /\ adminFile = u
    /\ issuedTo[t] = NoUser
    /\ \A g \in Handlers : pc[g] # "deleting"
    /\ sessions' = [sessions EXCEPT ![t] = "live"]
    /\ issuedTo' = [issuedTo EXCEPT ![t] = u]
    /\ UNCHANGED alive

(* handleLogin; a login that is refused changes nothing.                   *)
Login(h, u, t) ==
    /\ pc[h] = "idle"
    /\ Insert(h, u, t)
    /\ UNCHANGED <<adminFile, handlerVars, rivals, misread>>

SetupLogin(h, t) ==
    /\ pc[h] = "written"
    /\ Insert(h, cred[h], t)
    /\ Return(h)
    /\ UNCHANGED <<adminFile, rivals, misread>>

(* The administrator is already another, or the file cannot be read.       *)
SetupLoginFails(h) ==
    /\ pc[h] = "written"
    /\ Return(h)
    /\ UNCHANGED <<adminFile, sessions, alive, issuedTo, rivals, misread>>

-----------------------------------------------------------------------------
(* adminAuthMiddleware *)

\* Another goroutine is removing a session from the map.
Removal(h) == \E g \in Handlers \ {h} : pc[g] = "deleting"

\* What ValidateSession finds.
Outcome(t) ==
    CASE sessions[t] = "live" -> "admitted"
      [] sessions[t] = "expired" -> "deleting"
      [] sessions[t] = "none" -> "idle"

(* The token is looked up, and if its session has expired, its removal     *)
(* begins.  Tokens that were never issued are refused like removed ones.   *)
ValidateSession(h, t) ==
    /\ pc[h] = "idle"
    /\ issuedTo[t] # NoUser
    /\ pc' = [pc EXCEPT ![h] = Outcome(t)]
    /\ tok' = [tok EXCEPT ![h] = IF Outcome(t) = "idle" THEN NoToken ELSE t]
    /\ UNCHANGED <<adminFile, sessions, alive, cred, issuedTo, rivals, misread>>

(* It is looked up, or removed, while another session is being removed: the*)
(* runtime may notice, "fatal error: concurrent map read and map write".   *)
FatalError(h, t) ==
    /\ pc[h] = "idle"
    /\ issuedTo[t] # NoUser
    /\ Removal(h)
    /\ alive' = FALSE
    /\ pc' = [pc EXCEPT ![h] = "looking"]
    /\ tok' = [tok EXCEPT ![h] = t]
    /\ UNCHANGED <<adminFile, sessions, cred, issuedTo, rivals, misread>>

SessionRemoved(h) ==
    /\ pc[h] = "deleting"
    /\ sessions' = [sessions EXCEPT ![tok[h]] = "none"]
    /\ Return(h)
    /\ UNCHANGED <<adminFile, alive, issuedTo, rivals, misread>>

(* The route's handler returns.                                            *)
Finish(h) ==
    /\ pc[h] = "admitted"
    /\ Return(h)
    /\ UNCHANGED <<adminFile, sessions, alive, issuedTo, rivals, misread>>

Unprotected(h) ==
    \/ \E u \in Users : SetupCheck(h, u)
    \/ SetupAdmin(h) \/ SetupFails(h) \/ SetupLoginFails(h)
    \/ \E t \in Tokens : SetupLogin(h, t) \/ \E u \in Users : Login(h, u, t)

Middleware(h) ==
    \/ \E t \in Tokens : ValidateSession(h, t) \/ FatalError(h, t)
    \/ SessionRemoved(h)

-----------------------------------------------------------------------------
(* Seven days after the login.                                             *)
Expire(t) ==
    /\ sessions[t] = "live"
    /\ sessions' = [sessions EXCEPT ![t] = "expired"]
    /\ UNCHANGED <<adminFile, alive, handlerVars, issuedTo, rivals, misread>>

(* The process has died, or is ended, and starts again.                    *)
Restart ==
    /\ alive' = TRUE
    /\ sessions' = NoSessions
    /\ pc' = AllIdle /\ cred' = NoCreds /\ tok' = NoToks
    /\ rivals' = FALSE /\ misread' = FALSE
    /\ UNCHANGED <<adminFile, issuedTo>>

-----------------------------------------------------------------------------
(* Properties *)

(* Whoever is let in is the administrator: a session is that of the user in*)
(* admin.json, and so is every request under way, whatever writes failed   *)
(* and whenever the process died - unless two setups passed the check      *)
(* together or the check could not read the file.                          *)
SessionsAreTheAdmins ==
    ~rivals /\ ~misread =>
        /\ \A t \in Tokens : sessions[t] = "live" => issuedTo[t] = adminFile
        /\ \A h \in Handlers : pc[h] = "admitted" => issuedTo[tok[h]] = adminFile

-----------------------------------------------------------------------------
(* What the code says of setups and sessions, and does not hold (the README*)
(* has the counterexamples).                                               *)

(* "admin already configured" (console_api.go:153): who has been set up is *)
(* not set up over.                                                        *)
AdminStays ==
    [][(adminFile \in Users) => (adminFile' = adminFile)]_adminVars
=============================================================================
