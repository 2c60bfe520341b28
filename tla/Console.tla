------------------------------- MODULE Console -------------------------------
(***************************************************************************)
(* The console server: RegisterConsoleAPI of src/handler/console_api.go and*)
(* its start in src/main.go.  AdminSession.tla is who gets in,             *)
(* OutboundProxy.tla one of the routes behind the middleware, composed as  *)
(* the server runs them: a handler is a goroutine that updates the setting *)
(* only after the middleware has admitted its request, and a process that  *)
(* dies of its sessions dies in the middle of the updates too.             *)
(*                                                                         *)
(* The other routes behind the middleware are begun and ended here without *)
(* effect; their modules let them happen at any time.                      *)
(***************************************************************************)
CONSTANTS
    Handlers, Users, Tokens, NoUser, NoToken, Torn,
    URLs, NoProxy, Blank, Mixed

ASSUME ConsoleAssumption ==
    /\ NoUser \notin Users /\ Torn \notin Users /\ NoUser # Torn
    /\ NoToken \notin Tokens
    /\ NoProxy \notin URLs
    /\ {Blank, Mixed} \cap (URLs \cup {NoProxy}) = {} /\ Blank # Mixed

VARIABLES
    adminFile, sessions, alive, pc, cred, tok, issuedTo, rivals, misread,
    proxyFile, proxyURL, clients, at, url, built, mishap, overlapped, unread

Admin == INSTANCE AdminSession
Outbound == INSTANCE OutboundProxy

adminVars == <<adminFile, sessions, alive, pc, cred, tok, issuedTo, rivals, misread>>
outboundVars == <<proxyFile, proxyURL, clients, at, url, built, mishap, overlapped, unread>>
vars == <<adminVars, outboundVars>>

TypeOK == Admin!TypeOK /\ Outbound!TypeOK

Init == Admin!Init /\ Outbound!Init

-----------------------------------------------------------------------------
(* handleSetup, handleLogin and the middleware, from the first check of a  *)
(* request to the call of the next handler.                                *)
Authenticate(h) ==
    /\ Admin!Unprotected(h) \/ Admin!Middleware(h)
    /\ UNCHANGED outboundVars

(* handleUpdateProxyConfig, once the request is admitted.                  *)
UpdateBegins(h) ==
    /\ pc[h] = "admitted"
    /\ \E u \in URLs \cup {NoProxy} : Outbound!Truncate(h, u)
    /\ UNCHANGED adminVars

UpdateGoesOn(h) ==
    /\ Outbound!WriteConfig(h) \/ Outbound!SetProxyURL(h) \/ Outbound!BuildClients(h)
    /\ UNCHANGED adminVars

UpdateEnds(h) ==
    /\ Outbound!SwapClients(h) \/ Outbound!WriteFails(h)
    /\ Admin!Finish(h)

(* Another route, or an update that was refused.                           *)
OtherRoute(h) ==
    /\ at[h] = "none"
    /\ Admin!Finish(h)
    /\ UNCHANGED outboundVars

SessionExpires ==
    /\ \E t \in Tokens : Admin!Expire(t)
    /\ UNCHANGED outboundVars

Restart == Admin!Restart /\ Outbound!Startup

Next ==
    \/ /\ alive
       /\ \E h \in Handlers :
             Authenticate(h) \/ UpdateBegins(h) \/ UpdateGoesOn(h) \/ UpdateEnds(h) \/ OtherRoute(h)
    \/ alive /\ SessionExpires
    \/ Restart

Spec == Init /\ [][Next]_vars

-----------------------------------------------------------------------------
(* Properties *)

(* Of the composition: whoever is let in is the administrator, also in the *)
(* middle of an update of the proxy (adminAuthMiddleware,                  *)
(* console_api.go:122).                                                    *)
SessionsAreTheAdmins == Admin!SessionsAreTheAdmins

(* Of the composition: file, setting and clients agree between updates,    *)
(* although the process may die of its sessions in the middle of any       *)
(* (console_api.go:630).                                                   *)
ProxyInForce == Outbound!ProxyInForce

-----------------------------------------------------------------------------
(* What is said of setups, updates and starts, and does not hold (the      *)
(* README has the counterexamples).                                        *)

(* "admin already configured" (console_api.go:153).                        *)
AdminStays == Admin!AdminStays

(* "using the current proxy setting" (manager.go:395).                     *)
ClientsFollowSetting == Outbound!ClientsFollowSetting

(* "Load proxy config and apply to HTTP clients" (main.go:33).             *)
StartAppliesTheFile == Outbound!StartAppliesTheFile
=============================================================================
