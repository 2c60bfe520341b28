----------------------------- MODULE OutboundProxy -----------------------------
(***************************************************************************)
(* The proxy through which the program reaches GitHub: the setting in      *)
(* proxy-config.json (src/store/proxy_config.go), in memory                *)
(* (src/config/config.go) and in the shared HTTP clients                   *)
(* (src/instance/manager.go), and handleUpdateProxyConfig                  *)
(* (src/handler/console_api.go), which changes the three one by one.       *)
(*                                                                         *)
(* The file has no lock.  Whoever writes it truncates it first, and two who*)
(* both have truncated it write over each other: the longer text keeps its *)
(* tail, and what is left does not parse.  rebuildHTTPClients reads the    *)
(* setting and builds the clients before it takes clientMu.                *)
(***************************************************************************)

CONSTANTS
    Handlers,     \* goroutines that serve the console
    URLs,         \* proxies that may be set
    NoProxy,      \* "", no proxy
    Blank, Mixed  \* a file without content, and one that does not parse

VARIABLES
    proxyFile,    \* proxy-config.json
    proxyURL,     \* config.proxyURL
    clients,      \* the proxy of the two shared clients, replaced together
    at,           \* where handleUpdateProxyConfig is
    url,          \* what it was sent
    built,        \* the proxy of the clients it has built
    mishap,       \* whether a write failed after it had truncated the file
    overlapped,   \* whether the last update shared its time with another (history)
    unread        \* whether the program could not read the file when it started,
                  \* and no update has ended since (history)

updateVars == <<at, url, built>>
proxyVars == <<proxyFile, proxyURL, clients, updateVars, mishap, overlapped, unread>>

Settings == URLs \cup {NoProxy}

TypeOK ==
    /\ proxyFile \in Settings \cup {Blank, Mixed}
    /\ proxyURL \in Settings
    /\ clients \in Settings
    /\ at \in [Handlers -> {"none", "truncated", "written", "set", "built"}]
    /\ url \in [Handlers -> Settings]
    /\ built \in [Handlers -> Settings]
    /\ mishap \in BOOLEAN /\ overlapped \in BOOLEAN /\ unread \in BOOLEAN

NoUpdates == [h \in Handlers |-> "none"]
NoURLs == [h \in Handlers |-> NoProxy]

\* EnsurePaths has written "{}"; init() has built clients without a proxy.
Init ==
    /\ proxyFile = NoProxy /\ proxyURL = NoProxy /\ clients = NoProxy
    /\ at = NoUpdates /\ url = NoURLs /\ built = NoURLs
    /\ mishap = FALSE /\ overlapped = FALSE /\ unread = FALSE

-----------------------------------------------------------------------------
\* What does not parse is taken for no proxy.
FileSays == IF proxyFile \in {Blank, Mixed} THEN NoProxy ELSE proxyFile

\* The proxy that main gets: os.ReadFile may fail, which is no proxy too.
GetProxyConfig == {FileSays, NoProxy}

Return(h) ==
    /\ at' = [at EXCEPT ![h] = "none"]
    /\ url' = [url EXCEPT ![h] = NoProxy]
    /\ built' = [built EXCEPT ![h] = NoProxy]

(* os.WriteFile opens the file.  (If it cannot, nothing changes.)          *)
Truncate(h, u) ==
    LET crowded == \E g \in Handlers \ {h} : at[g] # "none"
    IN  /\ at[h] = "none"
        /\ proxyFile' = Blank
        /\ at' = [at EXCEPT ![h] = "truncated"]
        /\ url' = [url EXCEPT ![h] = u]
        /\ overlapped' = crowded
        /\ mishap' = (mishap /\ crowded)
        /\ UNCHANGED <<proxyURL, clients, built, unread>>

(* ... and writes from its start, perhaps over what another has written.   *)
WriteConfig(h) ==
    /\ at[h] = "truncated"
    /\ proxyFile' \in IF proxyFile \in {Blank, url[h]} THEN {url[h]} ELSE {url[h], Mixed}
    /\ at' = [at EXCEPT ![h] = "written"]
    /\ UNCHANGED <<proxyURL, clients, url, built, mishap, overlapped, unread>>

(* The handler answers 500 and leaves the setting and the clients alone.   *)
WriteFails(h) ==
    /\ at[h] = "truncated"
    /\ proxyFile' \in {proxyFile, Mixed}
    /\ mishap' = TRUE
    /\ Return(h)
    /\ UNCHANGED <<proxyURL, clients, overlapped, unread>>

(* Mutant: the setting is only set, never cleared.                         *)
SetProxyURL_IfGiven(h) ==
    /\ at[h] = "written"
    /\ proxyURL' = IF url[h] # NoProxy THEN url[h] ELSE proxyURL
    /\ at' = [at EXCEPT ![h] = "set"]
    /\ UNCHANGED <<proxyFile, clients, url, built, mishap, overlapped, unread>>

SetProxyURL(h) ==
    /\ at[h] = "written"
    /\ proxyURL' = url[h]
    /\ at' = [at EXCEPT ![h] = "set"]
    /\ UNCHANGED <<proxyFile, clients, url, built, mishap, overlapped, unread>>

(* rebuildHTTPClients: GetProxyURL and buildTransport ...                  *)
BuildClients(h) ==
    /\ at[h] = "set"
    /\ built' = [built EXCEPT ![h] = proxyURL]
    /\ at' = [at EXCEPT ![h] = "built"]
    /\ UNCHANGED <<proxyFile, proxyURL, clients, url, mishap, overlapped, unread>>

(* ... and the new clients are put in place with clientMu held.            *)
SwapClients(h) ==
    /\ at[h] = "built"
    /\ clients' = built[h]
    /\ unread' = FALSE
    /\ Return(h)
    /\ UNCHANGED <<proxyFile, proxyURL, mishap, overlapped>>

(* main: the clients are built without a proxy and, if the file could be   *)
(* read and has one, built again.                                          *)
Startup ==
    /\ \E u \in GetProxyConfig :
          /\ proxyURL' = u
          /\ clients' = u
          /\ unread' = (u # FileSays)
    /\ at' = NoUpdates /\ url' = NoURLs /\ built' = NoURLs
    /\ mishap' = FALSE /\ overlapped' = FALSE
    /\ UNCHANGED proxyFile

-----------------------------------------------------------------------------
(* Properties *)

NoUpdateUnderWay == \A h \in Handlers : at[h] = "none"

(* Between updates the shared clients and the setting that clients made for*)
(* one call use name one proxy, after restarts in the middle of an update  *)
(* too - unless a write has failed or the last update shared its time with *)
(* another.  It is that of the file, unless the program started without    *)
(* having been able to read it.                                            *)
ProxyInForce ==
    NoUpdateUnderWay /\ ~mishap /\ ~overlapped =>
        clients = proxyURL /\ (~unread => proxyURL = FileSays)

-----------------------------------------------------------------------------
(* What is said of every update and every start, and does not hold (the    *)
(* README has the counterexamples).                                        *)

(* "RebuildHTTPClients rebuilds the shared HTTP clients using the current  *)
(* proxy setting" (manager.go:395): that is the one they have afterwards;  *)
(* not if updates overlap.                                                 *)
ClientsFollowSetting == NoUpdateUnderWay /\ ~mishap => clients = proxyURL

(* "Load proxy config and apply to HTTP clients" (main.go:33): not if the  *)
(* file cannot be read; the program then runs without the proxy.           *)
StartAppliesTheFile == NoUpdateUnderWay /\ ~mishap /\ ~overlapped => proxyURL = FileSays
=============================================================================
