------------------------------ MODULE PoolConfig ------------------------------
(***************************************************************************)
(* The settings of the pool: pool-config.json (src/store/account.go), the  *)
(* console's handlers that change them (src/handler/console_api.go) and the*)
(* rate they set in the rate limiter.                                      *)
(*                                                                         *)
(* handleUpdatePool reads the settings, merges what the console sent into  *)
(* them, writes them and tells the rate limiter.  poolMu is held for the   *)
(* read and for the write, each by itself.  handleRegeneratePoolKey reads, *)
(* sets a new key and writes with poolMu held, then reads once more for its*)
(* answer.  A write that fails leaves a file that does not parse, which    *)
(* GetPoolConfig takes for the defaults; so it does with a read that fails.*)
(*                                                                         *)
(* When the program starts (src/main.go), the console may serve before the *)
(* proxy has read the settings and set the rate (src/handler/proxy.go).    *)
(*                                                                         *)
(* The strategy is one more field that updates merge; it is left out.      *)
(***************************************************************************)
EXTENDS Naturals

CONSTANTS
    Consoles,   \* goroutines of the console's handlers
    PoolKeys,   \* generated pool keys; in TLC, the bound on those generated
    RPMs,       \* rates the console may set
    NoKey, Keep, TornPool

ASSUME PoolConfigAssumption ==
    /\ NoKey \notin PoolKeys
    /\ RPMs \subseteq Nat
    /\ Keep \notin RPMs /\ Keep \notin BOOLEAN

Config == [enabled : BOOLEAN, key : PoolKeys \cup {NoKey}, rpm : RPMs \cup {0}]
Update == [enabled : BOOLEAN \cup {Keep}, rpm : RPMs \cup {Keep}]

Default == [enabled |-> FALSE, key |-> NoKey, rpm |-> 0]

ASSUME TornAssumption == TornPool \notin Config

VARIABLES
    poolFile,        \* pool-config.json
    perAccountRPM,   \* the rate limiter's rate for accounts
    consolePc,       \* where a console's handler is
    update,          \* what the console sent
    existing,        \* the settings handleUpdatePool has read and merged
    generated,       \* keys generated so far (history)
    poolMishap,      \* whether a write has failed since the program started
    proxyPc,         \* where RegisterProxy is
    startRPM,        \* the rate it has read
    overlapped,      \* whether the last update shared its time with another
                     \* handler or with RegisterProxy (history)
    updateMisread,   \* whether the read of the last update failed (history)
    startMisread     \* whether that of RegisterProxy failed, and no update has
                     \* set the rate since (history)

consoleVars == <<consolePc, update, existing>>
proxyVars == <<proxyPc, startRPM>>
poolHistory == <<generated, poolMishap, overlapped, updateMisread, startMisread>>
poolVars == <<poolFile, perAccountRPM, consoleVars, proxyVars, poolHistory>>

PoolTypeOK ==
    /\ poolFile \in Config \cup {TornPool}
    /\ perAccountRPM \in RPMs \cup {0}
    /\ consolePc \in [Consoles -> {"idle", "merged", "written", "regenerated"}]
    /\ update \in [Consoles -> Update]
    /\ existing \in [Consoles -> Config]
    /\ generated \in SUBSET PoolKeys
    /\ poolMishap \in BOOLEAN
    /\ proxyPc \in {"starting", "read", "serving"}
    /\ startRPM \in RPMs \cup {0}
    /\ overlapped \in BOOLEAN
    /\ updateMisread \in BOOLEAN
    /\ startMisread \in BOOLEAN

NoUpdate == [enabled |-> Keep, rpm |-> Keep]

\* EnsurePaths has written "{}".
PoolInit ==
    /\ poolFile = Default
    /\ perAccountRPM = 0
    /\ consolePc = [c \in Consoles |-> "idle"]
    /\ update = [c \in Consoles |-> NoUpdate]
    /\ existing = [c \in Consoles |-> Default]
    /\ generated = {}
    /\ poolMishap = FALSE
    /\ proxyPc = "starting"
    /\ startRPM = 0
    /\ overlapped = FALSE
    /\ updateMisread = FALSE
    /\ startMisread = FALSE

-----------------------------------------------------------------------------
\* What the file says.
PoolSettings == IF poolFile = TornPool THEN Default ELSE poolFile

\* What a reader may get: os.ReadFile may fail.
GetPoolConfig == {PoolSettings, Default}

\* Another console's handler is under way, or the rate about to be set.
Crowded(c) == proxyPc = "read" \/ \E d \in Consoles \ {c} : consolePc[d] # "idle"

Done(c) ==
    /\ consolePc' = [consolePc EXCEPT ![c] = "idle"]
    /\ update' = [update EXCEPT ![c] = NoUpdate]
    /\ existing' = [existing EXCEPT ![c] = Default]

Field(sent, old) == IF sent = Keep THEN old ELSE sent

\* Mutant: it is the pool as it was that must be enabled.
NeedsKey_Before(cfg, u) == cfg.enabled /\ cfg.key = NoKey

\* "Generate a key if pool is being enabled and has no key yet"
NeedsKey(cfg, u) == Field(u.enabled, cfg.enabled) /\ cfg.key = NoKey

\* The settings after an update; k is the key that was generated, if any.
Merged(cfg, u, k) ==
    [enabled |-> Field(u.enabled, cfg.enabled),
     key |-> IF NeedsKey(cfg, u) THEN k ELSE cfg.key,
     rpm |-> Field(u.rpm, cfg.rpm)]

(* Mutant: the update is merged into the defaults.                         *)
ReadAndMerge_Unread(c, u, k) ==
    /\ consolePc[c] = "idle"
    /\ k \notin generated
    /\ existing' = [existing EXCEPT ![c] = Merged(Default, u, k)]
    /\ generated' = generated \cup {k}
    /\ update' = [update EXCEPT ![c] = u]
    /\ consolePc' = [consolePc EXCEPT ![c] = "merged"]
    /\ overlapped' = Crowded(c)
    /\ updateMisread' = FALSE
    /\ UNCHANGED <<poolFile, perAccountRPM, proxyVars, poolMishap, startMisread>>

(* handleUpdatePool up to its call of UpdatePoolConfig.                    *)
ReadAndMerge(c, u, k) ==
    /\ consolePc[c] = "idle"
    /\ \E cfg \in GetPoolConfig :
          /\ IF NeedsKey(cfg, u)
               THEN k \notin generated /\ generated' = generated \cup {k}
               ELSE UNCHANGED generated
          /\ existing' = [existing EXCEPT ![c] = Merged(cfg, u, k)]
          /\ updateMisread' = (cfg # PoolSettings)
    /\ update' = [update EXCEPT ![c] = u]
    /\ consolePc' = [consolePc EXCEPT ![c] = "merged"]
    /\ overlapped' = Crowded(c)
    /\ UNCHANGED <<poolFile, perAccountRPM, proxyVars, poolMishap, startMisread>>

(* UpdatePoolConfig: the settings are written whole.                       *)
UpdatePoolConfig(c) ==
    /\ consolePc[c] = "merged"
    /\ poolFile' = existing[c]
    /\ consolePc' = [consolePc EXCEPT ![c] = "written"]
    /\ UNCHANGED <<perAccountRPM, update, existing, proxyVars, poolHistory>>

(* It fails: a file that could not be opened is as before, one that could  *)
(* is torn.  The rate limiter is not told.                                 *)
UpdateFails(c) ==
    /\ consolePc[c] = "merged"
    /\ poolFile' \in {poolFile, TornPool}
    /\ poolMishap' = TRUE
    /\ Done(c)
    /\ UNCHANGED <<perAccountRPM, proxyVars, generated, overlapped, updateMisread, startMisread>>

(* Mutant: the rate is only set for an enabled pool.                       *)
SyncRate_IfEnabled(c) ==
    /\ consolePc[c] = "written"
    /\ perAccountRPM' = IF existing[c].enabled THEN existing[c].rpm ELSE perAccountRPM
    /\ startMisread' = FALSE
    /\ Done(c)
    /\ UNCHANGED <<poolFile, proxyVars, generated, poolMishap, overlapped, updateMisread>>

(* SetPerAccountRPM, and the answer.                                       *)
SyncRate(c) ==
    /\ consolePc[c] = "written"
    /\ perAccountRPM' = existing[c].rpm
    /\ startMisread' = FALSE
    /\ Done(c)
    /\ UNCHANGED <<poolFile, proxyVars, generated, poolMishap, overlapped, updateMisread>>

(* RegeneratePoolApiKey; it gives up on a file that does not parse or      *)
(* cannot be read.                                                         *)
RegenerateKey(c, k) ==
    /\ consolePc[c] = "idle"
    /\ poolFile # TornPool
    /\ k \notin generated
    /\ poolFile' = [poolFile EXCEPT !.key = k]
    /\ generated' = generated \cup {k}
    /\ consolePc' = [consolePc EXCEPT ![c] = "regenerated"]
    /\ overlapped' = (overlapped \/ Crowded(c))
    /\ UNCHANGED <<perAccountRPM, update, existing, proxyVars, poolMishap, updateMisread, startMisread>>

RegenerateFails(c) ==
    /\ consolePc[c] = "idle"
    /\ poolFile # TornPool
    /\ poolFile' = TornPool
    /\ poolMishap' = TRUE
    /\ overlapped' = (overlapped \/ Crowded(c))
    /\ UNCHANGED <<perAccountRPM, consoleVars, proxyVars, generated, updateMisread, startMisread>>

(* handleRegeneratePoolKey reads the settings again and answers with them. *)
RegenerateReply(c) ==
    /\ consolePc[c] = "regenerated"
    /\ Done(c)
    /\ UNCHANGED <<poolFile, perAccountRPM, proxyVars, poolHistory>>

(* RegisterProxy reads the settings, ...                                   *)
StartRead ==
    /\ proxyPc = "starting"
    /\ proxyPc' = "read"
    /\ \E cfg \in GetPoolConfig :
          /\ startRPM' = cfg.rpm
          /\ startMisread' = (cfg # PoolSettings)
    /\ overlapped' = (overlapped \/ \E c \in Consoles : consolePc[c] # "idle")
    /\ UNCHANGED <<poolFile, perAccountRPM, consoleVars, generated, poolMishap, updateMisread>>

(* ... and sets the rate.                                                  *)
StartSync ==
    /\ proxyPc = "read"
    /\ proxyPc' = "serving"
    /\ perAccountRPM' = startRPM
    /\ startRPM' = 0
    /\ UNCHANGED <<poolFile, consoleVars, poolHistory>>

(* The process ends, perhaps in the middle, and starts again.  (A crash in *)
(* a write is a write that fails and then a crash.)                        *)
PoolRestart ==
    /\ perAccountRPM' = 0
    /\ consolePc' = [c \in Consoles |-> "idle"]
    /\ update' = [c \in Consoles |-> NoUpdate]
    /\ existing' = [c \in Consoles |-> Default]
    /\ proxyPc' = "starting"
    /\ startRPM' = 0
    /\ poolMishap' = FALSE
    /\ overlapped' = FALSE
    /\ updateMisread' = FALSE
    /\ startMisread' = FALSE
    /\ UNCHANGED <<poolFile, generated>>

PoolNext ==
    \/ \E c \in Consoles :
          \/ \E u \in Update, k \in PoolKeys : ReadAndMerge(c, u, k)
          \/ UpdatePoolConfig(c) \/ UpdateFails(c) \/ SyncRate(c)
          \/ \E k \in PoolKeys : RegenerateKey(c, k)
          \/ RegenerateFails(c) \/ RegenerateReply(c)
    \/ StartRead \/ StartSync
    \/ PoolRestart

PoolSpec == PoolInit /\ [][PoolNext]_poolVars

-----------------------------------------------------------------------------
(* Properties *)

(* An enabled pool has a key, whatever updates, new keys, failed reads and *)
(* writes and restarts come together: proxyAuth compares the key of an     *)
(* enabled pool.                                                           *)
EnabledHasKey == PoolSettings.enabled => PoolSettings.key # NoKey

Quiet == proxyPc = "serving" /\ \A c \in Consoles : consolePc[c] \in {"idle", "regenerated"}

(* "Sync per-account rate limiter" (console_api.go:496): between changes   *)
(* the limiter has the rate of the settings, unless a write has failed, the*)
(* last update shared its time with another handler or with the start of   *)
(* the proxy, or the start could not read the settings.                    *)
LimiterFollowsSettings ==
    Quiet /\ ~poolMishap /\ ~overlapped /\ ~startMisread => perAccountRPM = PoolSettings.rpm

\* What c's update does not mention, and a key, are the same after its write.
Merges(c) ==
    /\ update[c].enabled = Keep => PoolSettings'.enabled = PoolSettings.enabled
    /\ update[c].rpm = Keep => PoolSettings'.rpm = PoolSettings.rpm
    /\ PoolSettings.key # NoKey => PoolSettings'.key = PoolSettings.key

(* "Read existing config first, then merge updates" (console_api.go:456):  *)
(* what an update does not mention stays as it is, unless it could not read*)
(* the settings or shares its time with another handler: a key generated in*)
(* between would be undone.                                                *)
UpdatesMerge ==
    [][\A c \in Consoles :
          consolePc[c] = "merged" /\ consolePc'[c] = "written" /\ ~overlapped /\ ~updateMisread
              => Merges(c)]_poolVars

-----------------------------------------------------------------------------
(* What the same comments say of every update, and does not hold (the      *)
(* README has the counterexamples).                                        *)

(* The limiter has the rate of the settings whenever nothing is under way: *)
(* not if updates overlap, nor if one comes while the proxy starts.        *)
LimiterFollowsAnyUpdate ==
    Quiet /\ ~poolMishap /\ ~startMisread => perAccountRPM = PoolSettings.rpm

(* "Load per-account rate limit from pool config" (proxy.go:22): not if    *)
(* the file cannot be read at that moment.                                 *)
LimiterStartsWithTheRate ==
    Quiet /\ ~poolMishap /\ ~overlapped => perAccountRPM = PoolSettings.rpm

(* What an update does not mention stays as it is: not if it overlaps with *)
(* another one.                                                            *)
EveryUpdateMerges ==
    [][\A c \in Consoles :
          consolePc[c] = "merged" /\ consolePc'[c] = "written" /\ ~updateMisread => Merges(c)]_poolVars

(* Nor if the settings could not be read: they are replaced by defaults.   *)
MisreadUpdatesMerge ==
    [][\A c \in Consoles :
          consolePc[c] = "merged" /\ consolePc'[c] = "written" /\ ~overlapped => Merges(c)]_poolVars
=============================================================================
