# Verification of Copilot API Go

TLA+ models of the proxy in this repository, TLC configurations that check them
on small instances, and TLAPS proofs of the properties that matter most for
every size. Source paths are relative to `src/`.

## Running

In this directory:

    tlc -config MC_Instances.cfg MC_Instances      # any row of the table below
    tlapm InstancesProofs.tla                      # any *Proofs module

`PROJECT.json` lists the runs, for every property a mutant of the model that
violates it, the source lines behind each definition, the hazards the
properties are for, and the theorems.

## The system and its parts

The program runs two HTTP servers in one process. The *proxy* takes OpenAI and
Anthropic requests, chooses a GitHub Copilot account and forwards them. The
*console* serves a web page through which an administrator manages accounts.

| part | state | operations | talks to |
|---|---|---|---|
| instance manager (`instance/manager.go`) | `instances` under `mu`; each instance's Status, token, stopChan and goroutine | StartInstance, StopInstance, tokenRefreshLoop | GitHub; called by console and auto-start, read by the balancer and the handlers |
| request handlers (`handler/proxy.go`) | per request: attempt, excluded accounts | auth, resolveState, checkRateLimit, the retry loop | all of the following |
| balancer (`instance/load_balancer.go`) | `rrIndex` | SelectAccount and four strategies | store, `instances`, usage |
| rate limiter (`instance/rate_limiter.go`) | buckets, rates | CheckRateLimit, SetPerAccountRPM | pool settings |
| usage (`instance/usage.go`) | records of the last hour, last 429 | RecordRequest, counts, snapshots | handlers, balancer, console |
| translation (`anthropic/`) | per stream: open block, tool calls | requests, responses, stream chunks | handlers |
| store (`store/`) | JSON files; a lock for each but the proxy's | accounts, pool, model map, administrator and sessions, proxy | console, handlers |
| model map (`store/model_map.go`, its panel in `App.tsx`) | the list of mappings; the panel's copy | lookups both ways, add, delete, save the whole list | the list of models, every endpoint, twice for messages |
| outbound proxy (`config/config.go`, `store/proxy_config.go`, `manager.go`) | file, setting, shared clients | update, rebuildHTTPClients, start | console, every call to GitHub |
| device sign-in (`auth/device_flow.go`) | sessions, a goroutine each | start, poll, complete | GitHub, the form in the browser |
| console API and page (`handler/console_api.go`, `web/src`) | forms, timers | the administrator's operations | store, manager, limiter, sign-in |

What is hard here: critical sections that end before a call to GitHub and are
followed by others that act on what was read (start, retry loop, limiter, pool
settings); objects that outlive their map entry (instances and their loops);
clocks read outside the lock under which the result is used (usage); truncating
file writes, one without a lock; a map of sessions changed under a read lock; a
browser that polls without waiting for answers, and one that writes back a list
it read long ago; and a stream protocol whose pieces come in an order the other
side chooses. What makes each
part correct is stated in its module; *Runs* names it.

## Modules

| module | models | abstract specification / composition |
|---|---|---|
| `AccountStatus` | what the rest of the program may see of the instance map: per account absent, running, stopped, error | abstract |
| `Instances` | `manager.go` with its callers | implements `AccountStatus` |
| `ProxyRequests` | `proxy.go`, SelectAccount, RecordRequest | composed with `AccountStatus`, not with the whole of `Instances`: the map changes as that allows |
| `RateLimiter` | `rate_limiter.go` | |
| `UsageWindow` | `usage.go` for one account | |
| `LoadBalancer` | SelectAccount with its strategies, over lists that change and the counts that requests and their retries produce | makes the choice `ProxyRequests` leaves open (that it refines it is planned) |
| `StreamTranslation` | `stream_translation.go` and the read loop of `handleAnthropicStream`, with a client that checks the protocol | |
| `Conversation` | request and response translation over whole conversations | |
| `AccountBook` | accounts as a map with atomic operations that can all be lost at once | abstract |
| `AccountFile` | `account.go`: lock, read, truncate, write, failures, restarts | implements `AccountBook` |
| `PoolConfig` | pool settings, `handleUpdatePool`, key renewal, the start of the proxy | |
| `DeviceSignIn` | poller, handlers and the browser's form for one sign-in, restarts | |
| `AdminSession` | `admin.go`, setup, login and the middleware | part of `Console` |
| `OutboundProxy` | the proxy in its file, in memory and in the clients | part of `Console` |
| `Console` | the console server: requests are admitted, updated and cut off as it runs them | composes `AdminSession` and `OutboundProxy` |
| `ModelMap` | `model_map.go`, the panel that edits it, the list of models and the lookups of a request | |
| `*Proofs` | theorems about the module of that name; `StoreProofs` about `AccountFile`, `PoolConfig` and `ModelMap`, the files of package store; `ConsoleProofs` about `Console` and `DeviceSignIn`; `TranslationProofs` about `StreamTranslation` and `Conversation` | |
| `MC_*` | model values and symmetry sets for TLC | |

### How state and actions correspond to the code

*Granularity.* A step is a critical section, an access to unsynchronised shared
state, one call to another process, or the local computation between two of
these. Whatever code does under one lock is one action. A call that waits for
GitHub, upstream or the server is two actions, before and after.

*Names.* Modules that one proof module extends share a name space: what every
specification has is called `PoolInit`, `PoolSpec`, `SignInSpec` and so on there.

*Instances.* An instance is an object, with an identity from `Insts`; the map
points to objects, and one that is no longer in the map lives on with its loop.
`startPc` is where a caller of StartInstance is: `StartCheck` is lines 35-42,
`StartTokenFetched` the token call, `StartPublish` and `StartPublishError` the
critical sections at 74-87 and 58-65. `loop` is where `tokenRefreshLoop` is:
`ComputeSleep`, the two cases of the `select` (`StopWhileAsleep`,
`TimerFires`), `Recheck`, and the attempts (`RefreshOk`, `RefreshRetry`,
`RefreshGivesUp`). When both cases of a `select` are ready either may be taken.
Closing a closed or nil channel sets `panicked`, after which `mu` is never free.
Times are reduced to whether the token has expired. `raced` (history) is the
accounts of which two starts were ever under way at a time. Identities that are free are
interchangeable, so a start publishes the one `Fresh` chooses.

*ProxyRequests.* `pc` goes through resolve, (select,) state, admit, upstream.
`Resolve` takes a snapshot of the enabled accounts and `Select` reads the map
later, as SelectAccount does. `MapChanges` is what the console may do to the map in
between; since it may change the store at any time too, any accounts may be the
enabled ones. `records` is the usage of an account, each record with the
request it is of (history: the code's records have none). `TimePasses` lets any
records reach the age of an hour, which `aged` (history) collects; they leave when
`RecordRequest` or a reader of the statistics (`ReadUsage`) trims.

*RateLimiter.* Time is in ticks, `TicksPerMinute` of them a minute; tokens are
in units of 1/TicksPerMinute, so that refills are exact. `Lookup` and `Create`
are the two halves of the double-checked creation; the caller carries the rate
it read before them. `late` and `outdated` (history) are the callers for which
that rate has changed since, and the buckets they made.

*UsageWindow.* `Stamp` reads the clock, `AppendRecord` is the critical section;
the slice is `records` from `first` on.

*LoadBalancer.* `SelectAccount` finds any list that the run allows, since others
enable, stop and delete accounts, and takes out those the request has failed
with; `choose` is between the filter and the strategy. selectLeastUsed and
selectSmart ask for one count per step (`ReadCount`, `ReadLast429`), scores being
in units of 1/PenaltyTime. What follows is the request: `Unsent`, or `Send` and
then `Forward` or `Fail`, which records a second time and selects again with the
account excluded, until the last attempt. `Expire` and `Direct` change counts
behind the balancer's back: a record leaves the window, a request with an
account's own key is sent. `settled`, `over`, `dealt` and `level` are history:
whether anything was recorded during a scan, the list that was last dealt from and
how often each of its accounts came in a row of such lists, and the highest count
at the time an account was last out of the pool's reach.

*StreamTranslation.* A chunk is a set of pieces (role, text, calls, finish,
usage); the events go to `cl`, a client that holds the open block and collects
the rules of the protocol that were broken. Upstream sends what it likes;
`up.inOrder` (history) is whether it has kept OpenAI's order so far: text, then
one tool call after the other, each begun by its id, a finish reason, usage.

*Conversation.* `UserSpeaks` and `UpstreamAnswers` extend the history the client
holds, `said` keeps what upstream really said; the translators are operators
with the names of the functions, their loops a `FlatMap`. A text is "text":
that texts are copied unchanged is not what is checked, that each arrives in its
place is. Arguments are told apart by what decoding and encoding does to them:
JSON that stays as it is, JSON with a number beyond float64 ("precise", which
becomes "rounded"), none, and text that is not JSON. An image without a source is
a "bare_image": checkVisionContent counts it, the translation leaves it out.

*AccountFile.* `LockAndRead`, `Truncate`, `Write` with `OpenFails`,
`WriteFails` and `Crash` in the places where they can happen. A file that
does not parse is `Torn`, which `readAccounts` takes for empty.

*PoolConfig.* `ReadAndMerge`, `UpdatePoolConfig` and `SyncRate` are the three steps
of handleUpdatePool, `StartRead` and `StartSync` those of RegisterProxy, which
runs beside the console. A reader gets what the file says or, if the read fails,
the defaults (`GetPoolConfig` is the set of both). `overlapped` (history) is
whether the last update shared its time with another handler or with the start of
the proxy, `updateMisread` and `startMisread` whether its read, or the start's,
failed.

*DeviceSignIn.* `Tick` to `StoreSession` are the goroutine pollForToken. Nothing
locks the session, so `WriteToken` and `WriteExpiry` are a step for each of the
two fields they set, in either order; a poll may be told "expired" while the error
is still empty ("blank"). `IntervalFires`, `SawCompleted` and
the like are the form; calls may be lost on the way there or back. The interval
fires whether or not an earlier poll is settled, as `setInterval` does;
`pollsOverlapped` (history) is whether that has happened. `SignInRestart` forgets
sessions and cuts off calls; the form in the browser lives on. `gaveUp` (history) is
whether a call of completeAuth has failed, `unexplained` whether the form has
acted on an expiry without its error.

*AdminSession.* A user stands for a name with its password. handleSetup is
`SetupCheck`, `SetupAdmin` (or `SetupFails`) and `SetupLogin`; `Insert` is
LoginAdmin up to its answer. ValidateSession is one step if it only reads, two
if the session has expired: between them the map is being changed with the lock
held for reading, and whoever then looks into it may end the process
(`FatalError`), as Go's runtime does when it notices. A process that has ended
takes no step but `Restart`. `issuedTo`, `rivals` and `misread` are history.

*OutboundProxy.* The steps of handleUpdateProxyConfig in their order:
`Truncate`, `WriteConfig`, `SetProxyURL`, `BuildClients`, `SwapClients`. Two
writers of a file without a lock leave the text of one or a mixture. `Startup`
may fail to read the file, which it takes for no proxy; `unread` (history) is
whether that was so, until an update ends.
*Console* lets a handler begin an update only when the middleware has admitted
it, and `Restart` cuts off handlers of both modules at once.

*ModelMap.* The file is a sequence of pairs. Each operation of the store is one
action; a read that fails finds an empty map (`Reads`). The panel is a copy of
which rows may be incomplete. `request` follows one client from the list of
models (`ListModels`) through the lookups of each attempt, of which messages
make two; `Base` cuts a date off a name, as NormalizeAnthropicModel does for
two families. Users of the API are taken to send complete mappings.

## Runs

Each component has one configuration, which all of its properties share.
`CHECK_DEADLOCK FALSE` is given where the system may really stop (the stream
over, the form closed) or where a named bound on objects, time, records or
messages is reached. All finish within minutes on two workers.

| run | instance | distinct states | checks |
|---|---|---|---|
| instances | 1 account, 2 instances, 2 starts at a time, 1 retry | 316,447 | NoPanic, RunningIsRefreshed, RunningIsRegistered, NeverRevived, refinement of AccountStatus, StoppedLoopEnds, ExpiredTokenIsRefreshed |
| requests | 2 requests, 2 accounts, 2 attempts | 1,284,964 | AnsweredOnReturn, AttemptsAreDistinct, PoolFindsInstance, UsageTellsAttempts, RequestsAreAnswered |
| limiter | 2 callers, rate 3 or off, a minute of 5 ticks | 3,532,269 | GrantsWithinRate, RetryAfterIsSound, LimitersPickUpTheRate, LimiterIsNotReplaced |
| stream | any upstream, 3 tool indices, 4 blocks | 14,084 | BlocksNest, ToolInputInOwnBlock, CompleteStreamConforms, TimelyUsageArrives |
| accounts | 2 handlers, 3 accounts, 4 keys | 31,198 | refinement of AccountBook, ReadsAreWhole |
| pool | 2 consoles, 3 keys, 2 rates | 1,259,520 | EnabledHasKey, LimiterFollowsSettings, UpdatesMerge |
| signin | 3 calls on their way | 18,589 | AccountsHaveTokens, OneSignInOneAccount, KeepsTrying, PollerEnds |
| usage | 2 callers, 3 records, a window of 1 | 107,869 | NothingIsForgotten, CountsTheWindow |
| balancer | 2 callers, 3 attempts; round robin over 3 accounts, the others over 2; up to 5 records each, 3 for smart | 6,115,311 | LoadsStayClose, PicksBest |
| conversation | 5 messages, 3 calls, all kinds of arguments, 2 texts or images besides results | 536,688 | AnswersComeBack, ToolResultsFollowCalls, HeadersMatch |
| console | 2 handlers, 2 users, 3 tokens, 1 proxy or none | 2,394,560 | SessionsAreTheAdmins, ProxyInForce |
| modelmap | 2 models, a name that is the first's with a date, 2 mappings | 1,118,563 | ListedModelIsServed, SaveKeepsTheRest |

Type correctness is not in the configurations: it is proved of every module.

### Disagreements between the code and what it says

They are stated in the modules, after the properties that hold. To see a
counterexample, put the property in place of those of the module's
configuration, as an INVARIANT if it is a state predicate and as a PROPERTY if
it is about steps; the first column says which configuration.

| configuration | property | what it quotes | what the code does |
|---|---|---|---|
| `MC_Instances.cfg` | AnyRunningIsRegistered | "Web console to add, remove, start, and stop" (`README.md:19`) | of two overlapping starts, say the auto-start and one from the console, the second publishes over the first's running instance, which is then out of the reach of a stop (`manager.go:42,83`) |
| `MC_Instances.cfg` | StoppedDoesNoWork (steps) | "Check stop again before doing work" (`manager.go:224`) | a stop after a failed refresh does not close the channel, and the loop goes on (`manager.go:100`) |
| `MC_ProxyRequests.cfg` | CountsRequests | "the number of requests in the current window" (`usage.go:136`) | a failed attempt is recorded twice (`proxy.go:175,182`) |
| `MC_ProxyRequests.cfg` | ThrottlingIsRemembered | "penalty if recently 429'd" (`load_balancer.go:84`) | a 429 on the last attempt is not recorded (`proxy.go:193`) |
| `MC_ProxyRequests.cfg` | OnlyRunningServes (steps) | "account instance not running" (`proxy.go:119`) | an account's own key is served after its instance was stopped (`manager.go:129`) |
| `MC_RateLimiter.cfg` | AllLimitersPickUpTheRate | "Reset existing per-account limiters so they pick up the new rate" (`rate_limiter.go:83`) | CheckRateLimit reads the rate at 90-93 and makes the bucket with it at 126: with SetPerAccountRPM in between, the new map gets a bucket with the old rate |
| `MC_StreamTranslation.cfg` | UsageReachesClient | IncludeUsage (`translate_request.go:25`), "Full support" (`README.md:24`) | usage that comes after the finish reason never reaches the client (`stream_translation.go:171`) |
| `MC_StreamTranslation.cfg` | DroppedStreamIsClosed | "Upstream closed without [DONE], sending message_stop" (`handler.go:276`) | the stream is stopped with its block open |
| `MC_AccountFile.cfg` | AccountsPersist (steps) | "Run with persistent data" (`README.md:48`) | a failed or interrupted write loses all accounts (`account.go:65`) |
| `MC_PoolConfig.cfg` | LimiterFollowsAnyUpdate | "Sync per-account rate limiter" (`console_api.go:496`) | overlapping updates write in one order and sync in the other; an update between the two steps of RegisterProxy is undone in the limiter (`proxy.go:23`) |
| `MC_PoolConfig.cfg` | LimiterStartsWithTheRate | "Load per-account rate limit from pool config" (`proxy.go:22`) | a file that cannot be read at that moment sets no rate (`account.go:225`) |
| `MC_PoolConfig.cfg` | MisreadUpdatesMerge (steps) | "Read existing config first, then merge updates" (`console_api.go:456`) | if the read fails the update is merged into the defaults and written: key, rate and switch are lost (`account.go:225`) |
| `MC_PoolConfig.cfg` | EveryUpdateMerges (steps) | "Read existing config first, then merge updates" (`console_api.go:456`) | an update overwrites a key or a field that was changed after it read |
| `MC_DeviceSignIn.cfg` | NeverTwoAccounts | "Add a GitHub Copilot account" (`README.md:85`) | two polls that see the completed sign-in add the account twice (`console_api.go:411`) |
| `MC_DeviceSignIn.cfg` | AlwaysTries | "poll error, keep trying" (`AddAccountForm.tsx:256`) | a failed completeAuth leaves the form waiting for ever, its timer gone (`AddAccountForm.tsx:241`) |
| `MC_DeviceSignIn.cfg` | ExpiryIsShown | `setError(poll.error ?? t("authFailed"))` (`AddAccountForm.tsx:253`) | a poll between the writes of Status and Error (`device_flow.go:128`) gets an empty error, which `??` keeps: the timer is off and nothing is shown |
| `MC_UsageWindow.cfg` | AlwaysCountsTheWindow (steps) | "the number of requests in the current window" (`usage.go:136`) | records appended out of order outlive the window (`usage.go:170`) |
| `MC_UsageWindow.cfg` | Last429GoesForward (steps) | "the last time a 429 was recorded" (`usage.go:152`) | of two 429s the later critical section may carry the earlier time (`usage.go:66`) |
| `MC_Console.cfg` | AdminStays (steps) | "admin already configured" (`console_api.go:153`) | of two setups that pass the check together the second replaces the administrator of the first; so does one whose check could not read the file (`admin.go:36`) |
| `MC_Console.cfg` | ClientsFollowSetting | "rebuilds the shared HTTP clients using the current proxy setting" (`manager.go:395`) | of two updates the older clients may be put in place last (`manager.go:380`) |
| `MC_Console.cfg` | StartAppliesTheFile | "Load proxy config and apply to HTTP clients" (`main.go:33`) | a file that cannot be read is skipped, and the program runs without the proxy it names (`main.go:34`) |
| `MC_Conversation.cfg` | ArgumentsComeBack | "Parse arguments as JSON" (`translate_response.go:34`) | numbers go through float64: 9007199254740993 comes back as 9007199254740992 (`translate_response.go:88`) |
| `MC_Conversation.cfg` | VisionMeansImage | `b.Type == "image"` in checkVisionContent (`handler.go:506`) | an image without a source sets the vision header and is then left out (`translate_request.go:222`) |
| `MC_ModelMap.cfg` | Bidirectional | "Bidirectional mapping" (`README.md:23`) | a model shown with the name of another one is not found by it (`model_map.go:110,125`) |
| `MC_ModelMap.cfg` | ConsoleShowsNames | "Build a lookup from copilotId -> displayId" (`console_api.go:571`) | of two mappings of a model the console shows the last, the list of models has the first (`model_map.go:110`) |

For RunningIsRegistered, LimitersPickUpTheRate, the pool, the sign-in, the
usage window, the conversation, the console and the model map a weaker property
that excepts the causes (overlapping starts, a rate read too early, overlapping
updates, polls, appends or setups, reads that fail, an expiry read half-written,
numbers beyond float64, images without a source, names that clash) holds in the
run: together they say that there is no other cause, and where it is proved, in no
instance of any size.

Two things are not promised, and no sentence of the repository says otherwise.
Round robin is even only over a list that stays. Of three accounts A, B and C let C
always fail: a request whose turn is C's takes a second turn, over a list of two,
and requests one after the other end up at A, B, B, B, A, B, B, B. And a 429 that arrives
while selectSmart goes through its list counts for some accounts and not for
others.

A mishap the properties except but no sentence of the repository denies: a
process that dies, or a write that fails, between the truncation of
proxy-config.json and its write leaves a file that is taken for no proxy
(`proxy_config.go:22,32`).

### Bounds, and why they are enough

* Accounts, instances, handlers, callers: two of what competes. Accounts of the
  instance manager share nothing but `mu`, so one shows what starts, stops and
  loops do to each other; the proofs are for any number.
* MaxRetries is 1 where the code has 3, MaxAttempts 2 where it has 3: one retry
  and one failure after it, and the last attempt that is not retried, are there;
  the proofs hold for every value.
* Ticks: with a minute of 5 and a rate of 3, buckets are empty, full, and left
  with every fraction, and waits need rounding. Time runs for one minute.
* The window is 1 and time goes to 3: records get old while others do not, and
  a caller may carry a time two ticks old.
* Streams: four blocks cover text, two tools and text again; the state of the
  translator does not otherwise depend on the length.
* Conversations: five messages are user, answer, results, answer, results, with
  two calls an answer, and up to two texts or images behind the results;
  translation goes message by message.
* Console: two handlers race each other through the setup, the removal of two
  sessions, or the update; three tokens are two that expire together and one
  issued afterwards. With one proxy, and none, updates can disagree.
* Model map: two mappings and three names give duplicate models, duplicate
  names, names that are another model's, and names with a date; the panel holds
  as many rows. Time and the number of operations are not bounded.
* Balancer: an attempt makes up to two records, so two callers may drive loads
  four apart (three is violated); counts up to 5 leave room for more. The bound,
  `MaxSpread`, is twice the number of callers, and proved for any number. Three
  attempts over three accounts are retried down to a list of one. The penalty
  lasts for two ticks, and so does time: full, half and gone. Scores of 3
  requests and a penalty worth up to 2 of them can go either way.
* Pool: three keys let one be generated and replaced twice; two rates differ from
  each other and from none.

### Fairness

Only for the system's own steps, as `FairSpec` of the module states. *Instances*:
weak fairness of every loop and start, because the Go scheduler runs goroutines
that can run, timers fire, and the client for GitHub has a 15 s timeout
(`manager.go:385`). For a stopped loop that sleeps, nothing stronger is needed:
whichever case of the `select` is taken, the recheck follows. *ProxyRequests*:
weak fairness of each request's handler; the answer of upstream is included
since transports have header timeouts and a client that goes away cancels.
*DeviceSignIn*: weak fairness of pollForToken, of the calls and of the code's expiry; `SignInRestart`
ends the poller, so it needs none. Nothing
is assumed of users, administrators or of how a call ends.

## Proofs

Checked by tlapm without assumptions other than the named ASSUMEs of the
constants, which TLC evaluates in the runs too.

* `InstancesProofs`: NoPanic, RunningIsRefreshed, NeverRevived, the refinement
  of AccountStatus, and RunningIsRegistered. The inductive
  invariant `IInv` adds to type correctness and the first two: a running
  instance's channel is open (RunningIsOpen, why close cannot panic), an
  object not yet allocated has no loop and is nowhere in the map (FreeIsIdle),
  an entry belongs to its account (EntryIsOwn, so a stop stops the right one),
  and a starter past its check has an account (StarterHasAccount). The
  refinement goes action by action: each changes one account's view by
  Launch, Fail or Halt, or not at all. RunningIsRegistered needs in addition
  that an account that has not raced has one starter at a time (OneStarter) and
  that this one has nothing to replace (NothingToReplace).
* `ProxyRequestsProofs`: AnsweredOnReturn, AttemptsAreDistinct,
  PoolFindsInstance and UsageTellsAttempts for any number of accounts, requests
  and attempts. The third needs that the map only ever grows in AccountStatus.
  The last is inductive as it stands; its lemmas say what each kind of step does
  to the sets it compares: one that records (RecordStep), one that trims
  (TrimStep), and all others (QuietStep).
* `RateLimiterProofs`: GrantsWithinRate from a conservation law: tokens given
  plus tokens left are at most the burst plus the rate times the time up to the
  last refill. RetryAfterIsSound from what a denied caller's bucket holds
  until it is refilled (Owed), and from bounds on rounding up. LimitersPickUpTheRate from
  callers that are not late holding the current rate (ReadsAreCurrent).
  LimiterIsNotReplaced from the second look under the write lock.
* `TranslationProofs`, stream: the four properties of the translator, from an
  invariant that ties the translator's state to what the client has open, what
  an upstream that has kept its order may have sent to what it has sent, and
  the usage that was sent to what the translator keeps (UsageIsKept).
* `TranslationProofs`, conversation: AnswersComeBack, ToolResultsFollowCalls and
  HeadersMatch, for any number of messages, choices, blocks and calls. The
  request of a conversation with one message more is the old one with that
  message's translation at its end; a user's message becomes the results of the
  calls that wait and then messages of the user (UserConverted), and an answer
  the one message that upstream gave (AnswerConverted). The invariant adds that
  the request ends with the calls that wait for their results
  (EndsWithPending), that nothing but users' messages precedes the first answer
  (RolesTell), and that images with a source are neither lost nor made
  (ImagesMatch). Since images without one become no message, what a user's
  message becomes is first stated of the blocks that are kept (KeptJoined,
  UserMessageKept). The
  loops of the code are the operator `FlatMap`; what is proved of it first is
  what is true of any such loop (the lemmas about Joined), by induction over
  lists with a set of lists in place of a predicate (SeqInduction).
* `StoreProofs`, accounts: ReadsAreWhole, the refinement of AccountBook, and that
  deleted accounts and replaced keys never come back (NothingComesBack, which
  no run checks). The invariant: who writes holds the lock (WriterHolds), what it
  is going to write is an edit of what is there (EditIsFresh, EditFound), a
  file is torn only between truncation and write (TruncatedIsTorn), and all
  that exists was issued (BookIsIssued).
* `StoreProofs`, pool: EnabledHasKey, LimiterFollowsSettings and UpdatesMerge.
  The first needs that every copy of the settings that a handler may write is
  safe (CopiesAreSafe). The others are about an update that has shared its time with
  no other and has read the file: it is the only one (OneHandler), what it merged
  still agrees with the file in all that it does not mention (Keeps,
  MergeIsFresh), what it wrote is in the file (WrittenIsInFile), and a rate that
  the proxy has read at its start is still the file's (StartIsFresh).
* `StoreProofs`, model map: ListedModelIsServed and SaveKeepsTheRest, for maps
  of any length and with clashing names. A request in the middle of its lookups
  has asked for a model (AsksForAModel); while the map has not changed, its
  name is the one the list gives that model, and what was looked up since is
  what the map gives (ServedAsListed); and while nobody else has written, the
  panel shows every model it has not edited as the file does (PanelShows). The
  work is in what edits of a list leave alone: `Kept` is a recursive function,
  and what it keeps is characterised without induction over the list, by the
  least index at which a claim about it would fail (NatLeast, itself from the
  well-foundedness of the finite subsets of Nat).
* `UsageWindowProofs`: NothingIsForgotten and CountsTheWindow. The first needs
  that a caller who is about to record has found the account's object, of which
  there is never a second one (FoundTheObject); a trim, which a lemma
  describes for any list of records (TrimStops), drops what is older than the window and no more. If the records
  are in order, what it leaves is the window, so the count is exact.
* `LoadBalancerProofs`: LoadsStayClose and PicksBest. Round robin: of two accounts
  of the list the one whose turn came later has as many as the other or one more
  (DealtInOrder). Least used: a caller that is about to record at account `a`, and
  does not choose `b` for any reason but that it is not in its list, has found a
  count of `a` that is not above `b`'s, or above `b`'s `level`, at the time. So `a`'s
  count, plus one for each caller that may record once more at `a` and two for each
  that may twice, stays within MaxSpread of every value that some `b` has not
  passed (SpreadBounded, with Once and Twice), where PassedCounts says what a
  caller in the middle of its scan has seen. PicksBest: a scan during which nothing
  was recorded has the best of the accounts it has passed (SettledScans,
  BestSoFar), no 429 being of a time after the clock was read (PastThrottles).
* `ConsoleProofs`, sign-in: AccountsHaveTokens, OneSignInOneAccount and KeepsTrying
  for any number of calls. A call that adds an account has seen the token
  (TokenBeforeAccount); the timer starts once and stops for good when a call
  goes on to complete (TimerRunsOnce); polls that do not overlap are one call
  at a time (OneCall); without timer someone completes, or gave up, or the form
  shows an error (SomeoneCompletes), which only an expiry without its error takes
  back.
* `ConsoleProofs`, console: SessionsAreTheAdmins and ProxyInForce, with an invariant for
  each of the two parts. A setup that is the only one and has read the file
  writes where nobody is set up (SetupIsFirst), and tokens are issued at logins
  (SessionsAreIssued); an update that is the only one (OneUpdate) has brought
  file, setting and clients as far as it has come (UpdateIsAt), from whatever
  the program had read at its start.

Only model-checked: the four liveness properties, which are out of the prover's
reach: StoppedLoopEnds and ExpiredTokenIsRefreshed of Instances,
RequestsAreAnswered of ProxyRequests and PollerEnds of DeviceSignIn. Every
other property of a run, the two refinements among them, is a theorem too.

## Not modelled

* Payload details that are copied field by field (Responses API, embeddings,
  completions, system prompts, tools, token estimates), headers, constants,
  the command generator, account details fetched from GitHub for the console,
  texts and rendering of the web page. What a request's model is called is in
  ModelMap.
* A refresh of the dashboard that overtakes another: it shows old numbers until
  the next one, and nothing is promised of it.
* Mappings with an empty ID, which the API does not refuse, and two saves of the
  panel at a time, which its button does not allow.
* Rounding of float64 in the limiter and the balancer, and the overflow of
  `rrIndex` on 32-bit builds.
* Data races on `inst.Status`, the fields of sign-in sessions and the like are modelled as reads and writes of
  whole values; torn strings are not.

## Plan

Done, in this order: AccountStatus and Instances; ProxyRequests on top of
AccountStatus; RateLimiter; StreamTranslation; AccountBook and AccountFile;
PoolConfig; DeviceSignIn; UsageWindow; LoadBalancer; Conversation; proofs for
the first five components; AdminSession and OutboundProxy, composed in Console;
ModelMap; proofs for PoolConfig, DeviceSignIn and Console; proofs for
UsageWindow, LoadBalancer, ModelMap and Conversation.

Left: `LoadBalancer` as an implementation of the choice in `ProxyRequests` is
worth stating.
