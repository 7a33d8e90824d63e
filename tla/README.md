# TLA+ models of the Elastic Agent container start-up and build tooling

This directory holds TLA+ models of the container start-up of the agent, the mage
build helpers that run concurrently, and the EQL `arrayContains` function. The core
is the part that decides, on every
container start, whether the agent must (re-)enroll with Fleet, performs that
enrollment, and then runs. The models are translated from the Go sources under
`src/`. Where the code is not under `src/`, the model follows `spec.md`, and the
map in `PROJECT.json` marks that definition `spec_modelled`.

## 1. Inventory

### Components, their state and operations

| Component | Source | State | Operations |
|---|---|---|---|
| Enrollment decider | `container.go` `shouldFleetEnroll` (1031-1184), `ackFleet` (1187-1205) | reads the stored record; the `retries` counter of `ackFleet` | flag checks, stat of `fleet.enc`, store load, id/URL/hash checks, the ack probe (at most 3 attempts, 1 s apart, stopped early by a 401), hash backfill, `SafelyStoreAgentInfo` |
| Auth transport | `round_trippers.go` `FleetAuthRoundTripper` | the API key | sets `Authorization`; turns a 401 into `ErrInvalidAPIKey` |
| Header transports | `round_trippers.go` (user agent, `Elastic-Api-Version`), `headers_rtt.go` | fixed header values | stamp headers and forward the request |
| Container start-up | `container.go` `containerCmd` (196-280), `runContainerCmd` (282-346), `ensureServiceToken` (358-411) | the setup configuration from env and files; the legacy APM Server process | read config; start APM Server in cloud mode; obtain a service token; decide; fetch a token from Kibana; exec `enroll`; run the agent |
| Kibana token lookup | `container.go` `performGET` (702-724), `kibanaFetchPolicy`, `kibanaFetchToken`, `findPolicy`, `findKey` | `performGET`'s loop index | GET with up to `KIBANA_REQUEST_RETRY_COUNT` attempts; select a policy; select a key by stripped name; read the key's secret |
| Credential store | not under `src/` (spec 4.1) | the encrypted agent record: id, hosts, API key, two token hashes | load, atomic store |
| Hash verifier | not under `src/` (spec 4.2) | none | compare, generate |
| Fleet gateway | `gateway.go` (interface only) | spec 4.6: the client, the Errors and Actions channels | `Run`, `Errors`, `Actions`, `SetClient` |
| Mage parallel runner | `dev-tools/mage/common.go` `ParallelCtx` (561-604), `parallelJobs` | a process-wide semaphore channel, an error list under a mutex, a WaitGroup | run functions in goroutines, at most `numParallel()` at a time |
| Build helpers, `dockerBuilder` | `common.go`, `dockerbuilder.go` | files on disk | expand templates, `Extract` (untar/unzip), copy, run docker build and save |
| Uninstall command | `uninstall.go` | none of its own | root check, install status, confirmation, `install.Uninstall` |
| EQL `arrayContains` | `methods_array.go` | none | membership of any of the arguments in an array |
| Windows permissions | `perms/windows.go` `FixPermissions` (23-126) | none; the ACLs and owners of the entries under `topPath` | compute grants from the mode bits; SIDs; `HasRoot`; `WalkDir` with `acl.Apply` and, as Administrator, `TakeOwnership` |
| Others | `kubernetes/supported.go`, `pgp.go`, docker `config.go`, `reexec.go`, tests | constants, OS calls | none a model can add to |

### How they interact

`containerCmd` reads the setup configuration. In cloud mode it may start the
legacy APM Server. A goroutine waits for that process and sends SIGTERM to the
agent when it exits. `runContainerCmd` then calls `shouldFleetEnroll`.
`shouldFleetEnroll` loads the stored record and compares it with the setup. When
nothing local differs, it builds a Fleet client (the auth, user-agent and
API-version decorators) and probes the stored key with an empty ack. The Fleet
server is the other actor: an administrator may revoke the agent's key at any
time, and the server then answers 401. If enrollment is needed and no token is
set, `runContainerCmd` asks Kibana for a policy and an enrollment key through
`performGET`. It then execs `enroll`, which writes a new record, and runs the
agent. The container can be killed at any point and started again, possibly
with a different environment.

### What is hard

- Interleaving with the Fleet server: a revocation can land between the local
  checks and the probe, or between two probe attempts.
- Retry and termination: `backoff.Retry` with a `ConstantBackOff` stops only
  through `backoff.Permanent`. Two things raise it: the `retries == maxRetries`
  counter and `ErrInvalidAPIKey`.
- Persistence across restarts: the backfill writes hashes that the next start
  compares against. A crash can happen anywhere in the sequence.
- An unreliable Kibana, and what `performGET` returns after its last retry.
- Concurrency in the mage runner: a global semaphore shared by nested
  `Parallel` calls; the deferred `wg.Done()` runs before the slot is released.
- The APM Server goroutine racing the agent's own exit (`wg.Wait`, SIGTERM).

### Properties that make each component correct

- Decider: it never enrolls without a reason the contract (spec 4.5) names. It
  never skips with a key the server answered 401 for, and a 401 on any attempt
  means "enroll". The probe makes at most 3 attempts. A "no need" decision is
  stable for the same setup (idempotence). A backfill never rewrites an existing
  hash and happens only after the probe succeeded.
- Kibana lookup: a lookup that reaches `enroll` hands it the secret of the key
  it selected. `findPolicy` and `findKey` return the first match of their
  criterion.
- Gateway: N successful polls give N batches in order. A failed poll gives one
  error and no batch. A poll uses the client captured when it started.
  Cancellation ends `Run`.
- Mage runner: at most `numParallel()` jobs hold a slot. Every error or panic is
  reported. `ParallelCtx` returns only after every job finished.

## 2. Plan

Modules, with their status after this sitting:

1. `EnrollDecision` (done): the abstract one-step contract of spec 4.5. It
   covers Fleet key revocation, enrollment, stop and restart.
2. `FleetEnroll` (done): the code's start-up path. It covers the
   `containerCmd` start, the local checks of `shouldFleetEnroll`, each `ackFleet`
   attempt, backfill and store, the enroll branch of `runContainerCmd`, stop and
   revoke. It INSTANCEs `EnrollDecision` and is checked to refine it.
3. `KibanaFetch` (done): `performGET` with `kibanaFetchPolicy` and
   `kibanaFetchToken`.
4. `ContainerStart` (done): `containerCmd` and `runContainerCmd` around the
   enrollment. It covers the legacy APM Server, its watcher goroutine with the
   WaitGroup and SIGTERM, `ensureServiceToken` and the flags of
   `buildEnrollArgs`.
5. `ContainerPaths` (done): `setPaths`, `copyFile`, `writeContainerPaths` and
   `tryContainerLoadPaths`. The files live on a persistent volume and there are
   two processes.
6. `MageParallel` (done): `ParallelCtx` with its shared semaphore, recovered
   panics and nested calls.
7. `DockerBuild` (done): `dockerBuilder.Build`, covering copy, prepare, build
   with retries, and save of every tag.
8. `EqlArray` (done): `arrayContains`, checked against a set-based reference.
9. `Archive` (done): `Extract` with `untar` and `unzip`, over a disk with
   symlinks.
10. `Container` (done): `ContainerStart` composed with `ContainerPaths`, with
    `docker exec` commands, kills and restarts of the whole container.
11. `Perms` (done): `FixPermissions`, the grant arithmetic checked against a
    reference over all 512 modes, and the walk under concurrent removal.
12. Left for later sittings:
   - `FleetGateway` (spec-modelled): the poll loop with bounded Errors and
     Actions channels, `SetClient` and cancellation. Its abstract
     specification is "batches delivered in arrival order".
   - `FindPolicy` and `FindKey` checked against reference definitions over all
     short sequences.
   - A `KibanaFetch` run with `RetryMaxCount = 0`.
   - Composing `ContainerStart` with `FleetEnroll`, so that the agent branch is
     the real decision rather than a nondeterministic one.

## 3. Modules and how they correspond to the code

### `EnrollDecision` (abstract)

Variables: `stored` (the record or `NoConfig`), `validKeys` (the keys the Fleet
server accepts), `nextKey`, `setup`, `phase` and `decision`. `ADecide` is the
whole decision in one step. A local reason (`LocalReason`: force, no record, id
requested and different, URL not in the stored hosts, a present hash differing
from a present token) means enroll. Otherwise the key's validity decides: a
revoked key means enroll; a valid key means skip, with the missing hashes
filled in (`Completed`). An error is allowed once a record exists.

### `FleetEnroll` (implementation)

| Definition | Code |
|---|---|
| `Start` | container start: `containerCmd` reads the setup |
| `ShouldFleetEnroll` | `shouldFleetEnroll` from the flags to the last hash check, in one step; `Return("error")` stands for a store open, load or decode failure |
| `AckAttempt` | one call of `ackFleet`'s operation: `retries++` and the empty ack is sent; `pc` goes from `acking` to `waiting` |
| `AckResponse` | the ack's answer: `IsPermanent` is `ackFleet`'s `backoff.Permanent` test; a retryable error goes back to `acking`; on return, the `switch` of `shouldFleetEnroll` |
| `AckResponses` | `FleetAuthRoundTripper.RoundTrip`: `ok` for a valid key, `invalid` (401) for a revoked one, `neterr` for any other failure |
| `ProbeSucceeded` | backfill (`Backfill`) and `SafelyStoreAgentInfo`, which may fail |
| `Enroll` | the enroll branch of `runContainerCmd`: a token from the setup or from Kibana, then `enroll` writes a new record and the server issues a key; any failure exits |
| `Stop` | the container is stopped or killed at any point |
| `Revoke` | an administrator un-enrolls the agent (spec-modelled) |

Abstractions:

- A stored hash is the token it verifies, and the empty string is `Empty`.
- Records start either absent, or as written by an older agent: one host, maybe
  an enrollment hash, no replace hash, key 1 valid.
- The enroll command itself is not under `src/`. It is modelled from the spec
  as writing `{id, {url}, token, replace token, fresh key}`.
- Fleet Server mode (`FLEET_SERVER_ENABLE`) is not modelled here.

### `KibanaFetch`

`GetFails`, `GetSucceeds` and `GetGivesUp` are the three ways one iteration of
`performGET`'s loop, or its end, can go. `Continue` is what `kibanaFetchPolicy`
and `kibanaFetchToken` do with the result. `FindPolicy` and `FindKey` use
`SelectInSeq` for the first-match loops. `StripName` models `tokenNameStrip`:
a key name is a record whose `base` is the name without the ` (<uuid>)` suffix.

### `ContainerStart`

The variables are the following:

- `cfg`: the setup configuration, one of `Cfgs`.
- `pc`: where the main goroutine is.
- `runAgent`: whether the run was reached.
- `svcToken`, `token` and `args`: the credential flags given to `enroll`.
- `apm`: the legacy APM Server process.
- `watcher`: its goroutine.
- `wg`: the WaitGroup counter.
- `sigterm`: a pending SIGTERM to the agent.

The actions follow the code in order:

- `LogContainerCmd`: the command's `Run`. It creates the start-up log when
  `LOGS_PATH` is set and exits on failure.
- `LoadConfig` and `StartApm` (cloud mode only). `RunLegacyAPMServer` is
  the outcome of `runLegacyAPMServer`: it fails, or the process runs.
- `EnsureServiceToken`: a service token from the environment, a file, or
  Kibana. A Kibana status of 400 or more fails the start. The configuration's
  `svc` is the first source the code finds. `kbToken` is a setup where only
  `Kibana.Fleet.ServiceToken` is set. There the `||` at `container.go:360`
  returns nil, and the Fleet Server's token (`svcToken`) stays empty.
- `Decide`, `FetchToken` and `Enroll`.
- `RunStops` and `RunFails`.
- `WaitReturns`: `wg.Wait()`, then the deferred `apmProc.Stop`.

The APM side has these actions:

- `ApmExits`.
- `WatcherDone`: `wg.Done()`.
- `WatcherSignals`: SIGTERM to the agent.
- `Killed`: a SIGTERM that arrives outside `run()` ends the process.

`DockerStop` is the environment's SIGTERM to the agent. `EnrollArgs` keeps
only the credential and destination flags of `buildEnrollArgs`.

### `ContainerPaths`

There are two processes, `start` (`containerCmd`) and `exec` (a command run
with `docker exec`, which calls `tryContainerLoadPaths`). Each has a `pc`.

Two files live on the volume:

- `base`: `elastic-agent.yml`, which is absent, torn or whole.
- `pathsFile`: `container-paths.yml`, which is absent, empty (created but not
  written) or whole.

The actions are the steps of `setPaths` in order: `SetPaths` (mkdir, stat,
open and create), `CopyFile` (`io.Copy`), `Dirs` (the log dirs and
`os.Create` of the paths file) and `WritePaths`. Any step can fail. An
`exec` that finds no `container-paths.yml` goes to `defaults`: the command
runs with the default paths and never reaches `setPaths`. The volume starts
fresh (neither file) or as a completed start left it (both whole). `Crash`
kills a process anywhere, and the files stay.

### `Container` (composition)

`Container` INSTANCEs `ContainerStart` as `S` and `ContainerPaths` as `P`
(with `P`'s `pc` renamed `procs`). The two share the `setPaths` step:

- `LogContainerCmd`: `S!LogContainerCmd`; entering `setPaths` is
  `P!Start("start")`.
- `SetPathsStep`: one step of `P`'s start process while `S` waits at
  `setPaths`; when it stops, `containerCmd` has returned the error.
- `LoadConfig`: `S!LoadConfig`, enabled once `setPaths` returned nil.
- `StartStep(A)`: every other step `A` of `S`. When `containerCmd` ends,
  the start process of `P` has stopped too (`StartEndsWith`).
- `ExecStep`: `P`'s exec process; a command starts only while the container
  runs.
- `ContainerKilled` (environment): every process stops where it is, and the
  APM Server with them.
- `Restart` (environment): a container that ended starts again with the same
  environment and the same volume.



`cpc[c]` is the caller of each `ParallelCtx` call. `jpc[j]` is the goroutine
of each function. `wg`, `errs` and `sem` are the call's WaitGroup, its error
list and the global semaphore.

The actions are:

- `Launch`: the loop with `wg.Add`.
- `Acquire`: `parallelJobs() <- 1`.
- `Run`: the function ends ok, with an error or with a panic, or makes its
  nested call.
- `NestedReturns`.
- `Deferred`: `recover` into `errs`, then `wg.Done()`.
- `Release`: `<-parallelJobs()`.
- `Wait`: `wg.Wait()`, then a panic if `errs` is not empty.

### `DockerBuild`

`present[i]` says whether the source or spec file of package file `i` exists.
`pc`, `i`, `tries` and `j` are the loop positions of `Build`, `copyFiles`, the
retry loop and the extra-tag loop. `artifacts[f]` is the image that file `f`
holds, or `torn`, or `none`.

The actions are `Clean`, `CopyFile` (one iteration), `Prepare`, `DockerBuild`,
`GiveUp` and `Save` (`dockerSave`, with every way it can fail). `FileFor`
takes each tag's artifact name to be distinct unless `OutputFile` is set:
the `Expand` of `defaultBinaryName` is not modelled.

### `Archive`

`format` and `dest` are the extension's format and `destinationDir`.
`archive` holds the entries and `k` is the loop index. `fs` is the disk: a
function from paths to a directory, a file or a symlink. `written` is what
the extraction created or truncated.

A path is a sequence of names:

- `Clean` and `Join` are `filepath.Clean` and `filepath.Join`, built with
  `FoldLeft`.
- `HasPrefix` is `strings.HasPrefix` on the joined strings.
  `NamePrefixPairs` says which name is a string prefix of which (`d` of
  `d2`), and a trailing `""` stands for a trailing slash.
- `Walk` (RECURSIVE) is the operating system's lookup. It follows every
  symlink on the way, the last name's included.

The actions are the following:

- `Open`: `Extract`'s dispatch, the opening of the archive and, for zip,
  `MkdirAll(destinationDir)`.
- `Untar` and `Unzip`: one turn of each loop.

They share `MakeDir`, `WriteFile` and `MakeSymlink`, which are the entry
types' bodies. Every I/O call may fail. `WriteFile` can fail after the file
was created.

### `EqlArray`

`ArrayContains`, `ContainsAny` and `InArray` are RECURSIVE operators that
translate the loops of `methods_array.go`. `Expected` is the set-based
reference:

- fewer than two arguments, or a first argument that is neither an array nor
  null, gives an error;
- a null array gives false;
- otherwise the result is whether some later argument is an element of the
  array.

`Evaluate` picks any arguments over `Scalars` and null, with arrays up to
`MaxLen`.

### `Perms`

The grant arithmetic uses the code's own expressions. A uint32 access mask
is the set of its bit positions: `<<` adds to each position (`Shl`), `|` is
the union, and `uint32(...)` keeps positions 0 to 31 (`Uint32`). `&` on the
mode is `Bitwise`'s. `Grants` is the slice that `FixPermissions` builds, and
`Owners` gives the SIDs that `TakeOwnership` sets.

The walk is `filepath.WalkDir`, with a `stack` of pending steps:

- `Lstat` of `topPath`;
- `Visit` of an entry: the WalkDirFunc with no error, running `Apply` and,
  as Administrator, `TakeOwnership`;
- `ReadDir` of a directory. Its error is passed to the WalkDirFunc a
  second time.

`WalkErr` is the WalkDirFunc's `switch` on an error, and `OnErr` applies it.
`Start` covers the SIDs and `HasRoot`, and `Done` is a nil return. `Remove`
is someone else deleting a subtree during the walk.

## 4. Runs

| Run | Checks | Shows |
|---|---|---|
| `enroll_decision` (`MCFleetEnroll.cfg`) | `TypeOK` (includes `retries <= 3`), `InvalidKeyMeansEnroll`, `Idempotent`, `Refines` (`EnrollDecision!ASpec` under `phase <- IF pc \in {"acking", "waiting"} THEN "deciding" ELSE pc`), `DecisionReached` | Passes (141,256 distinct states). The model covers restarts, revocations between attempts, store failures and changed setups. A 401 on any probe attempt leads to enrollment. The probe never makes a 4th attempt. A "skip" with backfill is stable for the same setup. The multi-step decision never enrolls without a contract reason and never skips with a key the server rejects at the returning attempt. It never rewrites an existing hash. Every decision that starts ends in enrollment, a running agent or an exit, whatever the server answers (`DecisionReached`). |
| `kibana_token_outage` (`MCKibanaFetch.cfg`) | `TokenIsKeySecret` | Violation, as expected. Policies and keys are listed, then every GET of the key detail fails. `performGET` returns nil because its `lastErr` is never assigned. `kibanaFetchToken` then returns `""`, and `enroll` runs without `--enrollment-token`. |
| `container` (`MCContainer.cfg`) | `TypeOK`, `AgentRunsWithPathsFile`, `ApmExitEndsContainer` | Passes (246,940 distinct states, every configuration shape, about 40 s). The run covers the whole container, with `docker exec` commands, kills and restarts on the same volume. Whenever the APM Server exits, the container ends, wherever the agent is. While the agent starts and runs, `container-paths.yml` is complete, whatever an earlier killed start left. |
| `container_agent_done_hangs` (`MCContainerStartHang.cfg`) | `AgentDoneMeansExit` | Violation, as expected. In cloud mode with the APM Server running, a failed enroll, or `run()` ending after `docker stop`, reaches `wg.Wait()` before the deferred `apmProc.Stop`. The container then waits forever (`container.go:278`). |
| `container_paths_torn_config` (`ContainerPathsTorn.cfg`) | `StartedWithWholeConfig` | Violation, as expected. On a fresh volume the start's `io.Copy` fails (or the container is killed mid-copy), leaving a truncated `elastic-agent.yml`. The next start finds the file with `os.Stat`, skips the copy (`container.go:835`), writes `container-paths.yml` and starts the agent on the truncated file. |
| `fleet_server_no_service_token` (`MCContainerStartSvcToken.cfg`) | `FleetServerEnrollHasServiceToken` | Violation, as expected. In Fleet Server mode with only `Kibana.Fleet.ServiceToken` set, `ensureServiceToken` returns nil at once (`container.go:360`). The Fleet Server's token stays empty, and `buildEnrollArgs` passes neither `--fleet-server-service-token` nor its path. The function's comment says it ensures the token attributes are filled. |
| `mage_parallel` (`MCMageParallel.cfg`) | `TypeOK` (includes `sem <= MaxParallel`), `FailuresReported`, `Termination` | Passes (3,270 distinct states). The model has three functions, one of which makes a nested call, and two slots. The slot bound holds. Every error and recovered panic is in `errs` when `wg.Wait()` returns. The target's call ends. |
| `docker_missing_spec` (`MCDockerBuildMissingSpec.cfg`) | `AllFilesCopied` | Violation, as expected. A missing spec of an `ExpandSpec` file ends `copyFiles` with nil, so later files are never copied and the build goes on (`dockerbuilder.go:121`). |
| `docker_torn_save` (`MCDockerBuildTornSave.cfg`) | `ArtifactsComplete` | Violation, as expected. The deferred `Close` errors of the gzip writer and the file are dropped, so `Build` succeeds with a truncated artifact (`dockerbuilder.go:300`). |
| `archive_escape` (`MCArchive.cfg`) | `EntriesStayInside` | Violation, as expected. A tar with the single directory entry `../d2`, extracted to `d`, makes `d2` beside the destination. `filepath.Join` gives `d2`, and `strings.HasPrefix("d2", "d")` holds (`common.go:458`). With the destination spelled `d/`, the string check is sound, but TLC then finds the symlink route. A symlink entry `a -> ..` is followed by a directory entry `a/a`, and `MkdirAll` creates `./a`. |
| `windows_permissions` (`MCPerms.cfg`) | `WalkAppliesAll` | Passes (796,672 distinct states). A walk that returns nil has applied the grants (inheritance everywhere but `topPath`), and as Administrator the owner, to every entry still present. This holds whatever was removed during the walk. |
| `eql_array_contains` (`EqlArray.cfg`) | `MatchesReference` | Passes (12,350 distinct states). `arrayContains` agrees with the set-based reference for every argument list of up to 3 values, with arrays of up to 3 elements. |

Each property of a passing run has a mutant in `PROJECT.json`. A mutant is a
plausible bug in the mapped code, and TLC finds each one:

- A 401 treated as retryable breaks `InvalidKeyMeansEnroll`.
- An off-by-one retry count breaks `TypeOK` of `FleetEnroll`.
- The retry counter declared inside the operation, so every attempt counts as
  the first, breaks `DecisionReached`: the probe retries forever.
- Hashes backfilled into each other's field break `Idempotent`.
- The id check without its `FLEET_ID != ""` guard breaks `Refines`.
- An unbounded semaphore breaks `TypeOK` of `MageParallel`.
- A dropped recovered panic breaks `FailuresReported`.
- A slot released only on return breaks `Termination`.
- A double `wg.Done()` breaks `TypeOK` of `ContainerStart`.
- A watcher that skips `wg.Done()` on error breaks `ApmExitEndsContainer`.
- Testing only the first argument breaks `MatchesReference`.
- Ignoring the write error breaks `AgentRunsWithPathsFile`.
- A WalkDirFunc that skips every error, not only `fs.ErrNotExist`, breaks
  `WalkAppliesAll`.

The mutants of `ContainerStart` and `ContainerPaths` are checked under the
`container` run, through the composition.

### Bounds

- One agent id: a second id only renames.
- Two URLs and two tokens: enough for a URL or token mismatch and for a
  backfill that differs from the stored value.
- Three API keys: enough for an initial key, a revocation and two
  re-enrollments.
- `MaxRetries = 3` and docker build's `Retries = 3`, as in the code.
- `RetryMaxCount = 2`: a retry happens and the loop can run out. The code's
  default of 30 adds nothing but length.
- `MageParallel`: two slots and three functions, so a function waits for a
  slot. One function makes a nested call whose function needs a slot.
- `DockerBuild`: three package files (plain, `ExpandSpec`, `SkipOnMissing`)
  with any of them missing, and two extra tags. That is enough for the
  main-then-extra order, a missing spec before a later file, and a torn
  save followed by another tag.
- `ContainerPaths`: one start and one exec, over a volume that is fresh or
  complete. Crashes make every intermediate state of the files.
- `Archive`: up to two entries, with names of one or two of `a`, `..` and
  `d2`. The destination is spelled `d`, `d/` or `./d`, and a symlink points
  to `..`. That is the fewest entries for a symlink followed by an entry
  below it, and the fewest names for a sibling that shares the destination's
  prefix.
- `Container`: every configuration shape. A restart keeps the environment,
  since a restart policy or `docker restart` does. Kills and restarts are
  unbounded, but a restart resets everything except the volume, so the state
  space is finite.
- `Perms`: all 512 masks (they decide the owners), with the UID and GID each set or not. The tree has
  a file at the top and a directory holding a file. An entry can vanish
  before its directory is read, after, or while it waits for `Apply`.
- `EqlArray`: two scalars and null, with lists and arrays of length 3. That
  covers a match at the first, a middle and the last position, and none.

### Fairness

- `FleetEnroll`: `ShouldFleetEnroll`, `AckAttempt` and `AckResponse` are
  weakly fair. The code runs them without waiting on anyone, and an ack is
  assumed to come back with some answer, because the HTTP transport bounds
  each request. A request that never returns is outside the model (see the
  hazard at `container.go:1049`). Start, stop, revoke and enroll are the
  environment's and get none.
- `KibanaFetch`, `DockerBuild`, `ContainerPaths`, `Archive`, `Perms` and `EqlArray`:
  only safety is checked, so there is no fairness.
- `MageParallel`: each goroutine and caller step is weakly fair, because the
  Go scheduler runs runnable goroutines. `Acquire` is strongly fair: a sender
  blocked on a full channel is queued FIFO and handed the next free slot.
- `ContainerStart`: every step of the agent's code and of the watcher
  goroutine is weakly fair, because its network calls are bounded by retries
  and timeouts. The APM Server exiting, `run()` failing and `docker stop` are
  the environment's choice and get no fairness.
- `Container`: the same weak fairness on the code's steps, including the
  start process's `setPaths`. `docker exec`, the kill and the restart are the
  environment's and get none.

## 5. Not modelled, and why

- No passing run checks `DockerBuild`. Its two runs show the two violations,
  and the twelve-run limit of the model-checking setup leaves no slot for a
  run whose only property would be the bound on `tries`. The retry-loop
  hazard (`dockerbuilder.go:65`) is therefore listed without a property.
- The grant arithmetic of `FixPermissions` is modelled, but no property
  judges it. The shifts give the user, the group and Everyone the Windows
  rights of their mode bits. The function's comment (`windows.go:22`) says
  only SYSTEM and Administrators get access. Which one is intended is open.
- The encryption of the store and PBKDF2: they are out of TLC's reach and do
  not affect control.
- Inside `FixPermissions`: `newOpts` and the `acl` package are not under
  `src/`. The mask and ownership are inputs, and `Apply` and `TakeOwnership`
  either succeed or fail. No run states that a concurrent removal must not
  make `FixPermissions` fail. The code does fail when `Apply` meets an entry
  that vanished after its directory was read, while it skips `ErrNotExist`
  from `Lstat` and `ReadDir`.
- `writeContainerPaths` never closes or syncs the file. A host crash, as
  opposed to a killed container, could lose the write. The model's kill keeps
  whatever was written.
- These have no control state: the header-stamping decorators,
  the Kubernetes test matrix, the PGP blob, docker provider defaults, the
  reexec stub and the tests.
- Template expansion, `Tar`, `FindReplace`, `FileConcat`, the checksum,
  docker and shell helpers of `common.go`: sequential I/O with no state kept
  between calls.
- The environment helpers of `container.go` (`envWithDefault` and the like)
  and `truncateString`: pure lookups and string cuts. Every call in `src/`
  passes one key, so their precedence rules never act.
- `uninstall.go`: a straight chain of guards with no state, so a model would
  only restate them.
- `OutputFile` in `dockerBuilder`: every tag would be saved to the same file.
  The package specs that set it are not under `src/`, so it is listed as a
  hazard without a run.
- The nested-call deadlock of `ParallelCtx` when every slot is held by a
  function waiting on its nested call. `mage_parallel` gives the one nesting
  function one of two slots. With `MaxParallel = 1`, TLC finds `Termination`
  violated.
- An unclean `destinationDir` (`./d`): `Extract` rejects every entry, because
  `Join` cleans the path and the prefix check does not. The model takes this
  path, but no property states that extraction succeeds.
- The nil `Fleet.Info` dereference at `container.go:1137`: see the hazards in
  `PROJECT.json`.
