# Formal models of dynamic-credential-provider

The repository is a set of small programs that give the kubelet credentials for image
pulls. This directory holds TLA+ specifications of its core logic, TLC configurations that
check them on small instances, and proofs that TLAPS checks for every value of the
constants. `PROJECT.json` says which lines each definition models (`map`), which behaviours
are hard to test (`hazards`), which run checks what (`runs`), which fault of the code each
property notices (`mutants`), and where the code disagrees with what the repository says
(`findings`).

    tlc -workers 2 -config CredentialLookup.cfg MCCredentialLookup.tla
    tlapm CredentialLookupProofs.tla

## The system

| part | source | state it keeps | operations | talks to |
|---|---|---|---|---|
| credential lookup | `pkg/credentialprovider/dynamic/dynamic.go` | the loaded configuration, the registered providers; during a call the results of two lookups and the map of the response | `GetCredentials` (mirror lookup, origin lookup, merge) | plugin executor, URL globber; its response goes to the kubelet |
| plugin executor | `dynamic/plugin_executor.go` | the executions in flight (singleflight), a one minute timeout | `Provide`, `ExecPlugin` | runs other credential provider binaries |
| configuration loading | `dynamic.go:49-116`, `apiversions` | the map of providers | `NewProviderFromConfigFile`, registration | reads the file that sync-config writes |
| URL globber | `pkg/urlglobber` | none | matching, the wildcard domain of an image | - |
| request handling | `pkg/credentialprovider/plugin` | none | decode and check a request, call the provider, encode | stdin and stdout of the kubelet's plugin call |
| static provider | `pkg/credentialprovider/static` | none | read the credentials file | the file that sync-config writes |
| file watcher, sync-config | `pkg/filewatcher`, `cmd/.../sync_config.go` | inotify watch and queue, one goroutine per file, the destination files on the host | `Start`, `Watch`, the copy callback | mounted Secrets (the kubelet writes them), files on the host |
| installer | `pkg/install` | binaries and temporary files in the plugin directory of the host | `Install` | the kubelet runs the binaries |
| admission webhook, API types | `pkg/webhooks`, `apis/config` | none | `Default`, `validate` | the API server |
| command lines, log levels, generated code, charts, e2e tests, build | `cmd`, `pkg/log`, `charts`, `test`, `make`, `hack` | none | wiring | - |

On a node they work together like this. A DaemonSet's init container runs the installer,
which puts the binaries into the kubelet's plugin directory. Its main container runs
sync-config, which keeps two files on the host equal to two mounted Secrets: the
configuration of the dynamic provider and the credentials of the static one. At an image
pull the kubelet runs the dynamic provider's binary: it loads the configuration, looks the
image up under its mirror name and its own name by running further plugins (the static
provider among them), merges the results and prints the response. The kubelet tries the
credentials whose keys match the image from the last key to the first in byte order, and
caches the response for its cache duration.

### What is hard about it

- Go ranges over maps in random order, twice in each lookup, and the choice of the key
  (`dynamic.go:293`) is not a maximum of one order.
- Precedence between mirror and origin is encoded in the byte order of two map keys.
- One cache duration stands for two credentials that came from different plugins.
- Any plugin may fail at any point; part of the results is then already there.
- Updates of a Secret race with the watcher's start, its copy and its event loop; events
  can be dropped; copies fail; the process is killed at any point (it ignores SIGTERM).
- A plugin can print part of its answer, hang, leave children behind that print into the
  same output or keep it open, and end just when the timeout does.
- The installer is killed or replaced at any point and starts over from what is left.
- One image pull reads the configuration once and the credentials up to twice, while both
  files are rewritten in place; its response may be cached beyond the next update.
- Two timeouts of one minute are nested, and the inner timer is one of the process that the
  outer one kills.
- The same configuration is checked at admission and at loading, by different code, and its
  providers are registered one by one while their binaries are being installed.

### What makes each part correct

- Lookup: only credentials a concerned plugin granted for the name looked up, never for
  longer than it allows; the strategy decides what the kubelet tries first; all concerned
  plugins have been heard; the call ends if its plugins do.
- Sync: a waiting watcher's destination is current; no way back to an older version;
  convergence after the last update.
- Installer: the kubelet sees whole binaries only, old or new; success means that all are
  in place; it gets there in the end.
- Executor: an answer is what the whole output of a plugin that succeeded in time decodes
  to, nobody can still change it, and the call ends once the output is let go of.
- Loading and admission: what is loaded is what was configured, whole; what is admitted can
  be loaded, as far as that does not depend on the node.
- Request handling: a success is one whole response to a proper request, an error nothing.
- Static provider and pulls: what a pull reads and serves never goes back, and in the end is
  what the Secrets hold.
- Timeouts: a call that ends by itself leaves no plugin behind.

## The modules

| module | models | about |
|---|---|---|
| `UrlGlobber` | `pkg/urlglobber`, the mirror's name of an image | pure operators |
| `CredentialLookup` | `GetCredentials` and all it calls in `dynamic.go`; `isImageAllowed`, `DefaultCacheDuration` and the outcomes of `Provide` | state machine of one call, EXTENDS `UrlGlobber` |
| `CredentialPolicy` | what a call promises | abstract specification, implemented by `CredentialLookup` |
| `MCCredentialLookup` | - | a small registry world for TLC |
| `PluginExec` | `ExecPlugin` and all it calls in `plugin_executor.go` | state machine of one execution |
| `MCPluginExec` | - | parts of documents, and how they decode, for TLC |
| `NestedTimeouts` | the minute of `ExecPlugin` inside the kubelet's | timed state machine of successive pulls |
| `FileSync` | `sync_config.go`, `watcher.go` | processes, volume, queue, crash |
| `SyncedFiles` | what a reader of the synchronised files may rely on | abstract specification, implemented by `FileSync`, composed into `ImagePull` |
| `ImagePull` | the reads of configuration and credentials in a pull, the response, the kubelet's cache | state machine of successive pulls over the files of `SyncedFiles` |
| `MCImagePull` | - | two configurations that lead to different lookups |
| `Node` | sync-config and the pulls on one node | composition: EXTENDS `FileSync`, INSTANCE of `ImagePull` on the same files |
| `MCNode` | - | the same two configurations for TLC |
| `ConfigAdmission` | the webhook; `registerCredentialProviderPlugins`, `newPluginProvider`; the installer's directory | admission and loading of one configuration, EXTENDS `UrlGlobber` |
| `MCConfigAdmission` | - | configurations with each fault for TLC |
| `PluginRequest` | `pkg/credentialprovider/plugin`, the static provider, the commands' exit | state machine of one process of either binary |
| `MCPluginRequest` | - | requests and file contents with each fault for TLC |
| `Install` | `install.go` | state machine of the init container |
| `AtomicInstall` | what the installer promises | abstract specification, implemented by `Install` |
| `MCInstall` | - | the two binaries for TLC |
| `CredentialLookupProofs`, `PluginExecProofs`, `NodeProofs`, `InstallProofs`, `ImagePullProofs`, `NestedTimeoutsProofs`, `ConfigAdmissionProofs`, `PluginRequestProofs` | - | theorems |

A definition that no other one uses, such as `ReplacesBestShorter`, stands before the
definition it is a faulty variant of. `PROJECT.json` lists them under `mutants`: with the
faulty variant in place TLC finds the named property violated.

### CredentialLookup

`phase` is where the call is: `start`, the `mirror` and the `origin` lookup, `merge`, and
`done` or `failed`. `pending` and `keys` are what the two map ranges have not reached yet,
so that every order of either range is a behaviour. `best` is the triple
`longestMatchedURL`, `authConfig`, `cacheDuration` of `getCredentialsForImage`; `mirror` and
`origin` are its two results; `response` is the response.

| code | action |
|---|---|
| `dynamic.go:229-231`, `242-255` | `SkipMirrorLookup`, `StartMirrorLookup`, `RejectEndpoint` |
| `dynamic.go:262-273`, `Provide` | `ProviderNotConcerned`, `ProviderFails`, `ProviderAnswers` |
| `dynamic.go:288-301` | `ConsiderKey` |
| `dynamic.go:304`, `128-148` | `EndMirrorLookup`, `EndOriginLookup` |
| `dynamic.go:145-167`, `170-223` | `Respond`, `RejectMerge` |

A URL is a record of scheme, host parts, port and path. The path is the sequence of pieces
at which some key cuts it, because the code compares paths as raw string prefixes: a key
for `/ap` matches the image `/app`. `Before` and `Length` (byte order and length of the
texts) are constant operators with the facts about them that hold of strings as
assumptions. What a plugin does is any of the constant `Answers`, or an error, and may
differ between the two lookups. Ranging over providers and running them is one action each:
the call is sequential and shares nothing while it runs, so that the only interleaving is
with its plugins.

Properties:

- `EntriesAreGranted`: each credential of a response comes from an answer of a provider
  that is configured for the name looked up, under a key that matches this name, and the
  duration of the response is not longer than that answer allows.
- `BestKeyWins`: a lookup finds a credential exactly if one was offered, and the credential
  and the duration it keeps come from one answer. A key that is the longest and the last of
  those offered is the one kept, whatever else was offered and in whatever order.
- `ImplementsPolicy`: the call refines `CredentialPolicy`. The refinement mapping turns the
  response into the sequence of credentials the kubelet will try (`KubeletAttempts`), so
  that the policy can state the mirror strategies without speaking of map keys.
- `CallAdvances`: a step that does not fail leaves the call with fewer lookups, providers or
  keys to go through (`LookupsLeft`, `pending`, `keys`, in this order of weight). No plugin is
  asked twice in a lookup and no lookup begins again.
- `Returns`: every call ends, if every plugin it runs does. That a plugin ends is not assumed
  of the code but is the property's antecedent (`PluginsEnd`): the timeout does not ensure it
  (`PluginExecRunsForever`).

Where the code and the repository's words disagree:

- `LastKeyWins`, a run that TLC must find violated: the condition at `dynamic.go:293` is "longer or later". Of a longer,
  earlier key (`*.io/ap`) and a shorter, later one (`reg.io`) the one ranged over last wins,
  where the documented order puts the later one first. Two calls with the same answers can
  differ.
- If nothing is found for the image, the response has an entry with an empty user and
  password (`dynamic.go:143`), where `pkg/urlglobber/doc.go:12` wants none. `CredentialPolicy`
  describes what the code does.
- The comments at `dynamic.go:190` and `202` are exchanged; the code does what the names of
  the strategies say, and so does `CredentialPolicy`.
- A mirror without a strategy is not given the default of the API type's comment
  (`dynamiccredentialprovideconfig_types.go:41`), and the call that
  finds mirror credentials fails; the unknown strategy among the configurations stands for it.

### PluginExec

One execution of a plugin. The program and the children it may start are external: each
prints what it likes, in any order (`Prints`); the plugin may end at any point (`PluginEnds`)
and a child keeps the output open until `ChildReleases`. `holders` are the processes that
hold the writing end of the pipe. `stdout` is the sequence of what was printed, and the
constant operator `Decode` says which document, if any, such a sequence holds: parsing and
decoding are the Kubernetes libraries', and all that the module asks of `Decode` is its type.

| code | action |
|---|---|
| `plugin_executor.go:172-193` | `CannotStart`, `Start` |
| `186`, the context's deadline | `Expire`, `Kill` |
| `235`, `cmd.Run` | `Reap` (the process has ended), `Collect` (its output has) |
| `236-252`, `210-231` | `Judge`, with the checks in the order of the code |

- `AnswerIsWhole`: the call answers only if the plugin succeeded before the deadline, and
  then with what the whole of the output decodes to, a document of the configured version
  and the right kind, when no process can add to the output any more. It does not say that
  the plugin printed all of it: the code reads one buffer and cannot tell, so that blanks
  printed by a child, text that falls into a string of the document, and even a document
  printed by a child alone are accepted. All three happen in the run.
- `ReturnsOnceReleased`: the call ends if the children let go of the output in the end.
- `DoesNotRunForever`, the comment at line 182, is violated (`PluginExecRunsForever`): the
  timeout kills the plugin only, and `Run` waits for every holder of the output.

`CredentialLookup` sees an execution as one action, `ProviderAnswers` or `ProviderFails`,
which need not happen.

### NestedTimeouts

The kubelet runs the dynamic provider as a plugin and kills it after a minute. Within that
minute the provider runs up to two lookups' plugins one after the other, and gives each a
minute of its own. Time is counted in ticks; `age` is the time of the process, `since` that
of its plugin, and a deadline does not pass before the timer waiting for it has run.

| code | action |
|---|---|
| `plugin_executor.go:182-206` | `RunPlugin` |
| `dynamic.go:262-273` | `PluginAnswers`: the loop goes on |
| `plugin_executor.go:234-253` | `PluginFails`; `Expire` when the context's deadline has passed |
| `dynamic.go:145-168` | `Respond` |
| external: kubelet, the plugin, time | `StartPull`, `KubeletKills`, `OrphanEnds`, `Tick` |

- `OrphansAreTheKubelets`: a call that ends by itself, by a response, an error or its
  timeout, leaves no plugin running; there are never more plugins left behind than pulls that
  the kubelet killed (`kills`). Pull after pull may add one.

No property speaks of how long a plugin may run. The comment at
`plugin_executor.go:182-185` does not reckon with the kubelet's minute, which began before the
plugin's: a later plugin has less than a minute, and the timer that should end a hanging one
belongs to a process that is killed at that moment or before. That follows from the two
lengths alone.

### FileSync

Each file has a volume (`secret`, the version that `..data` points to, and `dirs`, the
version directories that exist), an inotify queue and a goroutine (`pc`). The kubelet's
atomic writer is external to the repository and has three steps, each of which queues an
event: `WriteVersion`, `SwapData`, `RemoveOldVersion`. The kernel drops an event if the
queue is full.

| code | action |
|---|---|
| `sync_config.go:64-96` | `Boot` |
| `watcher.go:39-53` | `AddWatch`; `CannotWatch` if there is no inotify instance or watch left |
| `watcher.go:55`, `71-113` | `ReceiveEvent`, and the copy it may call for |
| `sync_config.go:71-88` | `Resolve`, `Open`, `Write`, `PassOver`, `SourceVanished`, `CopyFails` |
| `watcher.go:55-60`, `80-82` | `Abort`: an error of the first copy is one of `Start`, a later one is logged |
| `watcher.go:51-60`, `sync_config.go:90-96` | `FailStart`: an error of `Start` stops the process |
| `sync_config.go:98` | `Exit` |
| no SIGTERM handler | `Crash` |

`Resolve` is the last time the path is resolved through `..data`, when the source is opened;
`Lstat` and `Readlink` before it matter only if they fail. An interrupt (SIGINT) ends the
process like `Exit`; the kubelet does not send one.

- `IdleInSync`: a file whose watcher waits, with no event queued that calls for a copy, is a
  copy of the current Secret, unless a copy failed or its last event was dropped since.
- `NeverOlder`: the destination never goes back to an older version.
- `ConvergesUnlessMissed`: once updates, failures and crashes are over the destination
  becomes and stays current, with the same exception.
- `Converges`, without the exception, is what the flag's help text and the e2e test say, and
  is violated (`FileSyncFailedCopy`): a failed copy is not tried again.
- `ImplementsSyncedFiles`: to a reader the process is no more than `SyncedFiles`: a file that
  may be torn while it is rewritten, and whose versions only grow and are ones the Secret
  had. `secret`, `dest`, `missed` and `newest` are the variables of the same names; the
  queue, the goroutines, the process and the volume's directories are hidden.

### SyncedFiles and ImagePull

`ImagePull` composes image pulls with the abstract files of `SyncedFiles`; since `FileSync`
implements those, what pulls may rely on is shown without its queues and goroutines. A pull
is one process of the dynamic provider (`phase`), which runs the static provider once for
each of the lookups (`todo`) the configuration it read leads to. `used` is what the pull has
read so far, `served` what the last response was made from, `cached` whether the kubelet
still answers with it.

| code | action |
|---|---|
| `dynamic.go:49-74` | `LoadConfig` |
| `static_credentials.go:39-51` | `LookUp`, once for each lookup |
| their error returns, `get_credentials.go:40-52` | `ReadFails`: no file, or one that does not decode |
| `dynamic.go:159-168` | `Respond` |
| external: kubelet | `StartPull`, `Kill`, `Expire` |

A torn file is read as such, and may or may not decode: both continuations are behaviours,
since a prefix of a document can be a document.

- `PullsReadForward`: a pull reads nothing older than what was on the host when it began, and
  nothing older in its second lookup than in its first.
- `ServedForward`: a response is never made from an older version than the one before it.
- `ServesCurrent`: once the files are and stay what the Secrets are, so are the credentials
  the kubelet uses. `Node` puts this and `ConvergesUnlessMissed` together.

What they do not say is that a pull uses one version for all: the two lookups of one pull may
see two versions of the credentials, and the configuration another update.

### Node

The whole node: every variable and action of `FileSync`, and those of `ImagePull` over the
same `secret`, `dest`, `missed` and `newest`. A step of either leaves the other's variables
alone: the process and the pulls share the two files and nothing else. This is the system
that runs; `ImagePull` by itself has `SyncedFiles` in the place of `FileSync`.

- `ImplementsImagePull`: with the queues, goroutines and directories of `FileSync` behind the
  files the pulls do nothing that they do not do over `SyncedFiles`, and, as the fairness is
  the same, must do what they must there.
- `AnswersSettledSecrets`: a pull that begins while the watcher of a file waits, with no event
  left that calls for a copy and none missed, is answered with the Secret of that moment or a
  newer one, though the file may be rewritten before the pull reads it.
- `SecretsReachKubelet`: once updates, failures and crashes are over, what the kubelet uses is
  what the Secrets hold, unless a copy failed or its last event was dropped.

### Install and AtomicInstall

`target` and `temporary` are the plugin directory; a binary's content is the release it
comes from, 0 if it comes from none. `Start` (configuration and directories), `LeaveAlone`
(skipped, not to be updated, or up to date), `BeginCopy`, `CreateTemporary`,
`WriteTemporary`, `Rename`, `RenameOverDirectory` and `Finish` follow `Install` and
`copyFileAndPermissions`; `Fail` is any error return, `Kill` the end of the container at any
point, `RollOut` another release or other settings, which may meet what the last installer
left. `AtomicInstall` knows only whole binaries: `Place`, `Succeed`, `RollOut`.
`ImplementsAtomicInstall` maps `installed` to `pc = "done"`. `EventuallyInstalled`: unless a
directory is in the way, the installer ends up successful.

### ConfigAdmission

A configuration is judged by the webhook, at some time, and loaded by every pull, while the
installer fills the directory. `at` is the provider the registration has reached,
`registered` the map of providers, `installed` the directory.

| code | action |
|---|---|
| `dynamiccredentialprovideconfig_webhook.go:26-83`, `credentialproviderconfig_validation.go` | `Validate`; `Panic` without providers |
| `dynamic.go:49-81` | `StartLoading` |
| `dynamic.go:83-87` | `InspectDirectory` |
| `dynamic.go:90-93` | `InspectBinary` |
| `plugin_executor.go:30-59` | `NewPluginProvider` (its only error, the API version) |
| `dynamic.go:107-113` | `RegisteredTwice`: `klog.Fatalf` ends the process |
| `dynamic.go:95-116` | `Register` |
| `dynamic.go:73-81` | `FinishLoading` |
| `install.go:114-119`, `147-154` | `MakeDirectory`, `Install` |

A file is not asked about by the webhook unless somebody creates the object too, and the
repository has no server that registers it: admission and loading are independent, and
happen in either order.

- `RegisteredAsConfigured`: after loading each configured provider is registered with its own
  settings, and nothing else is.
- `AdmittedLoads`: an admitted configuration fails to load only for what is on the node or
  for two providers of one name, which the webhook does not look for.
- `LoadsOnceInstalled`: a configuration that is not at fault is loaded by every pull from some
  time on, although pulls before failed for a binary that was not there yet.

The validation dereferences `credentialProviders` without a look
(`credentialproviderconfig_validation.go:44`) and panics if the configuration has none,
although the field is "+optional" (`dynamiccredentialprovideconfig_types.go:32`) and loading
accepts that. `Panic` is that step; a property that excludes it would be false.

### PluginRequest

One process of either binary, from its start to its exit. `pc` follows `runPlugin`; `sent` is
what has been written to the pipe; `held` is a history of what the credentials file held
since the request was complete. The writer has a buffer: a response that fits it is written
by the deferred `Flush` (`plugin.go:107`), a longer one in at least two writes.

| code | action |
|---|---|
| `get_credentials.go:33-46` | `Initialise`, `CannotInitialise` |
| `plugin.go:68-90`, `122-157` | `ReadRequest`, with the checks in `Accepted` |
| `static_credentials.go:40-78` | `ReadCredentials` |
| `plugin.go:92-99` | `CallDynamicProvider`: any answer or an error |
| `plugin.go:101-113` | `WriteLarge`, `WriteRest`, `Buffer`, `Flush` |
| the commands' `main` | `Exit`: an error is logged and ends the process with status 1 |
| external: the caller, sync-config, SIGPIPE | `Send`, `LoseOutput`, `Kill`, `Rewrite`, `Broken` |

- `SuccessIsAnswer`: a process that succeeds has sent one whole response to a proper request;
  the static provider one that the credentials file held at some moment after the request
  was complete.
- `FailureIsSilent`: a process that fails by itself has sent nothing. Half a response is only
  left by one that was killed or lost its reader, and then its status says so.
- `Ends`: every process ends once its caller has closed its input.

The error of the deferred `Flush` is dropped. Through a pipe nothing is lost by that: Go ends
a process by SIGPIPE when a write to the standard output meets a closed pipe. With its
output redirected to a file, on a full disk, a process would exit with success having
written nothing; neither the kubelet nor the dynamic provider runs it that way, and the model
has the pipe only.

## The runs

| run | bounds | shows |
|---|---|---|
| `CredentialLookup` | 3 images, 6 answers (nested, overlapping, wildcard and malformed keys, keys whose length and byte order disagree, an empty answer), 2 providers that concern both names or 1 that concerns the mirror's, every strategy, an unknown one, no mirror and a malformed endpoint | all properties of the lookup |
| `LastKeyWins` | the same | the finding |
| `PluginExec` | 4 documents (proper, of another version, of another kind, with a field of the wrong type), each with or without a text within; 2 children; up to 3 prints of a beginning, an end, a text or a blank, each by anyone who holds the output | all properties of an execution |
| `PluginExecRunsForever` | the same | the finding |
| `FileSync` | 2 files, 2 versions of each, one crash, one failure of a copy or a watch, a queue of one event | all properties of the sync; two files show that a failing first copy of one stops the other; an event finds the queue full behind that of the new directory and is dropped, with or without a restart that makes up for it |
| `FileSyncFailedCopy` | 1 file, 2 versions, one failure | the finding |
| `Install` | 2 binaries, 2 releases, one roll-out, one failure, one kill; each target missing, foreign or a directory at first; every set of skipped binaries, with and without updates | all properties of the installer |
| `NestedTimeouts` | a minute of 4 ticks, 3 plugins in each of 3 pulls | its two properties: the type, with the bound on what is left behind, and whose it is |
| `ImagePull` | 2 files, 2 versions of each, one pull given up; the first configuration leads to two lookups, the second to one | all properties of pulls |
| `Node` | 2 files, 2 versions of each, a queue of 3, which no run fills; no crash, failed copy or pull given up | the properties of the composition |
| `ConfigAdmission` | 1 or 2 providers, of every pair of names and versions; every fault a check looks for, on its own; no providers, an empty list; 2 binaries installed in any order | all properties of admission and loading |
| `PluginRequest` | 5 requests (a proper one and one for each check), 4 contents of the file, one response that fits the buffer and one that does not; both binaries | all properties of a process |

One answer per provider and lookup with up to three keys is enough for every order of two
keys from one or from two providers to occur, which is all that the choice compares at a
time. Two versions are enough for an update to meet every step of a copy. A queue of one event
drops events in `FileSync`; in `Node`, where it has room for all three events of an update,
several wait in it at once. Nothing is ever missed there, so that the hypothesis of
`SecretsReachKubelet` always holds in that run: it checks the conclusion, and what is missed,
and made up for, is the subject of `FileSync`. `Node` has no crashes and failures because the product of both
parts with them is beyond the time a run should take: each part has them in its own run, and
the theorems about `Node` have any number of them. In
`ImagePull` an update of either file meets every step of a pull with two reads of the same
file, and the second configuration changes the lookups. Four ticks and three plugins let a
plugin be started at any time of the minute, run over its end, and follow two that did not.
Two providers are the least that can have one name, and the least of which one can be missing
when the other was registered. The
safety properties do not rest on these bounds where a theorem states them.

`CHECK_DEADLOCK FALSE` in every configuration: a call ends, an installer is done, and a
watcher waits for updates that need not come.

**Fairness.** The steps that are a lookup's own are weakly fair (`CallStep`): it is one
goroutine. What ends a plugin (`PluginEnds`) is not. In `PluginExec` time passes and
the call and the kill proceed; neither the plugin nor its children need to end. In `FileSync`
the process's goroutines run, the kubelet ends an update it began, and restarts the container; nothing
makes new versions, failures or crashes happen. `Write` and `CopyFails` compete: fairness of
the copy does not rule out the failure, which is bounded. In `Install` the kubelet restarts
the init container until it succeeds. In `ImagePull` the kubelet retries pulls and drops
cached responses in the end (cache durations are finite), and a process that runs proceeds;
that the files converge is the hypothesis of `ServesCurrent`, not an assumption. `Node` has
the fairness of these two and no other. In
`ConfigAdmission` the installer is restarted until it is done, pulls are repeated, and the
single goroutine that loads proceeds. In `PluginRequest` the process proceeds, its provider
returns, and the caller closes the input. `NestedTimeouts` has safety properties only and
states no fairness.

## The proofs

| theorem | states |
|---|---|
| `CredentialLookupProofs!TypeCorrect` | `Spec => []TypeOK` |
| `CredentialLookupProofs!ResponsesAreGranted` | `Spec => []EntriesAreGranted` |
| `CredentialLookupProofs!BestKeyAlwaysWins` | `Spec => []BestKeyWins` |
| `CredentialLookupProofs!CallImplementsPolicy` | `Spec => ImplementsPolicy` |
| `PluginExecProofs!ExecTypeCorrect` | `Spec => []TypeOK` |
| `PluginExecProofs!AnswersAreWhole` | `Spec => []AnswerIsWhole` |
| `CredentialLookupProofs!CallAlwaysAdvances` | `Spec => CallAdvances` |
| `CredentialLookupProofs!WildcardKeyMatches` | which URLs the wildcard key of an image matches |
| `CredentialLookupProofs!MirrorKeyMatches` | a mirror's address as a key matches every image under its mirror's name |
| `NodeProofs!SyncTypeCorrect` | `Spec => []TypeOK` |
| `NodeProofs!WaitingMeansInSync` | `Spec => []IdleInSync` |
| `NodeProofs!NeverGoesBack` | `Spec => NeverOlder` |
| `NodeProofs!SyncImplementsSyncedFiles` | `Spec => ImplementsSyncedFiles` |
| `NodeProofs!NodeImplementsImagePull` | `NodeSpec => ImplementsImagePull` |
| `NodeProofs!SettledSecretsAreAnswered` | `NodeSpec => AnswersSettledSecrets` |
| `NodeProofs!NodeReadsForward` | `NodeSpec => []Pulls!PullsReadForward` |
| `NodeProofs!SecretsReachKubeletByParts` | if `Spec => ConvergesUnlessMissed` and `Pulls!Spec => Pulls!ServesCurrent`, then `NodeSpec => SecretsReachKubelet` |
| `ImagePullProofs!PullTypeCorrect` | `Spec => []TypeOK` |
| `ImagePullProofs!PullsAlwaysReadForward` | `Spec => []PullsReadForward` |
| `ImagePullProofs!AlwaysServedForward` | `Spec => ServedForward` |
| `NestedTimeoutsProofs!TimeoutsTypeCorrect` | `Spec => []TypeOK` |
| `NestedTimeoutsProofs!OnlyKubeletOrphans` | `Spec => []OrphansAreTheKubelets` |
| `ConfigAdmissionProofs!AdmissionTypeCorrect` | `Spec => []TypeOK` |
| `ConfigAdmissionProofs!AlwaysRegisteredAsConfigured` | `Spec => []RegisteredAsConfigured` |
| `ConfigAdmissionProofs!AdmittedAlwaysLoads` | `Spec => []AdmittedLoads` |
| `PluginRequestProofs!RequestTypeCorrect` | `Spec => []TypeOK` |
| `PluginRequestProofs!SuccessIsAlwaysAnswer` | `Spec => []SuccessIsAnswer` |
| `PluginRequestProofs!FailureIsAlwaysSilent` | `Spec => []FailureIsSilent` |
| `InstallProofs!InstallTypeCorrect` | `Spec => []TypeOK` |
| `InstallProofs!InstallIsAtomic` | `Spec => ImplementsAtomicInstall` |

They rest on the named assumptions of the modules only, all of which TLC evaluates in the
runs: the type of configurations, answers and images, that byte order is a strict total
order on the keys, that the wildcard key of an image sorts before the image, that the two
texts the wildcard key is made from are strings (the provers know of string literals only
that they differ), and the ranges of the bounds.

- **`TypeInv`** adds to `TypeOK` what `answer` is while its keys are walked and the types of
  the two results.
- **`GrantInv`** is needed because `EntriesAreGranted` speaks of the response only. It says
  the same of everything a response is made from: each key still to be walked belongs to an
  answer in `heard`, `best` is granted in the lookup under way, and `mirror` and `origin` in
  theirs. `GrantsStay` (what was granted stays granted as `heard` grows) and `GrantsShorter`
  (and for any shorter duration) carry it over the steps; the minimum of the two durations
  at `dynamic.go:145` is what makes `Respond` keep it.
- **`KeyInv`** follows the range (`BestLeads`): `best` is empty only if no key considered so
  far matched, it was taken whole from one answer, and once a key that is the longest and the
  last of all that were offered has been considered, `best` is held under it. The condition at
  `dynamic.go:293` neither passes over such a key nor gives it up for another, although it
  does not order the keys.
- **`PolicyInv`** adds to `KeyInv` what the policy asks of a response: the lookups made are
  those the policy names, each concerned provider is still pending or was heard, exactly
  once, and what is kept is one offer, credential and duration together. A step then maps to
  a step of `CredentialPolicy` or to a stutter: `ProviderAnswers` to `Hear`, the three
  failures to `Refuse`, `Respond` to `Grant`. For `Respond` the mapping has to be evaluated:
  `WildcardKeyMatches`, a theorem about the operators of `UrlGlobber` alone, and
  `OwnNameMatches` show that an image and its wildcard key both match the image and are two
  keys, and `NoAttempts`, `OneAttempt` and `TwoAttempts` what the kubelet tries of a response
  with none, one or both of them.
- **`ExecInv`** adds that nobody holds the output once `Run` has returned, which is why
  nothing can be printed after the checks, and that no response exists before the call
  returns. Nothing is assumed of how the output decodes but that it is a document or none.
- **`SyncInv`** says that a copy in progress reads the current version unless another copy
  is called for by the queue or was missed, that a goroutine past `start` is watching, which
  directories exist around an update, and that `newest` is at most the version being read,
  which is at most the Secret's. That the watch is added before the first copy is what makes
  it hold: an update during that copy then queues an event, or is dropped and missed.
- **`InstallInv`** says that every binary before `at` that should be installed is in place,
  and that a temporary file about to be renamed is the whole binary of the release. A step
  then maps to a step of `AtomicInstall` or to a stutter: `Rename` to `Place`, `Finish` to
  `Succeed`.
- **`TornInv`** adds that a destination being written was truncated. With it and `SyncInv` a
  step of `FileSync` maps to a step of `SyncedFiles` or to a stutter: `SwapData` to `Update`,
  `Resolve` to `BeginCopy`, `Open` to `Truncate`, `Write` to `Write`, `CopyFails` to `GiveUp`.
- **The node** needs no invariant of its own. A step of `Node` is one of `FileSync` or
  leaves its variables alone, so that `SyncInv` and `TornInv` hold of it, and with them a step
  of `FileSync` is a step of `SyncedFiles` and thereby of `ImagePull`; the fairness of
  `ImagePull` is among that of the node. `NodeProofs` takes the inductive invariant of
  `ImagePullProofs` from there by INSTANCE. For `AnswersSettledSecrets` the two invariants
  meet: `SyncInv` makes a settled destination equal to the Secret and to `newest`, which the
  pull takes as its `floor`, and `PullInv` keeps what it reads at or above it.
- **`PullInv`** says of each file that what was `served` is no newer than the `floor` of the
  pull under way, this no newer than what the pull `used`, and this no newer than the file;
  the plan of the lookups makes the mirror's read the earlier one.
- **`TimeoutInv`** adds to the properties that a plugin that is not left behind belongs to a
  busy process with plugins still to run, and that the pull of a busy process was not killed
  so far.
- **`ConfigInv`** says that the map has exactly the providers passed so far, each under its
  name and with its settings, and what each reason for a failure implies of the
  configuration; that an admitted configuration is still the valid one that was judged.
- **`RequestInv`** says what has been sent at each `pc`, that the request was accepted once
  the provider is called, and that the answer is one the file held.

Only model-checked: liveness (`Returns`, `ReturnsOnceReleased`, `ConvergesUnlessMissed`,
`EventuallyInstalled`, `ServesCurrent`, `LoadsOnceInstalled`, `Ends`,
`SecretsReachKubelet`), which TLAPS cannot prove under fairness. Of two of them a part is
proved: `CallAlwaysAdvances` is the measure that `Returns` rests on, and
`SecretsReachKubeletByParts` is the step from `ConvergesUnlessMissed` and `ServesCurrent`,
which TLC checks of the parts, to `SecretsReachKubelet`. That theorem has the two as
hypotheses, and says nothing about whether they hold.

## Not modelled

The texts of URLs character by character; JSON, API versions and the conversion of
responses; environment and arguments of plugins; the sharing of concurrent executions
(`plugin_executor.go:110`), because each process of the shipped command makes one call; file modes (part of "content" in
`Install`); loss of power, which may undo a rename that was not synced; two installers or
two sync-config processes of one node at the same time, which a DaemonSet's rolling update
with its default settings avoids; logging, flags and build. An image without a registry,
which the kubelet never passes, is excluded by `ImageAssumption`.

## Plan

1. Done: `UrlGlobber`, `CredentialLookup` with `CredentialPolicy`, `PluginExec`, `FileSync`,
   `Install` with `AtomicInstall`; `SyncedFiles` with `ImagePull`, `NestedTimeouts`,
   `ConfigAdmission`, `PluginRequest`; and the theorems above.
2. Done: `CredentialLookup` proved to implement `CredentialPolicy`; `Node`, proved to
   implement `ImagePull`, with the guarantees of both parts brought to it.
3. Left: the sharing of concurrent executions (`plugin_executor.go:110`), should a process
   ever make more than one call.
