-------------------------- MODULE ConfigAdmission --------------------------
(***************************************************************************)
(* A DynamicCredentialProviderConfig on its way into a process: the        *)
(* admission webhook's judgement of it (pkg/webhooks) and its loading,     *)
(* which each image pull does anew and which registers the providers one   *)
(* by one while the installer may still be filling the directory of their  *)
(* binaries (dynamic.go, plugin_executor.go).                              *)
(***************************************************************************)
EXTENDS UrlGlobber, Integers

CONSTANTS
    Configs,       \* [credentialProviders : Nil or a sequence of providers]
    APIVersions,   \* the versions of apiversions.go
    InvalidNames,  \* the names with a slash or a space
    Installable,   \* the binaries that will be installed
    Nil            \* no providers or no duration

Provider == [name : STRING, apiVersion : STRING, matchImages : SUBSET (URL \cup {Malformed}),
             defaultCacheDuration : Int \cup {Nil}]

ASSUME AdmissionAssumption ==
    /\ \A c \in Configs :
           c.credentialProviders # Nil => c.credentialProviders \in Seq(Provider)
    /\ Installable \subseteq STRING \ {"."}

VARIABLES
    config,
    admission,   \* none, admitted, rejected, panicked
    loading,     \* none, registering, loaded, failed, killed
    at,          \* the provider to be registered next
    registered,  \* the providers by name
    error,       \* why loading failed: Nil, directory, binary, apiVersion, duplicate
    installed    \* the plugin directory, as "." once it exists, and what is in it

vars == <<config, admission, loading, at, registered, error, installed>>

loadVars == <<loading, at, registered, error>>

Providers == config.credentialProviders
Names == {Providers[i].name : i \in 1..Len(Providers)}

\* The state has its type; loading never registers more than the configuration lists.
TypeOK ==
    /\ admission \in {"none", "admitted", "rejected", "panicked"}
    /\ loading \in {"none", "registering", "loaded", "failed", "killed"}
    /\ at \in Nat \ {0}
    /\ Providers # Nil => DOMAIN registered \subseteq Names
    /\ Providers = Nil => DOMAIN registered = {}
    /\ error \in {Nil, "directory", "binary", "apiVersion", "duplicate"}
    /\ installed \subseteq Installable \cup {"."}

Init ==
    /\ config \in Configs
    /\ admission = "none"
    /\ loading = "none"
    /\ at = 1
    /\ registered = << >>
    /\ error = Nil
    /\ installed = {}

---------------------------------------------------------------------------
(* The webhook. It is exported for a server that this repository does not  *)
(* have, and is not asked about a file that is written without one.        *)

\* Default does nothing.
Default(c) == c

ValidProviderOfAnyVersion(p) ==
    /\ p.name \notin InvalidNames \cup {".", ".."}
    /\ p.apiVersion # ""
    /\ p.matchImages # {} /\ \A m \in p.matchImages : Parses(m)
    /\ p.defaultCacheDuration # Nil /\ p.defaultCacheDuration >= 0
ValidProvider(p) ==
    /\ p.name \notin InvalidNames \cup {".", ".."}
    /\ p.apiVersion \in APIVersions
    /\ p.matchImages # {} /\ \A m \in p.matchImages : Parses(m)
    /\ p.defaultCacheDuration # Nil /\ p.defaultCacheDuration >= 0

Valid(c) ==
    /\ c.credentialProviders # << >>
    /\ \A i \in 1..Len(c.credentialProviders) : ValidProvider(c.credentialProviders[i])

\* The optional providers are dereferenced without a look.
Panic ==
    /\ admission = "none"
    /\ Providers = Nil
    /\ admission' = "panicked"
    /\ UNCHANGED <<config, loadVars, installed>>

\* What is admitted is stored with its defaults.
Validate ==
    /\ admission = "none"
    /\ Providers # Nil
    /\ config' = IF Valid(Default(config)) THEN Default(config) ELSE config
    /\ admission' = IF Valid(Default(config)) THEN "admitted" ELSE "rejected"
    /\ UNCHANGED <<loadVars, installed>>

---------------------------------------------------------------------------
(* The installer.                                                          *)

MakeDirectory ==
    /\ installed = {}
    /\ installed' = {"."}
    /\ UNCHANGED <<config, admission, loadVars>>

Install(name) ==
    /\ "." \in installed
    /\ name \in Installable \ installed
    /\ installed' = installed \cup {name}
    /\ UNCHANGED <<config, admission, loadVars>>

---------------------------------------------------------------------------
(* Loading.                                                                *)

\* An image pull starts a process, which reads the configuration.
StartLoadingAgain ==
    /\ loading # "registering"
    /\ loading' = "registering"
    /\ at' = 1
    /\ error' = Nil
    /\ UNCHANGED <<config, admission, registered, installed>>
StartLoading ==
    /\ loading # "registering"
    /\ loading' = "registering"
    /\ at' = 1
    /\ registered' = << >>
    /\ error' = Nil
    /\ UNCHANGED <<config, admission, installed>>

Fail(reason) ==
    /\ loading' = IF reason = "duplicate" THEN "killed" ELSE "failed"
    /\ error' = reason
    /\ UNCHANGED <<config, admission, at, registered, installed>>

\* Without providers the directory is not looked at.
InspectDirectory ==
    /\ loading = "registering" /\ at = 1
    /\ Providers # Nil
    /\ "." \notin installed
    /\ Fail("directory")

\* A name that stands for the directory or its parent passes for a binary.
Present(name) == name \in installed \cup {"", ".."}

\* The range has reached a provider.
Reaches(p) ==
    /\ loading = "registering"
    /\ Providers # Nil /\ at <= Len(Providers) /\ p = Providers[at]
    /\ "." \in installed

InspectBinary(p) == Reaches(p) /\ ~Present(p.name) /\ Fail("binary")

NewPluginProvider(p) ==
    Reaches(p) /\ Present(p.name) /\ p.apiVersion \notin APIVersions /\ Fail("apiVersion")

\* klog.Fatalf ends the process.
RegisteredTwice(p) ==
    /\ Reaches(p) /\ Present(p.name) /\ p.apiVersion \in APIVersions
    /\ p.name \in DOMAIN registered
    /\ Fail("duplicate")

With(name, p) == [n \in DOMAIN registered \cup {name} |-> IF n = name THEN p ELSE registered[n]]

RegisterAgain(p) ==
    /\ Reaches(p) /\ Present(p.name) /\ p.apiVersion \in APIVersions
    /\ registered' = With(p.name, p)
    /\ at' = at + 1
    /\ UNCHANGED <<config, admission, loading, error, installed>>
RegisterUnderVersion(p) ==
    /\ Reaches(p) /\ Present(p.name) /\ p.apiVersion \in APIVersions
    /\ p.name \notin DOMAIN registered
    /\ registered' = With(p.apiVersion, p)
    /\ at' = at + 1
    /\ UNCHANGED <<config, admission, loading, error, installed>>
Register(p) ==
    /\ Reaches(p) /\ Present(p.name) /\ p.apiVersion \in APIVersions
    /\ p.name \notin DOMAIN registered
    /\ registered' = With(p.name, p)
    /\ at' = at + 1
    /\ UNCHANGED <<config, admission, loading, error, installed>>

FinishLoading ==
    /\ loading = "registering"
    /\ Providers # Nil => "." \in installed /\ at > Len(Providers)
    /\ loading' = "loaded"
    /\ UNCHANGED <<config, admission, at, registered, error, installed>>

LoadStep ==
    \/ InspectDirectory \/ FinishLoading
    \/ Providers # Nil /\ \E i \in 1..Len(Providers) :
           LET p == Providers[i]
           IN  InspectBinary(p) \/ NewPluginProvider(p) \/ RegisteredTwice(p) \/ Register(p)

Next ==
    \/ Panic \/ Validate
    \/ MakeDirectory \/ \E name \in Installable : Install(name)
    \/ StartLoading \/ LoadStep

\* The installer is restarted until it succeeds, and the kubelet repeats a pull that failed.
Spec ==
    /\ Init /\ [][Next]_vars
    /\ WF_vars(MakeDirectory) /\ \A name \in Installable : WF_vars(Install(name))
    /\ WF_vars(StartLoading) /\ WF_vars(LoadStep)

---------------------------------------------------------------------------

DistinctNames ==
    \A i, j \in 1..Len(Providers) : Providers[i].name = Providers[j].name => i = j

\* A lookup sees each configured provider with its own settings, and no other: none was
\* lost to another one of its name, nor to a binary that was not there yet, although the
\* map is filled while the installer runs (dynamic.go:78-116).
RegisteredAsConfigured ==
    loading = "loaded" /\ Providers # Nil =>
        /\ DOMAIN registered = Names
        /\ \A i \in 1..Len(Providers) : registered[Providers[i].name] = Providers[i]

\* An admitted configuration fails to load only for what is on the node, or for two
\* providers of one name, which the webhook does not look for: nothing else that loading
\* refuses is admitted (credentialproviderconfig_validation.go:31-161, dynamic.go:78-116).
AdmittedLoads ==
    admission = "admitted" /\ loading \in {"failed", "killed"} =>
        error \in {"directory", "binary"} \/ ~DistinctNames

Loadable ==
    Providers # Nil =>
        /\ DistinctNames
        /\ Names \subseteq Installable
        /\ \A i \in 1..Len(Providers) : Providers[i].apiVersion \in APIVersions

\* A configuration with distinct names, known versions and binaries that get installed in
\* the end, or without providers, is loaded by every pull after that, however many pulls a
\* missing binary has failed before (dynamic.go:78-101).
LoadsOnceInstalled ==
    Loadable => /\ <>[](loading \in {"registering", "loaded"})
                /\ []<>(loading = "loaded")
=============================================================================
