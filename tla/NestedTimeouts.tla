-------------------------- MODULE NestedTimeouts --------------------------
(***************************************************************************)
(* Two timeouts of a minute, one inside the other. For an image pull the   *)
(* kubelet runs the dynamic provider and kills it after a minute. In that  *)
(* minute the dynamic provider runs its plugins one after the other, in up *)
(* to two lookups, and gives each a minute (plugin_executor.go:182-193).   *)
(* Its timers die with it, and nothing ties a plugin's life to its own.    *)
(***************************************************************************)
EXTENDS Naturals

CONSTANTS
    Minute,   \* the ticks of a minute
    Calls,    \* how many plugins a pull runs, over both lookups
    MaxPulls  \* bound: how often the kubelet tries

ASSUME TimeoutAssumption ==
    Minute \in Nat \ {0} /\ Calls \in Nat \ {0} /\ MaxPulls \in Nat

VARIABLES
    pulls,    \* the pulls begun
    process,  \* the dynamic provider: none, busy, answered, failed, killed
    age,      \* how long it has run
    done,     \* the plugins that have answered it
    plugin,   \* its plugin: none, running
    since,    \* how long the plugin has run
    orphans,  \* the plugins that run without a process to kill them
    kills     \* history: the pulls whose process the kubelet killed

vars == <<pulls, process, age, done, plugin, since, orphans, kills>>

\* The state has its type; with one plugin at a time, no more plugins are left behind than
\* there were pulls (dynamic.go:262-273).
TypeOK ==
    /\ pulls \in 0..MaxPulls
    /\ process \in {"none", "busy", "answered", "failed", "killed"}
    /\ age \in 0..Minute
    /\ done \in 0..Calls
    /\ plugin \in {"none", "running"}
    /\ since \in 0..Minute
    /\ orphans \in 0..pulls
    /\ kills \in 0..pulls

Init ==
    /\ pulls = 0
    /\ process = "none"
    /\ age = 0
    /\ done = 0
    /\ plugin = "none"
    /\ since = 0
    /\ orphans = 0
    /\ kills = 0

\* The kubelet pulls an image, or tries again.
StartPull ==
    /\ process # "busy"
    /\ pulls < MaxPulls
    /\ pulls' = pulls + 1
    /\ process' = "busy"
    /\ age' = 0
    /\ done' = 0
    /\ UNCHANGED <<plugin, since, orphans, kills>>

\* The next plugin is started, with a minute of its own.
RunPluginInBackground ==
    /\ process = "busy" /\ done < Calls
    /\ plugin' = "running"
    /\ since' = 0
    /\ orphans' = IF plugin = "running" THEN orphans + 1 ELSE orphans
    /\ UNCHANGED <<pulls, process, age, done, kills>>
RunPlugin ==
    /\ process = "busy" /\ plugin = "none" /\ done < Calls
    /\ plugin' = "running"
    /\ since' = 0
    /\ UNCHANGED <<pulls, process, age, done, orphans, kills>>

PluginAnswers ==
    /\ plugin = "running"
    /\ plugin' = "none"
    /\ done' = done + 1
    /\ UNCHANGED <<pulls, process, age, since, orphans, kills>>

\* A failing plugin fails the call, and the process exits.
PluginFails ==
    /\ plugin = "running"
    /\ plugin' = "none"
    /\ process' = "failed"
    /\ UNCHANGED <<pulls, age, done, since, orphans, kills>>

\* The context of the call expires: its plugin is killed.
ExpireWithoutKill ==
    /\ plugin = "running" /\ since = Minute
    /\ plugin' = "none"
    /\ process' = "failed"
    /\ orphans' = orphans + 1
    /\ UNCHANGED <<pulls, age, done, since, kills>>
Expire ==
    /\ plugin = "running" /\ since = Minute
    /\ plugin' = "none"
    /\ process' = "failed"
    /\ UNCHANGED <<pulls, age, done, since, orphans, kills>>

Respond ==
    /\ process = "busy" /\ done = Calls
    /\ process' = "answered"
    /\ UNCHANGED <<pulls, age, done, plugin, since, orphans, kills>>

\* The kubelet's minute is over: it kills the process, but not what the process has started.
KubeletKills ==
    /\ process = "busy" /\ age = Minute
    /\ process' = "killed"
    /\ plugin' = "none"
    /\ orphans' = IF plugin = "running" THEN orphans + 1 ELSE orphans
    /\ kills' = kills + 1
    /\ UNCHANGED <<pulls, age, done, since>>

\* It ends by itself, at the latest when it writes to the pipe that nobody reads.
OrphanEnds ==
    /\ orphans > 0
    /\ orphans' = orphans - 1
    /\ UNCHANGED <<pulls, process, age, done, plugin, since, kills>>

\* No deadline passes before the timer that waits for it has run.
Tick ==
    /\ process = "busy" /\ age < Minute
    /\ age' = age + 1
    /\ IF plugin = "running" THEN since < Minute /\ since' = since + 1 ELSE UNCHANGED since
    /\ UNCHANGED <<pulls, process, done, plugin, orphans, kills>>

Next ==
    \/ StartPull \/ RunPlugin \/ PluginAnswers \/ PluginFails \/ Expire \/ Respond
    \/ KubeletKills \/ OrphanEnds \/ Tick

Spec == Init /\ [][Next]_vars

---------------------------------------------------------------------------

\* However the call itself ends, with a response, an error of a plugin or its timeout, no
\* plugin of it runs on: there are never more plugins left behind than pulls the kubelet
\* killed, however many a pull runs, and a pull that ended by itself is none of those
\* (plugin_executor.go:182-193, 234-235).
OrphansAreTheKubelets ==
    /\ process # "busy" => plugin = "none"
    /\ orphans <= kills
    /\ process \in {"answered", "failed"} => kills < pulls
=============================================================================
