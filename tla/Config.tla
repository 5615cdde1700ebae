------------------------------- MODULE Config -------------------------------
(***************************************************************************)
(* Runtime configuration (app/core/sys_config.py): the table sys_config,   *)
(* the cached copy of it in each process, and the broadcast by which an    *)
(* administrator's change reaches the processes.  A process has one        *)
(* watcher (watch_invalidations), which loads once per message and waits   *)
(* for each load, and may have reload_config() called at any time.         *)
(***************************************************************************)
EXTENDS Naturals, Sequences

CONSTANTS
    Servers,        \* processes, each with its ConfigCache
    ConfigKeys,
    Good, Bad, Absent, \* a value that parses, one that does not, no row
    MaxChanges,     \* bound: transactions of the administrator
    MaxLosses       \* bound: failed loads, lost subscriptions, lost broadcasts

ASSUME ConfigAssumption ==
    /\ Bad # Absent
    /\ Bad \notin Good
    /\ Absent \notin Good
    /\ MaxChanges \in Nat
    /\ MaxLosses \in Nat

Tables == [ConfigKeys -> Good \union {Bad, Absent}]

VARIABLES
    committed,  \* the contents sys_config has had; the last is the table
    announced,  \* announced: the last change has been published
    values,     \* values[p]: _values of the cache, Absent when get() gives the default
    version,    \* version[p]: the commit values[p] was read at, 0 before a load
    watching,   \* watching[p]: the subscription of p is up
    inbox,      \* inbox[p]: messages the watcher has not taken
    loads,      \* loads[p]: loads under way, with the version each read
    overlap,    \* processes in which reload_config() ran beside another load
    missed,     \* processes that may have missed a change
    losses

configVars == <<committed, announced, values, version, watching, inbox, loads,
                overlap, missed, losses>>

Current == Len(committed)

ConfigInit ==
    /\ \E t \in [ConfigKeys -> Good] : committed = <<t>>
    /\ announced = TRUE
    /\ values = [p \in Servers |-> [k \in ConfigKeys |-> Absent]]
    /\ version = [p \in Servers |-> 0]
    /\ watching = [p \in Servers |-> FALSE]
    /\ inbox = [p \in Servers |-> 0]
    /\ loads = [p \in Servers |-> {}]
    /\ overlap = {}
    /\ missed = Servers
    /\ losses = 0

\* The administrator commits a change of any keys ...
CommitChange ==
    /\ announced
    /\ Current <= MaxChanges
    /\ \E t \in Tables : t # committed[Current] /\ committed' = Append(committed, t)
    /\ announced' = FALSE
    /\ UNCHANGED <<values, version, watching, inbox, loads, overlap, missed, losses>>

\* ... and then publishes it to whoever is subscribed at that moment.
Publish ==
    /\ ~announced
    /\ announced' = TRUE
    /\ inbox' = [p \in Servers |-> IF watching[p] THEN inbox[p] + 1 ELSE inbox[p]]
    /\ missed' = missed \union {p \in Servers : ~watching[p]}
    /\ UNCHANGED <<committed, values, version, watching, loads, overlap, losses>>

\* The administrator's process dies, or Redis is down, after the commit.
PublishFails ==
    /\ ~announced
    /\ losses < MaxLosses
    /\ losses' = losses + 1
    /\ announced' = TRUE
    /\ missed' = Servers
    /\ UNCHANGED <<committed, values, version, watching, inbox, loads, overlap>>

\* watch_invalidations() subscribes; it does not load.
Subscribe(p) ==
    /\ ~watching[p]
    /\ watching' = [watching EXCEPT ![p] = TRUE]
    /\ UNCHANGED <<committed, announced, values, version, inbox, loads, overlap, missed, losses>>

\* The connection breaks: what was not taken from it is gone.
LoseSubscription(p) ==
    /\ watching[p]
    /\ losses < MaxLosses
    /\ losses' = losses + 1
    /\ watching' = [watching EXCEPT ![p] = FALSE]
    /\ inbox' = [inbox EXCEPT ![p] = 0]
    /\ missed' = missed \union {p}
    /\ UNCHANGED <<committed, announced, values, version, loads, overlap>>

Loading(p, who) == \E l \in loads[p] : l.by = who

\* Mutation: the watcher starts a load for each message at once.
WatcherFree_Always(p) == TRUE

\* "await cache.load()" in the loop over the messages.
WatcherFree(p) == ~Loading(p, "watcher")

\* A source of its own, a session of its own, for every load: a read of now.
StartLoad(p, who) ==
    loads' = [loads EXCEPT ![p] = @ \union {[by |-> who, of |-> Current]}]

\* A message is taken and the whole table read.
WatcherLoads(p) ==
    /\ watching[p]
    /\ inbox[p] > 0
    /\ WatcherFree(p)
    /\ inbox' = [inbox EXCEPT ![p] = @ - 1]
    /\ StartLoad(p, "watcher")
    /\ overlap' = IF Loading(p, "reload") THEN overlap \union {p} ELSE overlap
    /\ UNCHANGED <<committed, announced, values, version, watching, missed, losses>>

\* reload_config(): at the start of a process, or when a caller wants it; one
\* at a time is the bound here.  A process that is subscribed and then reads
\* the table has missed nothing.
ReloadConfig(p) ==
    /\ ~Loading(p, "reload")
    /\ StartLoad(p, "reload")
    /\ overlap' = IF loads[p] # {} THEN overlap \union {p} ELSE overlap
    /\ missed' = IF watching[p] THEN missed \ {p} ELSE missed
    /\ UNCHANGED <<committed, announced, values, version, watching, inbox, losses>>

\* Mutation: the rows read are put over the old values.
Loaded_Merged(p, t) == [k \in ConfigKeys |-> IF t[k] \in Good THEN t[k] ELSE values[p][k]]

\* DbConfigSource.load(): a row that does not parse is left out, and
\* ConfigCache.load() replaces the values.
Loaded(p, t) == [k \in ConfigKeys |-> IF t[k] \in Good THEN t[k] ELSE Absent]

FinishLoad(p) ==
    \E l \in loads[p] :
        /\ loads' = [loads EXCEPT ![p] = @ \ {l}]
        /\ values' = [values EXCEPT ![p] = Loaded(p, committed[l.of])]
        /\ version' = [version EXCEPT ![p] = l.of]
        /\ UNCHANGED <<committed, announced, watching, inbox, overlap, missed, losses>>

\* load() raises: the watcher keeps the old values and waits for a message;
\* reload_config() raises to its caller.
LoadFails(p) ==
    /\ losses < MaxLosses
    /\ losses' = losses + 1
    /\ \E l \in loads[p] : loads' = [loads EXCEPT ![p] = @ \ {l}]
    /\ missed' = missed \union {p}
    /\ UNCHANGED <<committed, announced, values, version, watching, inbox, overlap>>

ConfigNext ==
    \/ CommitChange \/ Publish \/ PublishFails
    \/ \E p \in Servers : \/ Subscribe(p) \/ LoseSubscription(p)
                          \/ WatcherLoads(p) \/ ReloadConfig(p)
                          \/ FinishLoad(p) \/ LoadFails(p)

ConfigSpec == ConfigInit /\ [][ConfigNext]_configVars

\* The administrator's handler goes on to publish, and the event loop of a
\* process runs its watcher and its loads.
ConfigFairness ==
    /\ WF_configVars(Publish)
    /\ \A p \in Servers : WF_configVars(WatcherLoads(p)) /\ WF_configVars(FinishLoad(p))

-----------------------------------------------------------------------------
(* Properties *)

ConfigTypeOK ==
    /\ committed \in Seq(Tables)
    /\ Current \in Nat \ {0}
    /\ announced \in BOOLEAN
    /\ values \in [Servers -> [ConfigKeys -> Good \union {Absent}]]
    /\ version \in [Servers -> 0..Current]
    /\ watching \in [Servers -> BOOLEAN]
    /\ inbox \in [Servers -> Nat]
    /\ loads \in [Servers -> SUBSET [by : {"watcher", "reload"}, of : 1..Current]]
    /\ overlap \subseteq Servers
    /\ missed \subseteq Servers
    /\ losses \in Nat

\* What a process shows of a table: a row that does not parse is as if absent.
Shown(t) == [k \in ConfigKeys |-> IF t[k] = Bad THEN Absent ELSE t[k]]

\* "no half-new, half-old state" (sys_config.py:14): what a process has is what
\* one committed table shows, whatever the order in which its loads end.
NoMixedConfig ==
    \A p \in Servers : version[p] # 0 => values[p] = Shown(committed[version[p]])

\* The configuration of a process goes back to older values only if somebody
\* called reload_config() beside another load (sys_config.py:144).
ConfigNeverGoesBack ==
    [][\A p \in Servers : version'[p] >= version[p] \/ p \in overlap']_configVars

\* A process that was subscribed before it read the table, and lost nothing
\* since, ends up with the values of the table as it is, in none of its keys
\* with older ones, however changes, broadcasts and loads overtake each other.
ConfigArrives ==
    \A p \in Servers :
        <>[](p \in missed \/ p \in overlap \/ values[p] = Shown(committed[Current]))
=============================================================================
