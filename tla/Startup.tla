------------------------------- MODULE Startup -------------------------------
(***************************************************************************)
(* The start and end of the process: main (src/pdns-sysrepo.cc), Config    *)
(* (src/config/), whose callback reads the daemon's own settings in a      *)
(* thread of sysrepo, and what systemd is told.                            *)
(*                                                                         *)
(* main subscribes Config, waits for it at most MaxTries seconds, starts   *)
(* the remote backend's server (rrset-management) or makes the API client, *)
(* subscribes the configuration callback, whose ENABLED and DONE are       *)
(* delivered in that call, and the zone state callback, tells systemd that *)
(* it is READY, and sleeps until a signal.  Whatever throws ends the       *)
(* process; leaving main's scope ends subscriptions and server.            *)
(***************************************************************************)
EXTENDS Naturals, FiniteSets

CONSTANTS
    Values,         \* values of a setting
    Unset,          \* a member of Config that was not assigned
    MaxTries,       \* how often main waits a second for Config
    MaxSignals,     \* signals sent to one process (bound of the model)
    MaxFaults       \* bound of the model

ASSUME StartupAssumption ==
    /\ Unset \notin Values
    /\ MaxTries \in Nat /\ MaxSignals \in Nat /\ MaxFaults \in Nat

VARIABLES
    main,           \* next step of the main thread, or how it ended
    tries,          \* turns of the loop that waits for Config
    rrsetManagement,
    subscribed,     \* the callbacks sysrepo calls
    server,         \* the remote backend serves
    handlers,       \* the signal handlers are registered
    doExit,
    told,           \* the last sd_notify
    signals,        \* signals this process got
    at,             \* where Config's callback is
    settings,       \* d_pdns_service, d_pdns_conf and d_pdns_restart
    failed, initialDone, skipDone,
    pending,        \* leaves of the DONE event Config has to assign yet
    store,          \* the settings in the running datastore
    tmp, installed, \* path of the temporary file; of the pdns.conf this process installed
    faults,
    missed,         \* history: leaves whose change a failing DONE missed
    calm            \* history: while the process started, the configuration callback's DONE did
                    \* not fail and the path was not edited

thread == <<at, settings, failed, initialDone, skipDone, pending>>
daemon == <<tries, rrsetManagement, subscribed, server, handlers, doExit, told, signals, tmp, installed>>
vars   == <<main, daemon, thread, store, faults, missed, calm>>

Options  == {"service", "file", "restart"}
Settings == [Options -> Values]
Running  == {"connect", "config", "subscribing", "wait", "finished", "failed?", "feature", "server",
             "callback", "enabled", "done", "zones", "signals", "ready", "loop", "sleep", "asleep", "stopping", "reset"}
EndStates == {"failed", "exited", "killed"}
Ended     == main \in EndStates

TypeOK ==
    /\ main \in Running \union EndStates
    /\ tries \in 0..MaxTries
    /\ rrsetManagement \in BOOLEAN /\ server \in BOOLEAN /\ handlers \in BOOLEAN /\ doExit \in BOOLEAN
    /\ subscribed \subseteq {"config", "callback", "zones"}
    /\ told \in {"nothing", "READY", "STOPPING"}
    /\ signals \in 0..MaxSignals /\ faults \in 0..MaxFaults
    /\ at \in {"none", "enabled", "failing", "event", "idle", "error"}
    /\ settings \in [Options -> Values \union {Unset}]
    /\ failed \in BOOLEAN /\ initialDone \in BOOLEAN /\ skipDone \in BOOLEAN
    /\ pending \subseteq Options /\ missed \subseteq Options
    /\ store \in Settings
    /\ tmp \in Values \union {Unset} /\ installed \in Values \union {Unset}
    /\ calm \in BOOLEAN

NoSettings == [o \in Options |-> Unset]

Init ==
    /\ main = "connect" /\ tries = 0
    /\ rrsetManagement = FALSE /\ subscribed = {} /\ server = FALSE
    /\ handlers = FALSE /\ doExit = FALSE /\ told = "nothing" /\ signals = 0
    /\ at = "none" /\ settings = NoSettings
    /\ failed = FALSE /\ initialDone = FALSE /\ skipDone = TRUE
    /\ pending = {} /\ missed = {} /\ calm = TRUE
    /\ tmp = Unset /\ installed = Unset
    /\ store \in Settings /\ faults = 0

Fault   == faults < MaxFaults /\ faults' = faults + 1
NoFault == UNCHANGED faults

-----------------------------------------------------------------------------
(* The main thread *)

\* The scope of main is left: the subscriptions and the server end, and with the process
\* its memory. The next process starts from what Init says.
Unwind(end) ==
    /\ main' = end /\ tries' = 0
    /\ rrsetManagement' = FALSE /\ subscribed' = {} /\ server' = FALSE
    /\ handlers' = FALSE /\ doExit' = FALSE /\ told' = "nothing" /\ signals' = 0
    /\ at' = "none" /\ settings' = NoSettings
    /\ failed' = FALSE /\ initialDone' = FALSE /\ skipDone' = TRUE
    /\ pending' = {} /\ missed' = {} /\ calm' = TRUE
    /\ tmp' = Unset /\ installed' = Unset
    /\ UNCHANGED store

\* An exception reaches the end of main.
Throw == Unwind("failed")

\* Sysrepo, libyang or the network throws in one of main's calls.
CallThrows ==
    /\ main \in {"connect", "config", "feature", "server", "callback", "zones"}
    /\ Fault
    /\ Throw

\* A step of main that goes on at pc and changes nothing of Config.
Goes(from, pc) ==
    /\ main = from /\ main' = pc
    /\ NoFault
    /\ UNCHANGED <<thread, store, missed, calm, signals>>

Connect ==
    /\ Goes("connect", "config")
    /\ UNCHANGED daemon

\* Config's callback gets ENABLED; main may go on before it has been handled.
SubscribeConfig ==
    /\ main = "config" /\ main' = "subscribing"
    /\ subscribed' = subscribed \union {"config"}
    /\ at' = "enabled"
    /\ NoFault
    /\ UNCHANGED <<tries, rrsetManagement, server, handlers, doExit, told, signals, tmp, installed,
                   settings, failed, initialDone, skipDone, pending, store, missed, calm>>

SubscribeReturns ==
    /\ Goes("subscribing", "wait")
    /\ UNCHANGED daemon

\* The callback returned an error for ENABLED, which the subscription may report.
SubscribeThrows ==
    /\ main = "subscribing" /\ at = "error"
    /\ NoFault /\ Throw

\* Seeded fault: main waits without a limit.
WaitForever ==
    /\ main = "wait"
    /\ main' = IF initialDone THEN "finished" ELSE "wait"
    /\ NoFault
    /\ UNCHANGED <<daemon, thread, store, missed, calm>>

Wait ==
    /\ main = "wait"
    /\ IF tries < MaxTries /\ ~initialDone
       THEN tries' = tries + 1 /\ UNCHANGED main
       ELSE main' = "finished" /\ UNCHANGED tries
    /\ NoFault
    /\ UNCHANGED <<rrsetManagement, subscribed, server, handlers, doExit, told, signals, tmp, installed,
                   thread, store, missed, calm>>

Finished ==
    /\ initialDone /\ Goes("finished", "failed?")
    /\ UNCHANGED daemon

NotFinished == main = "finished" /\ ~initialDone /\ NoFault /\ Throw

NotFailed ==
    /\ ~failed /\ Goes("failed?", "feature")
    /\ UNCHANGED daemon

HasFailed == main = "failed?" /\ failed /\ NoFault /\ Throw

Feature ==
    /\ rrsetManagement' \in BOOLEAN
    /\ Goes("feature", IF rrsetManagement' THEN "server" ELSE "callback")
    /\ UNCHANGED <<tries, subscribed, server, handlers, doExit, told, tmp, installed>>

StartServer ==
    /\ Goes("server", "callback")
    /\ server' = TRUE
    /\ UNCHANGED <<tries, rrsetManagement, subscribed, handlers, doExit, told, tmp, installed>>

SubscribeCallback ==
    /\ Goes("callback", "enabled")
    /\ subscribed' = subscribed \union {"callback"}
    /\ UNCHANGED <<tries, rrsetManagement, server, handlers, doExit, told, tmp, installed>>

\* ENABLED: the temporary file is named after Config's path (the datastore has a
\* configuration to write).
CallbackEnabled ==
    /\ Goes("enabled", "done")
    /\ tmp' = settings["file"]
    /\ UNCHANGED <<tries, rrsetManagement, subscribed, server, handlers, doExit, told, installed>>

CallbackRefuses == main = "enabled" /\ Fault /\ Throw

\* Seeded fault: the test of the feature is turned round.
SubscribedTurned == IF rrsetManagement THEN "zones" ELSE "signals"

Subscribed == IF rrsetManagement THEN "signals" ELSE "zones"

\* DONE: the path is asked of Config again, for the temporary file and for the target (what
\* becomes of a path that changes between the two is in PdnsConfigCB).
CallbackDone ==
    /\ Goes("done", Subscribed)
    /\ installed' = IF tmp = settings["file"] THEN tmp ELSE installed
    /\ UNCHANGED <<tries, rrsetManagement, subscribed, server, handlers, doExit, told, tmp>>

\* sysrepo ignores an error in DONE: the start goes on with the pdns.conf of before.
CallbackDoneFails ==
    /\ main = "done" /\ main' = Subscribed
    /\ Fault
    /\ calm' = FALSE
    /\ UNCHANGED <<daemon, thread, store, missed>>

SubscribeZones ==
    /\ Goes("zones", "signals")
    /\ subscribed' = subscribed \union {"zones"}
    /\ UNCHANGED <<tries, rrsetManagement, server, handlers, doExit, told, tmp, installed>>

Signals ==
    /\ Goes("signals", "ready")
    /\ handlers' = TRUE
    /\ UNCHANGED <<tries, rrsetManagement, subscribed, server, doExit, told, tmp, installed>>

Ready ==
    /\ Goes("ready", "loop")
    /\ told' = "READY"
    /\ UNCHANGED <<tries, rrsetManagement, subscribed, server, handlers, doExit, tmp, installed>>

Loop ==
    /\ Goes("loop", IF doExit THEN "stopping" ELSE "sleep")
    /\ UNCHANGED daemon

\* The test of doExit and the call of sleep are two steps.
FallAsleep ==
    /\ Goes("sleep", "asleep")
    /\ UNCHANGED daemon

\* Seeded fault: main waits for a signal, without a limit (pause).
Pause == FALSE /\ UNCHANGED vars

\* sleep ends after 500 seconds, or at a signal (in Signal).
Sleep ==
    /\ Goes("asleep", "loop")
    /\ UNCHANGED daemon

Stopping ==
    /\ Goes("stopping", "reset")
    /\ told' = "STOPPING"
    /\ UNCHANGED <<tries, rrsetManagement, subscribed, server, handlers, doExit, tmp, installed>>

Reset == main = "reset" /\ NoFault /\ Unwind("exited")

Main ==
    \/ Connect \/ SubscribeConfig \/ SubscribeReturns \/ SubscribeThrows
    \/ Wait \/ Finished \/ NotFinished \/ NotFailed \/ HasFailed
    \/ Feature \/ StartServer \/ SubscribeCallback \/ CallbackEnabled \/ CallbackDone \/ SubscribeZones
    \/ Signals \/ Ready \/ Loop \/ FallAsleep \/ Sleep \/ Stopping \/ Reset

-----------------------------------------------------------------------------
(* Config's callback, in a thread of sysrepo *)

ThreadStep == UNCHANGED <<main, daemon, store, calm>>

\* One get_item; the members are assigned in this order.
Read(o, before) ==
    /\ at = "enabled"
    /\ settings[o] = Unset /\ \A b \in before : settings[b] # Unset
    /\ settings' = [settings EXCEPT ![o] = store[o]]
    /\ NoFault /\ ThreadStep /\ UNCHANGED <<at, failed, initialDone, skipDone, pending, missed>>

ReadService == Read("service", {})
ReadFile    == Read("file", {"service"})
ReadRestart == Read("restart", {"service", "file"})

ReadAll ==
    /\ at = "enabled" /\ \A o \in Options : settings[o] # Unset
    /\ initialDone' = TRUE
    /\ at' = "event"
    /\ NoFault /\ ThreadStep /\ UNCHANGED <<settings, failed, skipDone, pending, missed>>

\* Seeded fault: the two flags are set in the other order.
ReadFailsFinishing ==
    /\ at = "enabled" /\ \E o \in Options : settings[o] = Unset
    /\ initialDone' = TRUE
    /\ at' = "failing"
    /\ Fault /\ ThreadStep /\ UNCHANGED <<settings, failed, skipDone, pending, missed>>

ReadFails ==
    /\ at = "enabled" /\ \E o \in Options : settings[o] = Unset
    /\ failed' = TRUE
    /\ at' = "failing"
    /\ Fault /\ ThreadStep /\ UNCHANGED <<settings, initialDone, skipDone, pending, missed>>

ReadFailed ==
    /\ at = "failing"
    /\ failed' = TRUE /\ initialDone' = TRUE
    /\ at' = "error"
    /\ NoFault /\ ThreadStep /\ UNCHANGED <<settings, skipDone, pending, missed>>

\* Seeded fault: the flag that skips a DONE is not reset.
SkipDoneAlways ==
    /\ at = "event" /\ skipDone
    /\ at' = "idle" /\ pending' = {}
    /\ NoFault /\ ThreadStep /\ UNCHANGED <<settings, failed, initialDone, skipDone, missed>>

\* The DONE that belongs to ENABLED.
SkipDone ==
    /\ at = "event" /\ skipDone
    /\ skipDone' = FALSE
    /\ at' = "idle" /\ pending' = {}
    /\ NoFault /\ ThreadStep /\ UNCHANGED <<settings, failed, initialDone, missed>>

Assign ==
    /\ at = "event" /\ ~skipDone
    /\ \E o \in pending :
         /\ settings' = [settings EXCEPT ![o] = store[o]]
         /\ pending' = pending \ {o}
         /\ missed' = missed \ {o}
    /\ NoFault /\ ThreadStep /\ UNCHANGED <<at, failed, initialDone, skipDone>>

Assigned ==
    /\ at = "event" /\ ~skipDone /\ pending = {}
    /\ at' = "idle"
    /\ NoFault /\ ThreadStep /\ UNCHANGED <<settings, failed, initialDone, skipDone, pending, missed>>

AssignFails ==
    /\ at = "event" /\ ~skipDone
    /\ missed' = missed \union pending
    /\ at' = "idle" /\ pending' = {}
    /\ Fault /\ ThreadStep /\ UNCHANGED <<settings, failed, initialDone, skipDone>>

ConfigThread ==
    \/ ReadService \/ ReadFile \/ ReadRestart \/ ReadAll \/ ReadFailed
    \/ SkipDone \/ Assign \/ Assigned

-----------------------------------------------------------------------------
(* Signals, edits, and the next start *)

\* Until main has registered the handlers a signal kills the process; the first one after
\* that sets doExit and wakes main if it sleeps, the second one exits at once.
Signal ==
    /\ ~Ended
    /\ signals < MaxSignals
    /\ IF handlers /\ ~doExit
       THEN /\ signals' = signals + 1
            /\ doExit' = TRUE
            /\ main' = IF main = "asleep" THEN "loop" ELSE main
            /\ UNCHANGED <<tries, rrsetManagement, subscribed, server, handlers, told, tmp, installed,
                           thread, store, missed, calm>>
       ELSE Unwind("killed")
    /\ NoFault

\* A client commits other settings; Config gets DONE when it is subscribed. While a
\* subscription delivers ENABLED, sysrepo commits nothing.
Edit ==
    /\ at \in {"none", "idle", "error"} /\ main \notin {"enabled", "done"}
    /\ store' \in Settings \ {store}
    /\ IF at = "idle"
       THEN at' = "event" /\ pending' = {o \in Options : store'[o] # store[o]}
       ELSE UNCHANGED <<at, pending>>
    /\ calm' = (calm /\ (told = "nothing" /\ at # "none" => store'["file"] = store["file"]))
    /\ NoFault /\ UNCHANGED <<main, daemon, settings, failed, initialDone, skipDone, missed>>

\* The operator starts the daemon again.
Restart ==
    /\ Ended
    /\ main' = "connect"
    /\ NoFault /\ UNCHANGED <<daemon, thread, store, missed, calm>>

Next ==
    \/ Main \/ CallThrows \/ CallbackRefuses \/ CallbackDoneFails
    \/ ConfigThread \/ ReadFails \/ AssignFails
    \/ Signal \/ Edit \/ Restart

Spec == Init /\ [][Next]_vars

\* The main thread runs. Config's callback need not: main does not rely on it.
FairSpec == Spec /\ WF_vars(Main)

-----------------------------------------------------------------------------
(* Properties *)

\* Every step after main has checked Config works with settings that were read completely,
\* although another thread reads them and main gives up waiting for it (finished, failed).
SettingsKnown ==
    ~Ended /\ main \notin {"connect", "config", "subscribing", "wait", "finished", "failed?"} =>
        initialDone /\ ~failed /\ settings \in Settings

\* When systemd is told READY, and so may start PowerDNS, everything PowerDNS and the
\* clients need is there: the server or the zone state callback, the subscriptions, a way
\* to stop, and the configuration where the settings say, unless its DONE failed or the
\* path was being edited.
ReadyMeansServing ==
    main = "ready" =>
        /\ handlers /\ {"config", "callback"} \subseteq subscribed
        /\ IF rrsetManagement THEN server ELSE "zones" \in subscribed
        /\ calm => installed \in Values /\ installed = settings["file"]

\* Between events Config has the settings of the datastore, except for leaves whose change
\* it failed to read; the DONE of its own ENABLED is the only one it skips.
SettingsCurrent == at = "idle" => \A o \in Options \ missed : settings[o] = store[o]

\* What makes the three hold, the inductive invariant. What Config's callback has done says
\* what its members hold,
ThreadShape ==
    /\ at \in {"none", "enabled"} => ~initialDone /\ ~failed
    /\ at = "none" => settings = NoSettings
    /\ at \in {"failing", "error"} => failed
    /\ at \in {"event", "idle"} => initialDone /\ ~failed /\ settings \in Settings
    /\ at \in {"none", "enabled"} => skipDone
    /\ at = "idle" => ~skipDone

\* and which of the datastore's leaves it knows;
LeavesKnown ==
    /\ at = "enabled" => \A o \in Options : settings[o] \in {Unset, store[o]}
    /\ at = "event" =>
         \A o \in Options : settings[o] = store[o] \/ (~skipDone /\ o \in missed \union pending)

\* what main has done is there, until its scope is left;
StepsDone ==
    /\ main \in EndStates \union {"connect", "config"} => at = "none"
    /\ main \notin EndStates \union {"connect", "config"} => "config" \in subscribed
    /\ main = "failed?" => initialDone
    /\ main = "server" => rrsetManagement
    /\ main = "zones" => ~rrsetManagement
    /\ main \in {"callback", "enabled", "done", "zones", "signals", "ready"} /\ rrsetManagement => server
    /\ main \in {"enabled", "done", "zones", "signals", "ready"} => "callback" \in subscribed
    /\ main \in {"signals", "ready"} /\ ~rrsetManagement => "zones" \in subscribed
    /\ main = "ready" => handlers
    /\ main \notin {"loop", "sleep", "asleep", "stopping", "reset"} => told = "nothing"

\* and a calm start keeps to one path.
OnePath ==
    calm =>
        /\ told = "nothing" /\ at \in {"event", "idle"} => settings["file"] = store["file"]
        /\ main = "done" => tmp = settings["file"]
        /\ main \in {"zones", "signals", "ready"} => installed = settings["file"]

StartInv ==
    /\ TypeOK /\ SettingsKnown /\ SettingsCurrent
    /\ ThreadShape /\ LeavesKnown /\ StepsDone /\ OnePath

\* However slow Config's callback is, a start ends: systemd is told READY, or the process ends.
StartEnds == main = "connect" ~> told = "READY" \/ Ended

\* A signal ends the process even when it arrives between the test of doExit and the sleep.
StopEnds == doExit ~> Ended
=============================================================================
