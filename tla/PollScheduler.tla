--------------------------- MODULE PollScheduler ---------------------------
(***************************************************************************)
(* When polls happen and with which router settings: the poller's loop     *)
(* (poller.go), the configuration manager (configsync), the goroutine that *)
(* reads the add-on options again and again (main.go) and POST             *)
(* /api/refresh.  They share the manager's configuration and refreshCh, a  *)
(* channel with one slot that TriggerRefresh fills without waiting.        *)
(*                                                                         *)
(* The poll interval is data: a timer may fire at any moment, or never.    *)
(* Nothing here relies on it, so a changed configuration and a refresh     *)
(* request take effect however long the interval is.                       *)
(***************************************************************************)
EXTENDS Naturals

CONSTANTS
    NoConfig,     \* not configured
    Config,       \* usable router settings, compared by Version
    Blank,        \* an options file that is empty or lacks host, user or password
    Missing,      \* no options file
    Unreadable,   \* an options file that cannot be read or parsed
    EnvConfig,    \* what the environment variables say
    MaxEdits      \* bound: changes of the options file

OrNoConfig(S) == S \cup {NoConfig}
Options == Config \cup {Blank, Missing, Unreadable}

ASSUME PollSchedulerAssumption ==
    /\ NoConfig \notin Options
    /\ Config \cap {Blank, Missing, Unreadable} = {}
    /\ Blank # Missing /\ Missing # Unreadable /\ Unreadable # Blank
    /\ EnvConfig \in OrNoConfig(Config)
    /\ MaxEdits \in Nat

VARIABLES
    options,      \* the options file
    config,       \* the manager's configuration
    refreshCh,    \* whether the channel's slot is full
    poller,       \* the poller's goroutine and the settings of its last poll
    refresher,    \* runConfigFallbackRefresh and what it has read
    main,         \* the main goroutine, then the HTTP server
    asked,        \* history: TriggerRefresh was called since the last poll began
    edits

schedule == <<options, config, refreshCh, poller, refresher, main, asked, edits>>

-----------------------------------------------------------------------------
FetchConfig(o) ==
    IF o = Missing THEN EnvConfig ELSE IF o = Blank THEN NoConfig ELSE o

\* Mutants: losing the configuration is no change; a channel without a slot,
\* which passes a value on only while the poller is waiting.
Changed_Configured(read) == read # NoConfig /\ read # config
TriggerRefresh_Unbuffered == refreshCh' = (refreshCh \/ poller.pc = "wait") /\ asked' = TRUE

\* What Refresh returns next to the error.
Changed(read) == read # config

TriggerRefresh ==
    /\ refreshCh' = TRUE
    /\ asked' = TRUE

-----------------------------------------------------------------------------
\* main has refreshed the configuration once and started the goroutines.
ScheduleInit ==
    /\ options \in Options
    /\ config = IF options = Unreadable THEN NoConfig ELSE FetchConfig(options)
    /\ refreshCh = FALSE
    /\ poller = [pc |-> "wait", cfg |-> NoConfig]
    /\ refresher = [pc |-> "wait", read |-> NoConfig]
    /\ main = "trigger"
    /\ asked = FALSE
    /\ edits = 0

MainTriggers ==
    /\ main = "trigger"
    /\ main' = "serve"
    /\ TriggerRefresh
    /\ UNCHANGED <<options, config, poller, refresher, edits>>

\* POST /api/refresh.
Refresh ==
    /\ main = "serve"
    /\ TriggerRefresh
    /\ UNCHANGED <<options, config, poller, refresher, main, edits>>

\* SIGINT or SIGTERM ends the context.
Shutdown ==
    /\ main = "serve"
    /\ main' = "done"
    /\ UNCHANGED <<options, config, refreshCh, poller, refresher, asked, edits>>

\* Home Assistant rewrites the add-on options.
EditOptions(o) ==
    /\ edits < MaxEdits /\ o # options
    /\ options' = o
    /\ edits' = edits + 1
    /\ UNCHANGED <<config, refreshCh, poller, refresher, main, asked>>

(* The poller: select, then PollOnce, which reads the configuration first. *)

TakeRefresh ==
    /\ poller.pc = "wait" /\ refreshCh
    /\ refreshCh' = FALSE
    /\ poller' = [poller EXCEPT !.pc = "poll"]
    /\ UNCHANGED <<options, config, refresher, main, asked, edits>>

TimerFires ==
    /\ poller.pc = "wait"
    /\ poller' = [poller EXCEPT !.pc = "poll"]
    /\ UNCHANGED <<options, config, refreshCh, refresher, main, asked, edits>>

\* Mutant: the loop does not look at the context.
PollerStops_Ignored == FALSE /\ UNCHANGED schedule

PollerStops ==
    /\ poller.pc = "wait" /\ main = "done"
    /\ poller' = [poller EXCEPT !.pc = "stopped"]
    /\ UNCHANGED <<options, config, refreshCh, refresher, main, asked, edits>>

\* Without a configuration the poll is skipped.
PollOnce ==
    /\ poller.pc = "poll"
    /\ poller' = [pc |-> IF config = NoConfig THEN "wait" ELSE "polling", cfg |-> config]
    /\ asked' = FALSE
    /\ UNCHANGED <<options, config, refreshCh, refresher, main, edits>>

\* Mutant: the loop empties the channel before it waits again.
AfterPoll_Drains(ch) == FALSE

\* What is in the channel stays there.
AfterPoll(ch) == ch

\* FetchSnapshot and persistSnapshot have ended, well or not.
PollEnds ==
    /\ poller.pc = "polling"
    /\ poller' = [poller EXCEPT !.pc = "wait"]
    /\ refreshCh' = AfterPoll(refreshCh)
    /\ UNCHANGED <<options, config, refresher, main, asked, edits>>

(* The refresher: read the file, take the lock and store, then trigger. *)

ReadOptions ==
    /\ refresher.pc = "wait" /\ options # Unreadable
    /\ refresher' = [pc |-> "store", read |-> FetchConfig(options)]
    /\ UNCHANGED <<options, config, refreshCh, poller, main, asked, edits>>

StoreConfig ==
    /\ refresher.pc = "store"
    /\ config' = refresher.read
    /\ refresher' = [pc |-> IF Changed(refresher.read) THEN "trigger" ELSE "wait", read |-> NoConfig]
    /\ UNCHANGED <<options, refreshCh, poller, main, asked, edits>>

RefresherTriggers ==
    /\ refresher.pc = "trigger"
    /\ refresher' = [refresher EXCEPT !.pc = "wait"]
    /\ TriggerRefresh
    /\ UNCHANGED <<options, config, poller, main, edits>>

RefresherStops ==
    /\ refresher.pc = "wait" /\ main = "done"
    /\ refresher' = [refresher EXCEPT !.pc = "stopped"]
    /\ UNCHANGED <<options, config, refreshCh, poller, main, asked, edits>>

-----------------------------------------------------------------------------
Poller == TakeRefresh \/ PollOnce \/ PollEnds
Refresher == ReadOptions \/ StoreConfig \/ RefresherTriggers

ScheduleNext ==
    \/ MainTriggers \/ Refresh \/ Shutdown
    \/ \E o \in Options : EditOptions(o)
    \/ Poller \/ TimerFires \/ PollerStops
    \/ Refresher \/ RefresherStops

ScheduleSpec == ScheduleInit /\ [][ScheduleNext]_schedule

(***************************************************************************)
(* Goroutines are scheduled, a poll's commands have deadlines and the      *)
(* refresher's ticker ticks.  Go's select chooses at random among the      *)
(* ready cases, so the end of the context is not passed over for ever.     *)
(* Nothing is assumed of the poll timer, of requests or of the shutdown.   *)
(***************************************************************************)
ScheduleFairness ==
    /\ WF_schedule(MainTriggers) /\ WF_schedule(Poller) /\ WF_schedule(Refresher)
    /\ SF_schedule(TakeRefresh) /\ SF_schedule(PollerStops) /\ SF_schedule(RefresherStops)
ScheduleFairSpec == ScheduleSpec /\ ScheduleFairness

-----------------------------------------------------------------------------
ScheduleTypeOK ==
    /\ options \in Options
    /\ config \in OrNoConfig(Config)
    /\ refreshCh \in BOOLEAN
    /\ poller \in [pc : {"wait", "poll", "polling", "stopped"}, cfg : OrNoConfig(Config)]
    /\ refresher \in [pc : {"wait", "store", "trigger", "stopped"}, read : OrNoConfig(Config)]
    /\ main \in {"trigger", "serve", "done"}
    /\ asked \in BOOLEAN
    /\ edits \in 0..MaxEdits

\* A refresh that was asked for while a poll was running, or while another
\* request was waiting, is not lost: the slot is full, or the poller is about
\* to begin a poll (poller.go 24-45).
RefreshKept == asked => refreshCh \/ poller.pc = "poll"

\* Whenever the configuration differs from the one the last poll began with,
\* a poll is on its way without waiting for the timer (main.go 101-106,
\* 159-161; manager.go 33-48).
ChangeAnnounced ==
    config # poller.cfg =>
        \/ refreshCh \/ poller.pc = "poll"
        \/ refresher.pc = "trigger" \/ main = "trigger"

\* Every request is followed by the start of a poll, unless the process is
\* being stopped.
RefreshServed == asked ~> ~asked \/ main = "done"

\* Once the options stay readable and unchanged, polls use exactly them, or
\* are skipped when they are not usable, however long the poll interval is.
OptionsTakeEffect ==
    \A o \in Options \ {Unreadable} :
        <>[](options = o /\ main = "serve") => <>[](poller.cfg = FetchConfig(o))

\* The context's end stops both goroutines.
ShutdownStops == main = "done" ~> poller.pc = "stopped" /\ refresher.pc = "stopped"
=============================================================================
