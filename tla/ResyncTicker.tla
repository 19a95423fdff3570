---------------------------- MODULE ResyncTicker ----------------------------
(***************************************************************************)
(* ResyncTicker (pkg/ecnet/ticker/ticker.go): the configuration watcher    *)
(* starts and stops ticker goroutines as EcnetConfig's resync interval     *)
(* changes.  They share the flag running, written without synchronisation, *)
(* and meet on the unbuffered stopTickerCh.                                *)
(***************************************************************************)
EXTENDS Naturals, FiniteSets

CONSTANTS
  minTickInterval,
  Settings,      (* values of EcnetConfig's ConfigResyncInterval            *)
  duration,      (* what time.ParseDuration makes of each of them           *)
  Invalid,       (* the setting cannot be parsed                            *)
  MaxTickers,    (* bound on the ticker goroutines started                  *)
  MaxInvalid     (* bound on the intervals rejected                         *)

ASSUME IntervalAssumption ==
  /\ minTickInterval \in Nat \ {0}
  /\ duration \in [Settings -> Nat \cup {Invalid}]
  /\ Invalid \notin Nat
  /\ {"none", "exit"} \cap Settings = {}
  /\ MaxTickers \in Nat \ {0}
  /\ MaxInvalid \in Nat

VARIABLES
  configured,              (* EcnetConfig's ConfigResyncInterval            *)
  watcher,                 (* watchConfig: [pc, then]                       *)
  running,
  tickers,                 (* ticker goroutines, in the order they started  *)
  started,                 (* number of ticker goroutines started           *)
  invalidIntervalCounter,
  resync,                  (* a ProxyUpdate message is in the workqueue     *)
  wanted,                  (* the last interval watchConfig acted on        *)
  hasty                    (* history: an update came while a ticker was    *)
                           (* between its start and its loop, or 0 came     *)
                           (* while none ran                                *)

tickerVars == <<configured, watcher, running, tickers, started, invalidIntervalCounter,
                resync, wanted, hasty>>

TickerIds == 1..MaxTickers
Starting  == {i \in TickerIds : tickers[i].pc = "starting"}
Ticking   == {i \in TickerIds : tickers[i].pc = "ticking"}

AtSelect == [pc |-> "select", then |-> "none"]

\* GetConfigResyncInterval: 0 when the setting cannot be parsed.
GetConfigResyncInterval(setting) ==
  IF duration[setting] = Invalid THEN 0 ELSE duration[setting]

\* go r.startTicker(newResyncInterval)
GoStartTicker(setting) ==
  /\ started < MaxTickers
  /\ started' = started + 1
  /\ tickers' = [tickers EXCEPT ![started + 1] = [pc |-> "starting", interval |-> duration[setting]]]

\* Start, with the interval EcnetConfig holds at that time.
TickerInit ==
  /\ configured \in Settings
  /\ watcher = AtSelect
  /\ running = FALSE
  /\ started = IF GetConfigResyncInterval(configured) >= minTickInterval THEN 1 ELSE 0
  /\ tickers = [i \in TickerIds |->
                  IF i <= started
                    THEN [pc |-> "starting", interval |-> duration[configured]]
                    ELSE [pc |-> "none", interval |-> 0]]
  /\ invalidIntervalCounter = 0
  /\ resync = FALSE
  /\ wanted = IF started = 1 THEN duration[configured] ELSE 0
  /\ hasty = FALSE

\* Mutant: the ticker that runs is not stopped first.
Restart_NoStop(setting) ==
  /\ GoStartTicker(setting)
  /\ UNCHANGED watcher

\* Mutant: a ticker is stopped whether it runs or not.
Restart_AlwaysStops(setting) ==
  /\ started < MaxTickers
  /\ watcher' = [pc |-> "send", then |-> setting]
  /\ UNCHANGED <<started, tickers>>

\* The interval is allowed: stop the ticker if it runs, then start a new one.
Restart(setting) ==
  IF running
    THEN /\ started < MaxTickers
         /\ watcher' = [pc |-> "send", then |-> setting]
         /\ UNCHANGED <<started, tickers>>
    ELSE /\ GoStartTicker(setting)
         /\ UNCHANGED watcher

\* An update of EcnetConfig reaches watchConfig.
ConfigUpdate(new) ==
  /\ watcher.pc = "select"
  /\ hasty' = (hasty \/ Starting # {} \/ (duration[new] = 0 /\ ~running))
  /\ configured' = new
  /\ IF new = configured \/ new = "" \/ duration[new] = Invalid
       THEN UNCHANGED <<watcher, started, tickers, invalidIntervalCounter, wanted>>
       ELSE IF duration[new] >= minTickInterval
         THEN Restart(new) /\ wanted' = duration[new] /\ UNCHANGED invalidIntervalCounter
         ELSE IF duration[new] = 0
           THEN /\ watcher' = [pc |-> "send", then |-> "none"]
                /\ wanted' = 0
                /\ UNCHANGED <<started, tickers, invalidIntervalCounter>>
           ELSE /\ invalidIntervalCounter < MaxInvalid
                /\ invalidIntervalCounter' = invalidIntervalCounter + 1
                /\ UNCHANGED <<watcher, started, tickers, wanted>>
  /\ UNCHANGED <<running, resync>>

\* case <-quit
Quit ==
  /\ watcher.pc = "select"
  /\ watcher' = [pc |-> "send", then |-> "exit"]
  /\ UNCHANGED <<configured, running, tickers, started, invalidIntervalCounter, resync, wanted, hasty>>

\* stopTickerCh: the watcher's send meets the receive of a ticker's loop.
StopSignal(i) ==
  /\ watcher.pc = "send"
  /\ i \in Ticking
  /\ watcher' = [watcher EXCEPT !.pc = "clear"]
  /\ tickers' = [tickers EXCEPT ![i].pc = "gone"]
  /\ UNCHANGED <<configured, running, started, invalidIntervalCounter, resync, wanted, hasty>>

\* The rest of stopTicker, and the start of the ticker that replaces the old one.
ClearRunning ==
  /\ watcher.pc = "clear"
  /\ running' = FALSE
  /\ watcher' = IF watcher.then = "exit" THEN [watcher EXCEPT !.pc = "exited"] ELSE AtSelect
  /\ IF watcher.then \in {"none", "exit"}
       THEN UNCHANGED <<started, tickers>>
       ELSE GoStartTicker(watcher.then)
  /\ UNCHANGED <<configured, invalidIntervalCounter, resync, wanted, hasty>>

\* startTicker up to its loop.
SetRunning(i) ==
  /\ i \in Starting
  /\ running' = TRUE
  /\ tickers' = [tickers EXCEPT ![i].pc = "ticking"]
  /\ UNCHANGED <<configured, watcher, started, invalidIntervalCounter, resync, wanted, hasty>>

\* case <-ticker.C: equal messages in the workqueue are one.
Tick(i) ==
  /\ i \in Ticking
  /\ resync' = TRUE
  /\ UNCHANGED <<configured, watcher, running, tickers, started, invalidIntervalCounter, wanted, hasty>>

\* The broker takes the message from the workqueue.
Processed ==
  /\ resync
  /\ resync' = FALSE
  /\ UNCHANGED <<configured, watcher, running, tickers, started, invalidIntervalCounter, wanted, hasty>>

TickerNext ==
  \/ \E new \in Settings : ConfigUpdate(new)
  \/ \E i \in TickerIds : StopSignal(i) \/ SetRunning(i) \/ Tick(i)
  \/ Quit
  \/ ClearRunning
  \/ Processed

TickerSpec == TickerInit /\ [][TickerNext]_tickerVars

\* Goroutines run and a send meets a waiting receive.
FairTickerSpec ==
  /\ TickerSpec
  /\ WF_tickerVars(\E i \in TickerIds : StopSignal(i))
  /\ WF_tickerVars(ClearRunning)
  /\ \A i \in TickerIds : WF_tickerVars(SetRunning(i))

-----------------------------------------------------------------------------
TickerTypeOK ==
  /\ watcher.pc \in {"select", "send", "clear", "exited"}
  /\ running \in BOOLEAN
  /\ started \in 0..MaxTickers
  /\ tickers \in [TickerIds -> [pc : {"none", "starting", "ticking", "gone"}, interval : Nat]]
  /\ \A i \in TickerIds : tickers[i].pc # "none" => tickers[i].interval >= minTickInterval
  /\ resync \in BOOLEAN
  /\ wanted \in Nat
  /\ hasty \in BOOLEAN

\* The guard "if r.running" in front of stopTicker is safe although running is
\* read and written without synchronisation: whenever the watcher can see it
\* set, a ticker is in its loop and will take the stop signal.
RunningHasTicker == running => Ticking # {} \/ watcher.pc = "clear"

\* A watcher that stops a ticker to start another gets back to its select,
\* whatever updates, settings of 0 included, came before.
RestartCompletes == watcher.then \in Settings ~> watcher.pc = "select"

\* While updates leave each ticker the time to start, and 0 comes only for a
\* running one, there is never more than one ticker, and it ticks at the last
\* valid interval of EcnetConfig.
OneTickerAtWantedInterval ==
  watcher.pc = "select" /\ ~hasty =>
    {tickers[i].interval : i \in Starting \cup Ticking} = {wanted} \ {0}
      /\ Cardinality(Starting \cup Ticking) <= 1
=============================================================================
