------------------------------ MODULE BridgeApp ------------------------------
(* The bridge process: cmd/bridge's run, NewApp and Serve, which read and      *)
(* check the configuration, connect to the database, load the accounts, start  *)
(* the payment listener's goroutine, look at the API key, bind the port and    *)
(* serve. The listener runs beside the rest of the start, and dies with the    *)
(* process. A supervisor starts the process again; `bridge --migrate-db` is a  *)
(* run of its own that makes the tables.                                       *)
EXTENDS PaymentListener

CONSTANT Configs  \* the configuration files of the instance

\* What the start tells apart in config_bridge.toml: required values are given
\* and all values parse; database.type; the two seeds; the receiving account; the
\* receive callback; the length of the API key.
Config == [params : BOOLEAN, db : {"mysql", "postgres", "", "other"},
           authorizing : BOOLEAN, base : BOOLEAN, receiving : BOOLEAN,
           receive : BOOLEAN, apiKey : {"none", "short", "long"}]

ASSUME ConfigsAssumption == Configs \subseteq Config

VARIABLES
  conf,      \* the configuration file
  boot,      \* where the main goroutine is; "off": there is no process
  migrated   \* do the tables exist?

processVars == <<conf, boot, migrated>>
bridgeVars == <<vars, processVars>>

Boot == {"off", "driver", "accounts", "listener", "apiKey", "bind", "serving", "hanging"}

BridgeInit ==
  /\ Init
  /\ conf \in Configs
  /\ boot = "off"
  /\ migrated \in BOOLEAN

\* Config.Validate.
Validate == conf.params /\ conf.db # "other"

\* Mutant of Listens: callbacks.receive is not looked at.
ListensAlways == conf.receiving

Listens == conf.receiving /\ conf.receive

-----------------------------------------------------------------------------
(* The end of a process, and with it of the listener: by itself, by log.Fatal *)
(* or by a panic.                                                             *)

\* Mutant of ProcessEnds: the goroutine is left running.
GoroutineLeft ==
  /\ boot' = "off"
  /\ UNCHANGED <<vars, conf, migrated>>

ProcessEnds ==
  /\ boot' = "off"
  /\ Dies
  /\ UNCHANGED <<crashes, conf, migrated>>

\* The process is killed, or the socket it serves on breaks.
Killed ==
  /\ boot # "off" /\ crashes < MaxCrashes
  /\ crashes' = crashes + 1
  /\ boot' = "off"
  /\ Dies
  /\ UNCHANGED <<conf, migrated>>

(* The start.                                                                 *)

Proceed(from, to) == boot = from /\ boot' = to /\ UNCHANGED <<conf, migrated>>

\* A configuration that does not pass ends the run at once.
Run == Validate /\ Proceed("off", "driver") /\ UNCHANGED vars

\* With database.type empty there is no driver, and entityManager and repository
\* stay nil.
InitDriver == Proceed("driver", "accounts") /\ UNCHANGED vars

\* The accounts of the seeds that are given are loaded from Horizon.
InitAccounts == Proceed("accounts", "listener") /\ UNCHANGED vars

\* The start waits for Horizon to send an account: that of a seed, or the
\* receiving one.
AsksHorizon ==
  \/ boot = "accounts" /\ (conf.authorizing \/ conf.base)
  \/ boot = "listener" /\ Listens

\* Connecting, loading an account or loading the receiving account fails.
StartFails == ((boot = "driver" /\ conf.db # "") \/ AsksHorizon) /\ ProcessEnds

\* LoadAccount has no time limit: the start waits until the process is killed.
StartHangs ==
  /\ AsksHorizon
  /\ boot' = "hanging"
  /\ UNCHANGED <<vars, conf, migrated>>

\* Mutant of StartListener: an account that does not load is only logged.
ListenErrorLogged ==
  /\ Proceed("listener", "apiKey")
  /\ \/ Listens /\ Listen
     \/ UNCHANGED vars

\* The goroutine is started here, before the API key is looked at.
StartListener ==
  /\ Proceed("listener", "apiKey")
  /\ IF Listens THEN Listen ELSE UNCHANGED vars

\* A key that is too short ends the process, listener and all.
CheckAPIKey ==
  \/ conf.apiKey # "short" /\ Proceed("apiKey", "bind") /\ UNCHANGED vars
  \/ conf.apiKey = "short" /\ boot = "apiKey" /\ ProcessEnds

\* goji.Serve binds the port and accepts requests.
Serve == Proceed("bind", "serving") /\ UNCHANGED vars

\* The port cannot be had: log.Fatal, listener and all.
BindFails == boot = "bind" /\ ProcessEnds

Start == Run \/ InitDriver \/ InitAccounts \/ StartListener \/ CheckAPIKey \/ Serve

\* Mutant of MigrateDB: the tables are made anew.
MigrateAnew ==
  /\ Validate /\ conf.db # ""
  /\ migrated' = TRUE
  /\ rows' = <<>>
  /\ UNCHANGED <<netVars, pc, pos, cursor, origin, crashes, conf, boot>>

\* bridge --migrate-db, at any time: a run that ends before anything is started.
MigrateDB ==
  /\ Validate /\ conf.db # ""
  /\ migrated' = TRUE
  /\ UNCHANGED <<vars, conf, boot>>

(* The listener's goroutine in this process.                                  *)

\* The repository is nil: the goroutine panics, which ends the process.
ListenerPanics == conf.db = "" /\ pc = "load" /\ ProcessEnds

\* The table is missing: the SELECT fails, and the goroutine returns.
CursorTableMissing ==
  /\ conf.db # "" /\ ~migrated
  /\ pc = "load"
  /\ pc' = "dead"
  /\ UNCHANGED <<netVars, rows, pos, cursor, origin, crashes, processVars>>

Load ==
  /\ conf.db # "" /\ migrated
  /\ ReadCursor \/ ReadCursorFails
  /\ UNCHANGED processVars

Follow == Stream /\ UNCHANGED processVars

World == (OperationArrives \/ LateAccept) /\ UNCHANGED processVars

BridgeNext ==
  \/ Start \/ StartFails \/ StartHangs \/ BindFails \/ MigrateDB
  \/ ListenerPanics \/ CursorTableMissing \/ Load \/ Follow
  \/ World
  \/ Killed

BridgeSpec == BridgeInit /\ [][BridgeNext]_bridgeVars

\* Both goroutines are scheduled, a process that ended is started again, and a
\* dependency asked again and again, at each start or by a loop that never gives
\* up, succeeds some day, unless one of these calls never returns: that may happen
\* to any request to Horizon. Nobody need ever run the migration, or kill a
\* process that hangs.
BridgeFairness ==
  /\ WF_bridgeVars(Start)
  /\ SF_bridgeVars(InitDriver) /\ SF_bridgeVars(InitAccounts)
  /\ SF_bridgeVars(StartListener) /\ SF_bridgeVars(Serve)
  /\ WF_bridgeVars(ListenerPanics \/ CursorTableMissing \/ Load \/ Follow)
  /\ SF_bridgeVars(Connect /\ UNCHANGED processVars)
  /\ SF_bridgeVars(Deliver /\ UNCHANGED processVars)
  /\ SF_bridgeVars(Filter /\ UNCHANGED processVars)
  /\ SF_bridgeVars(LoadMemo /\ UNCHANGED processVars)
  /\ SF_bridgeVars(CallbackAccepted /\ UNCHANGED processVars)
  /\ SF_bridgeVars(Save /\ UNCHANGED processVars)

BridgeFairSpec == BridgeSpec /\ BridgeFairness

-----------------------------------------------------------------------------
(* Properties.                                                                *)

\* The goroutine lives inside a process that has reached it.
BridgeTypeOK ==
  /\ TypeOK
  /\ conf \in Config /\ migrated \in BOOLEAN
  /\ boot \in Boot
  /\ pc # "down" => boot \in {"apiKey", "bind", "serving"} /\ Listens

\* What readme_bridge.md asks of a configuration: the minimal values, and a
\* database for a listener.
Complete ==
  /\ conf.params /\ conf.db # "other" /\ conf.apiKey # "short"
  /\ conf.receiving /\ conf.receive => conf.db # ""

\* A complete configuration serves: whatever fails at a start and whoever kills
\* the process, NewApp comes through and Serve is reached again and again, and no
\* panic of the listener takes the process down every time; unless a LoadAccount of
\* a start is never answered, which no later start makes up for.
ServesUnlessHorizonHangs ==
  Complete => []<>(boot = "serving") \/ <>[](boot = "hanging")

\* ... and a process that has started its listener goes on until it is killed,
\* except while it binds its port: nothing the goroutine meets, a missing table or a
\* failing Horizon included, ends the process that serves the other endpoints.
EndsOnlyIfKilled ==
  [][Complete /\ boot \in {"apiKey", "serving"} /\ boot' = "off" =>
       crashes' = crashes + 1]_bridgeVars

\* With a complete configuration and the tables made before the start, a payment
\* that arrives once the table has a row is accepted by the callback some day, the
\* whole start of the process included, unless the start or the listener waits for
\* an answer of Horizon for ever.
PaymentsMadeKnown ==
  Complete /\ migrated =>
    EventuallyAccepted \/ <>[](boot = "hanging" \/ pc = "hung")

=============================================================================
