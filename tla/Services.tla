-------------------------------- MODULE Services --------------------------------
(***************************************************************************)
(* External tool servers: their start from the configuration                *)
(* (src/src/server/bootstrap.ts), the table of clients, the health checks   *)
(* and the restarts (mcp/external-runtime.ts) and the client's idea of      *)
(* being connected (mcp/client.ts).  A server is a process that may end at  *)
(* any time.  A step is what runs between two awaits.                       *)
(***************************************************************************)
EXTENDS Naturals

CONSTANTS
  Service,         \* the names configured with autostart
  Check,           \* health checks under way at one time
  None,
  RestartOnCrash,  \* runtime.restartOnCrash
  MaxCrashes,      \* restarts of a service before it is given up
  Threshold        \* crashFailureThreshold

VARIABLES
  boot,     \* the services to start, and the one whose start is awaited
  table,    \* table[s]: ExternalMcpRuntime.services, None or its entry
  failure,  \* failure[s]: recent failures, and is the service cooling down?
  monitor,  \* does the interval of health checks run?
  check     \* check[c]: a health check: the services to visit, and its restart

vars == <<boot, table, failure, monitor, check>>

NoFailure == [recent |-> 0, cooling |-> FALSE]
NoCheck == [on |-> FALSE, todo |-> {}, at |-> None, step |-> "visiting"]

\* A client that has connected, with its process.
Entry(crashes) == [alive |-> TRUE, connected |-> TRUE, crashes |-> crashes]

Listed(s) == table[s] # None

Init ==
  /\ boot = [todo |-> Service, at |-> None]
  /\ table = [s \in Service |-> None]
  /\ failure = [s \in Service |-> NoFailure]
  /\ monitor = "off"
  /\ check = [c \in Check |-> NoCheck]

-----------------------------------------------------------------------------
(* Start *)

StartFromEntry(s) ==
  /\ boot.at = None /\ s \in boot.todo
  /\ boot' = [todo |-> boot.todo \ {s}, at |-> s]
  /\ UNCHANGED <<table, failure, monitor, check>>

Connected(s) ==
  /\ boot.at = s
  /\ boot' = [boot EXCEPT !.at = None]
  /\ table' = [table EXCEPT ![s] = Entry(0)]
  /\ failure' = [failure EXCEPT ![s] = NoFailure]
  /\ UNCHANGED <<monitor, check>>

\* recordExternalFailure: one failure too many starts a pause.
Recorded(f) ==
  IF f.recent + 1 >= Threshold THEN [recent |-> 0, cooling |-> TRUE]
  ELSE [f EXCEPT !.recent = @ + 1]

\* Logged; the service stays out of the table.
ConnectFails(s) ==
  /\ boot.at = s
  /\ boot' = [boot EXCEPT !.at = None]
  /\ failure' = [failure EXCEPT ![s] = Recorded(@)]
  /\ UNCHANGED <<table, monitor, check>>

StartMonitoring ==
  /\ monitor = "off" /\ boot.todo = {} /\ boot.at = None
  /\ monitor' = "on"
  /\ UNCHANGED <<boot, table, failure, check>>

\* The server's process ends.  Nothing in the client listens for that.
Crash(s) ==
  /\ Listed(s) /\ table[s].alive
  /\ table' = [table EXCEPT ![s].alive = FALSE]
  /\ UNCHANGED <<boot, failure, monitor, check>>

-----------------------------------------------------------------------------
(* Health checks *)

HealthCheckAll(c) ==
  /\ monitor = "on" /\ ~check[c].on
  /\ check' = [check EXCEPT ![c] = [NoCheck EXCEPT !.on = TRUE, !.todo = {s \in Service : Listed(s)}]]
  /\ UNCHANGED <<boot, table, failure, monitor>>

Moves(c, at, step) == check' = [check EXCEPT ![c].at = at, ![c].step = step]

\* The service is connected or gone, or crashes are left alone.
Passes(s) == ~Listed(s) \/ table[s].connected \/ ~RestartOnCrash

\* The next service in the table passes, is given up, or is to be restarted.
Visit(c, s) ==
  LET done == [check[c] EXCEPT !.todo = @ \ {s}] IN
  /\ check[c].on /\ check[c].step = "visiting" /\ s \in check[c].todo
  /\ IF Passes(s)
       THEN check' = [check EXCEPT ![c] = done] /\ UNCHANGED table
     ELSE IF table[s].crashes >= MaxCrashes
       THEN check' = [check EXCEPT ![c] = done] /\ table' = [table EXCEPT ![s] = None]
     ELSE /\ check' = [check EXCEPT ![c] = [done EXCEPT !.at = s, !.step = "waiting"]]
          /\ table' = [table EXCEPT ![s].crashes = @ + 1]
  /\ UNCHANGED <<boot, failure, monitor>>

\* The failure is recorded, and the service dropped when it has to cool down.
RestartFails(c, s) ==
  /\ failure' = [failure EXCEPT ![s] = Recorded(@)]
  /\ table' = IF Recorded(failure[s]).cooling THEN [table EXCEPT ![s] = None] ELSE table
  /\ Moves(c, None, "visiting")

\* The backoff is over: a new client connects, unless the service cools down.
Reconnect(c, s) ==
  /\ check[c].at = s /\ check[c].step = "waiting"
  /\ IF failure[s].cooling THEN RestartFails(c, s)
     ELSE Moves(c, s, "connecting") /\ UNCHANGED <<failure, table>>
  /\ UNCHANGED <<boot, monitor>>

\* The entry, if it is still there, has its new client.
Reconnected(c, s) ==
  /\ check[c].at = s /\ check[c].step = "connecting"
  /\ table' = IF Listed(s) THEN [table EXCEPT ![s] = Entry(@.crashes)] ELSE table
  /\ failure' = [failure EXCEPT ![s] = NoFailure]
  /\ Moves(c, None, "visiting")
  /\ UNCHANGED <<boot, monitor>>

ReconnectFails(c, s) ==
  /\ check[c].at = s /\ check[c].step = "connecting"
  /\ RestartFails(c, s)
  /\ UNCHANGED <<boot, monitor>>

HealthCheckEnds(c) ==
  /\ check[c].on /\ check[c].step = "visiting" /\ check[c].todo = {}
  /\ check' = [check EXCEPT ![c] = NoCheck]
  /\ UNCHANGED <<boot, table, failure, monitor>>

\* The pause is over when the service is next asked for.
CooldownEnds(s) ==
  /\ failure[s].cooling
  /\ failure' = [failure EXCEPT ![s] = NoFailure]
  /\ UNCHANGED <<boot, table, monitor, check>>

-----------------------------------------------------------------------------
(* Shutdown *)

StopMonitoring ==
  /\ monitor = "on"
  /\ monitor' = "stopped"
  /\ UNCHANGED <<boot, table, failure, check>>

\* The client has closed: it is disconnected and its entry deleted.
StopService(s) ==
  /\ monitor = "stopped" /\ Listed(s)
  /\ table' = [table EXCEPT ![s] = None]
  /\ UNCHANGED <<boot, failure, monitor, check>>

CheckStep(c) ==
  \/ HealthCheckAll(c) \/ HealthCheckEnds(c)
  \/ \E s \in Service : Visit(c, s) \/ Reconnect(c, s) \/ Reconnected(c, s) \/ ReconnectFails(c, s)

Next ==
  \/ \E s \in Service : StartFromEntry(s) \/ Connected(s) \/ ConnectFails(s) \/ Crash(s)
                        \/ CooldownEnds(s) \/ StopService(s)
  \/ StartMonitoring \/ StopMonitoring
  \/ \E c \in Check : CheckStep(c)

\* The interval fires again and again, an attempt to connect ends, and what has
\* to be closed at shutdown closes.
Fairness ==
  /\ \A c \in Check : WF_vars(CheckStep(c))
  /\ \A s \in Service : WF_vars(StartFromEntry(s)) /\ WF_vars(Connected(s) \/ ConnectFails(s))
                        /\ WF_vars(StopService(s))
  /\ WF_vars(StartMonitoring)

Spec == Init /\ [][Next]_vars /\ Fairness

-----------------------------------------------------------------------------
(* Properties *)

\* "Crashed or disconnected external servers are restarted during health checks
\* when `runtime.restartOnCrash` is true" (docs/internals/mcp/runtime.md:85), or
\* given up: no service stays in the table with its process gone.
CrashedServicesComeBack ==
  RestartOnCrash =>
    \A s \in Service : (Listed(s) /\ ~table[s].alive) ~> ~(Listed(s) /\ ~table[s].alive)
=============================================================================
