------------------------------- MODULE Launcher -------------------------------
(***************************************************************************)
(* The launcher of backend MCP servers (internal/launcher): the cache of   *)
(* one connection per server, the session pool of stdio connections, the   *)
(* singleflight groups that make concurrent callers share a launch, the    *)
(* health monitor that restarts failed servers, and the shutdown that      *)
(* InitiateShutdown runs.                                                  *)
(*                                                                         *)
(* Launcher.mu is held for single steps only: a launch looks the cache up, *)
(* starts the backend, publishes the connection and records the start in   *)
(* separate critical sections, between which callers, the monitor, the     *)
(* pool's cleanup and Close take theirs.                                   *)
(***************************************************************************)
EXTENDS Naturals, FiniteSets

CONSTANTS
  Clients,      \* requests that call GetOrLaunch or GetOrLaunchForSession
  Monitor,      \* the health monitor, a caller of GetOrLaunch too
  HTTPServers,  \* configured servers with type "http"
  StdioServers, \* configured servers launched as a process
  NoOIDC,       \* HTTP servers that need OIDC when no provider is configured
  Sessions,     \* MCP sessions of the gateway's clients
  NoSession,    \* the session part of a stateless key
  None,         \* absence
  MaxFailures,  \* maxConsecutiveRestartFailures
  MaxErrors,    \* DefaultMaxErrorCount
  MaxLaunches   \* bound: launches that may succeed over a behaviour

ASSUME LauncherAssumption ==
  /\ Monitor \notin Clients
  /\ NoSession \notin Sessions
  /\ HTTPServers \intersect StdioServers = {} /\ NoOIDC \subseteq HTTPServers
  /\ MaxFailures \in Nat \ {0} /\ MaxErrors \in Nat \ {0} /\ MaxLaunches \in Nat
  /\ None \notin Nat

Servers == HTTPServers \union StdioServers
Callers == Clients \union {Monitor}
Conns   == 1..MaxLaunches

\* What a launch is shared by: the server for the stateless cache, server
\* and session for the pool.  An HTTP server has no session connections.
StatelessKeys == [server : Servers, session : {NoSession}]
PoolKeys      == [server : StdioServers, session : Sessions]
Keys          == StatelessKeys \union PoolKeys

VARIABLES
  closed,       \* Launcher.closed
  connections,  \* Launcher.connections
  pool,         \* SessionConnectionPool.connections
  started,      \* servers with a start time
  errored,      \* servers with a recorded error
  conn,         \* what became of each connection that was launched
  abandoned,    \* history: connections left behind open
  served,       \* history: which connection was published under which key
  caller,       \* where each call of GetOrLaunch is
  hm,           \* the health monitor
  failures,     \* consecutive restart failures of each server
  shutdown,     \* InitiateShutdown: "no", "stopping" or "done"
  broken        \* servers whose launches fail from now on

vars == <<closed, connections, pool, started, errored, conn, abandoned, served, caller, hm,
          failures, shutdown, broken>>

Entry == [conn : Conns, idle : BOOLEAN, errors : 0..MaxErrors]

\* A nil entry is not an entry.
ASSUME NoEntryAssumption == None \notin Entry

\* A call of GetOrLaunch, and the health monitor.
Call == [pc   : {"idle", "miss", "wait", "launch", "publish", "start", "use", "error"},
         key  : Keys \union {None},
         conn : Conns \union {None}]

MonitorState == [pc     : {"sleep", "round", "restart", "launch", "wait", "stopped"},
                 todo   : SUBSET Servers,
                 server : Servers \union {None}]

AtRest == [pc |-> "idle", key |-> None, conn |-> None]
Asleep == [pc |-> "sleep", todo |-> {}, server |-> None]

\* New; servers that need a missing OIDC provider start in error.
Init ==
  /\ closed = FALSE
  /\ connections = [s \in Servers |-> None]
  /\ pool = [k \in PoolKeys |-> None]
  /\ started = {}
  /\ errored = NoOIDC
  /\ conn = [n \in Conns |-> "unused"]
  /\ abandoned = {}
  /\ served = {}
  /\ caller = [c \in Callers |-> AtRest]
  /\ hm = Asleep
  /\ failures = [s \in Servers |-> 0]
  /\ shutdown = "no"
  /\ broken = {}

(***************************************************************************)
(* GetOrLaunch and GetOrLaunchForSession                                   *)
(***************************************************************************)

Cached(k) == IF k \in PoolKeys
             THEN IF pool[k] = None THEN None ELSE pool[k].conn
             ELSE connections[k.server]

\* A hit in the pool refreshes LastUsedAt.
Touch(k) == IF k \in PoolKeys THEN [pool EXCEPT ![k].idle = FALSE] ELSE pool

\* Where a caller is once its call has returned.  A client that got an error
\* is done; the monitor still has to count it.
Answered(c, result) ==
  IF result # None THEN [caller[c] EXCEPT !.pc = "use", !.conn = result]
  ELSE IF c = Monitor THEN [caller[c] EXCEPT !.pc = "error"]
  ELSE AtRest

\* Mutant: those who joined the call are not woken.
FlightEndsAlone(c, result) ==
  caller' = [caller EXCEPT ![c] = Answered(c, result)]

\* Mutant: those who joined another key's call are woken with this one's result.
FlightEndsForAll(c, result) ==
  caller' = [x \in Callers |-> IF x = c \/ caller[x].pc = "wait" THEN Answered(x, result) ELSE caller[x]]

\* The singleflight call of c ends: everyone who joined gets its result.
FlightEnds(c, result) ==
  caller' = [x \in Callers |->
               IF x = c \/ (caller[x].pc = "wait" /\ caller[x].key = caller[c].key)
               THEN Answered(x, result) ELSE caller[x]]

InFlight(k) == \E c \in Callers : caller[c].key = k /\ caller[c].pc \in {"launch", "publish", "start"}

\* The part up to launchGroup.Do.  A closed launcher only answers an error.
Lookup(c, k) ==
  /\ caller[c].pc = "idle"
  /\ ~closed
  /\ IF Cached(k) # None
       THEN /\ caller' = [caller EXCEPT ![c] = [pc |-> "use", key |-> k, conn |-> Cached(k)]]
            /\ pool' = Touch(k)
       ELSE /\ caller' = [caller EXCEPT ![c] = [pc |-> "miss", key |-> k, conn |-> None]]
            /\ UNCHANGED pool
  /\ UNCHANGED <<served, closed, connections, started, errored, conn, abandoned, failures, shutdown, broken>>

\* Another call is launching the same key.
Join(c) ==
  /\ caller[c].pc = "miss"
  /\ InFlight(caller[c].key)
  /\ caller' = [caller EXCEPT ![c].pc = "wait"]
  /\ UNCHANGED <<served, closed, connections, pool, started, errored, conn, abandoned, hm, failures,
                 shutdown, broken>>

\* Mutant: no singleflight group.
LeadAlone(c) ==
  /\ caller[c].pc = "miss"
  /\ ~closed
  /\ caller' = [caller EXCEPT ![c].pc = "launch"]
  /\ UNCHANGED <<served, closed, connections, pool, started, errored, conn, abandoned, hm, failures,
                 shutdown, broken>>

\* The function passed to Do, up to the launch: look again, then launch.
Lead(c) ==
  /\ caller[c].pc = "miss"
  /\ ~InFlight(caller[c].key)
  /\ LET k == caller[c].key IN
       IF closed
       THEN FlightEnds(c, None) /\ UNCHANGED pool
       ELSE IF Cached(k) # None
       THEN FlightEnds(c, Cached(k)) /\ pool' = Touch(k)
       ELSE caller' = [caller EXCEPT ![c].pc = "launch"] /\ UNCHANGED pool
  /\ UNCHANGED <<served, closed, connections, started, errored, conn, abandoned, hm, failures,
                 shutdown, broken>>

Launchable(s) == s \notin broken \union NoOIDC

\* The next connection object.
Fresh == CHOOSE n \in Conns : conn[n] = "unused" /\ \A m \in 1..(n - 1) : conn[m] # "unused"

LaunchSucceeds(c) ==
  /\ caller[c].pc = "launch"
  /\ Launchable(caller[c].key.server)
  /\ \E n \in Conns : conn[n] = "unused"
  /\ conn' = [conn EXCEPT ![Fresh] = "open"]
  /\ caller' = [caller EXCEPT ![c].pc = "publish", ![c].conn = Fresh]
  /\ UNCHANGED <<served, closed, connections, pool, started, errored, abandoned, hm, failures,
                 shutdown, broken>>

\* SessionConnectionPool.RecordError: nothing when there is no entry.
RecordPoolError(k) ==
  IF k \in PoolKeys /\ pool[k] # None
  THEN [pool EXCEPT ![k].errors = IF @ < MaxErrors THEN @ + 1 ELSE @]
  ELSE pool

\* The launch failed or timed out: count the error, record it, return it.
LaunchError(c) ==
  /\ pool' = RecordPoolError(caller[c].key)
  /\ errored' = IF closed THEN errored ELSE errored \union {caller[c].key.server}
  /\ FlightEnds(c, None)

\* NewConnection or NewHTTPConnection returns an error, the OIDC provider is
\* missing, or the mount policy refuses the container arguments.
LaunchFails(c) ==
  /\ caller[c].pc = "launch"
  /\ LaunchError(c)
  /\ UNCHANGED <<served, closed, connections, started, conn, abandoned, hm, failures, shutdown, broken>>

\* launchStdioConnection gives up after startupTimeout; the goroutine that
\* waits for the backend leaves its connection in a channel nobody reads.
LaunchTimesOut(c) ==
  /\ caller[c].pc = "launch"
  /\ caller[c].key.server \in StdioServers
  /\ Launchable(caller[c].key.server)
  /\ \E n \in Conns : conn[n] = "unused"
  /\ conn' = [conn EXCEPT ![Fresh] = "late"]
  /\ abandoned' = abandoned \union {Fresh}
  /\ LaunchError(c)
  /\ UNCHANGED <<served, closed, connections, started, hm, failures, shutdown, broken>>

\* The abandoned backend completes its handshake after all.
LateArrival(n) ==
  /\ conn[n] = "late"
  /\ conn' = [conn EXCEPT ![n] = "open"]
  /\ UNCHANGED <<served, closed, connections, pool, started, errored, abandoned, caller, hm, failures,
                 shutdown, broken>>

\* Mutant: Launcher.closed is not read again before publishing.
PublishUnchecked(c) ==
  /\ caller[c].pc = "publish"
  /\ LET k == caller[c].key
         n == caller[c].conn
     IN IF k \in PoolKeys
        THEN /\ pool' = [pool EXCEPT ![k] = [conn |-> n, idle |-> FALSE, errors |-> 0]]
             /\ UNCHANGED connections
        ELSE connections' = [connections EXCEPT ![k.server] = n] /\ UNCHANGED pool
  /\ served' = served \union {[key |-> caller[c].key, conn |-> caller[c].conn]}
  /\ caller' = [caller EXCEPT ![c].pc = "start"]
  /\ UNCHANGED <<closed, started, errored, conn, abandoned, hm, failures, shutdown, broken>>

\* The launch is published under mu, unless the launcher was closed meanwhile.
\* SessionConnectionPool.Set keeps the error count of an entry it replaces.
Publish(c) ==
  /\ caller[c].pc = "publish"
  /\ LET k == caller[c].key
         n == caller[c].conn
     IN IF closed
        THEN /\ conn' = [conn EXCEPT ![n] = "closed"]
             /\ FlightEnds(c, None)
             /\ UNCHANGED <<connections, pool, served>>
        ELSE /\ caller' = [caller EXCEPT ![c].pc = "start"]
             /\ served' = served \union {[key |-> k, conn |-> n]}
             /\ IF k \in PoolKeys
                  THEN /\ pool' = [pool EXCEPT ![k] =
                            [conn |-> n, idle |-> FALSE,
                             errors |-> IF pool[k] = None THEN 0 ELSE pool[k].errors]]
                       /\ UNCHANGED connections
                  ELSE connections' = [connections EXCEPT ![k.server] = n] /\ UNCHANGED pool
             /\ UNCHANGED conn
  /\ UNCHANGED <<closed, started, errored, abandoned, hm, failures, shutdown, broken>>

\* recordStart, then the call returns.  Only a first start clears the error.
RecordStart(c) ==
  /\ caller[c].pc = "start"
  /\ LET s == caller[c].key.server IN
       IF closed \/ s \in started
       THEN UNCHANGED <<started, errored>>
       ELSE started' = started \union {s} /\ errored' = errored \ {s}
  /\ FlightEnds(c, caller[c].conn)
  /\ UNCHANGED <<served, closed, connections, pool, conn, abandoned, hm, failures, shutdown, broken>>

\* The client is done with the connection.
Done(c) ==
  /\ caller[c].pc = "use"
  /\ caller' = [caller EXCEPT ![c] = AtRest]
  /\ UNCHANGED <<served, closed, connections, pool, started, errored, conn, abandoned, hm, failures,
                 shutdown, broken>>

(***************************************************************************)
(* The session pool's cleanup goroutine                                    *)
(***************************************************************************)

\* A pooled connection has not been looked up for longer than idleTimeout.
GoIdle(k) ==
  /\ pool[k] # None
  /\ ~pool[k].idle
  /\ pool' = [pool EXCEPT ![k].idle = TRUE]
  /\ UNCHANGED <<served, closed, connections, started, errored, conn, abandoned, caller, hm, failures,
                 shutdown, broken>>

Evictable == {k \in PoolKeys : pool[k] # None /\ (pool[k].idle \/ pool[k].errors >= MaxErrors)}

\* Mutant: evicted connections are dropped without being closed.
CleanupDrops ==
  /\ Evictable # {}
  /\ pool' = [k \in PoolKeys |-> IF k \in Evictable THEN None ELSE pool[k]]
  /\ UNCHANGED <<served, closed, connections, started, errored, conn, abandoned, caller, hm, failures,
                 shutdown, broken>>

\* cleanupIdleConnections.
Cleanup ==
  /\ Evictable # {}
  /\ conn' = [n \in Conns |-> IF \E k \in Evictable : pool[k].conn = n THEN "closed" ELSE conn[n]]
  /\ pool' = [k \in PoolKeys |-> IF k \in Evictable THEN None ELSE pool[k]]
  /\ UNCHANGED <<served, closed, connections, started, errored, abandoned, caller, hm, failures,
                 shutdown, broken>>

(***************************************************************************)
(* The health monitor                                                      *)
(***************************************************************************)

\* GetServerState.
Status(s) == IF s \in errored THEN "error"
             ELSE IF s \in started THEN "running" ELSE "stopped"

\* Back to the round under way, or to sleep when it is over.
NextServer(todo) == [pc |-> IF todo = {} THEN "sleep" ELSE "round", todo |-> todo, server |-> None]

\* The ticker fires.
Wake ==
  /\ hm.pc = "sleep"
  /\ hm' = NextServer(Servers)
  /\ UNCHANGED <<served, closed, connections, pool, started, errored, conn, abandoned, caller, failures,
                 shutdown, broken>>

\* checkAll for one server, and the beginning of handleErrorState.
Check(s) ==
  /\ hm.pc = "round" /\ s \in hm.todo
  /\ hm' = IF Status(s) = "error" /\ failures[s] < MaxFailures
           THEN [pc |-> "restart", todo |-> hm.todo \ {s}, server |-> s]
           ELSE NextServer(hm.todo \ {s})
  /\ failures' = IF Status(s) = "running" THEN [failures EXCEPT ![s] = 0] ELSE failures
  /\ UNCHANGED <<served, closed, connections, pool, started, errored, conn, abandoned, caller,
                 shutdown, broken>>

\* Mutant: the closed connection stays in the cache.
ClearServerKeeps ==
  /\ hm.pc = "restart"
  /\ errored' = errored \ {hm.server} /\ started' = started \ {hm.server}
  /\ conn' = [n \in Conns |-> IF n = connections[hm.server] THEN "closed" ELSE conn[n]]
  /\ hm' = [hm EXCEPT !.pc = "launch"]
  /\ UNCHANGED <<served, closed, connections, pool, abandoned, caller, failures, shutdown, broken>>

\* clearServerForRestart.
ClearServerForRestart ==
  /\ hm.pc = "restart"
  /\ errored' = errored \ {hm.server} /\ started' = started \ {hm.server}
  /\ conn' = [n \in Conns |-> IF n = connections[hm.server] THEN "closed" ELSE conn[n]]
  /\ connections' = [connections EXCEPT ![hm.server] = None]
  /\ hm' = [hm EXCEPT !.pc = "launch"]
  /\ UNCHANGED <<served, closed, pool, abandoned, caller, failures, shutdown, broken>>

\* Mutant: a failed restart is not counted.
RestartUncounted ==
  /\ caller[Monitor].pc \in {"use", "error"}
  /\ failures' = [failures EXCEPT ![hm.server] = 0]
  /\ caller' = [caller EXCEPT ![Monitor] = AtRest]
  /\ hm' = NextServer(hm.todo)
  /\ UNCHANGED <<served, closed, connections, pool, started, errored, conn, abandoned, shutdown, broken>>

\* GetOrLaunch returned to the monitor.
RestartEnds ==
  /\ caller[Monitor].pc \in {"use", "error"}
  /\ failures' = [failures EXCEPT ![hm.server] =
                    IF caller[Monitor].pc = "use" THEN 0 ELSE failures[hm.server] + 1]
  /\ caller' = [caller EXCEPT ![Monitor] = AtRest]
  /\ hm' = NextServer(hm.todo)
  /\ UNCHANGED <<served, closed, connections, pool, started, errored, conn, abandoned, shutdown, broken>>

\* Stop was called and the monitor is between two rounds.
MonitorStops ==
  /\ hm.pc = "sleep" /\ shutdown = "stopping"
  /\ hm' = [hm EXCEPT !.pc = "stopped"]
  /\ UNCHANGED <<served, closed, connections, pool, started, errored, conn, abandoned, caller, failures,
                 shutdown, broken>>

MonitorLookup ==
  /\ hm.pc = "launch"
  /\ Lookup(Monitor, [server |-> hm.server, session |-> NoSession])
  /\ hm' = [hm EXCEPT !.pc = "wait"]

(***************************************************************************)
(* Shutdown and environment                                                *)
(***************************************************************************)

\* InitiateShutdown, up to HealthMonitor.Stop.
InitiateShutdown ==
  /\ shutdown = "no"
  /\ shutdown' = "stopping"
  /\ UNCHANGED <<served, closed, connections, pool, started, errored, conn, abandoned, caller, hm,
                 failures, broken>>

\* Launcher.Close, once the monitor has stopped.  SessionConnectionPool.Stop
\* empties the pool; it does not close the connections in it.
Close ==
  /\ shutdown = "stopping" /\ hm.pc = "stopped"
  /\ shutdown' = "done"
  /\ closed' = TRUE
  /\ conn' = [n \in Conns |-> IF \E s \in Servers : connections[s] = n THEN "closed" ELSE conn[n]]
  /\ connections' = [s \in Servers |-> None]
  /\ abandoned' = abandoned \union {pool[k].conn : k \in {k \in PoolKeys : pool[k] # None}}
  /\ pool' = [k \in PoolKeys |-> None]
  /\ UNCHANGED <<served, started, errored, caller, hm, failures, broken>>

\* A server goes away for good.
Break(s) ==
  /\ Launchable(s)
  /\ broken' = broken \union {s}
  /\ UNCHANGED <<served, closed, connections, pool, started, errored, conn, abandoned, caller, hm,
                 failures, shutdown>>

\* A call that is under way moves on.
CallStep(c) ==
  \/ Join(c) \/ Lead(c)
  \/ LaunchSucceeds(c) \/ LaunchFails(c) \/ LaunchTimesOut(c)
  \/ Publish(c) \/ RecordStart(c)

MonitorStep ==
  \/ \E s \in Servers : Check(s)
  \/ ClearServerForRestart \/ MonitorLookup \/ RestartEnds

Next ==
  \/ \E c \in Clients : \/ \E k \in Keys : Lookup(c, k) /\ UNCHANGED hm
                        \/ Done(c)
  \/ \E c \in Callers : CallStep(c)
  \/ \E n \in Conns : LateArrival(n)
  \/ \E k \in PoolKeys : GoIdle(k)
  \/ Cleanup
  \/ Wake \/ MonitorStep \/ MonitorStops
  \/ InitiateShutdown \/ Close
  \/ \E s \in Servers : Break(s)

Spec == Init /\ [][Next]_vars

\* Goroutines that can move do, launches end (the connect and startup
\* timeouts see to that), and select picks among its ready cases at random,
\* so a stop that stays ready is picked in the end.
Fairness ==
  /\ \A c \in Callers : WF_vars(CallStep(c))
  /\ WF_vars(Wake) /\ WF_vars(MonitorStep) /\ SF_vars(MonitorStops) /\ WF_vars(Close)

FairSpec == Spec /\ Fairness

(***************************************************************************)
(* Properties                                                              *)
(***************************************************************************)

\* Type invariant: the caches, the monitor and the callers keep their types;
\* in particular the monitor never counts beyond maxConsecutiveRestartFailures.
TypeOK ==
  /\ closed \in BOOLEAN
  /\ connections \in [Servers -> Conns \union {None}]
  /\ pool \in [PoolKeys -> Entry \union {None}]
  /\ started \subseteq Servers /\ errored \subseteq Servers
  /\ conn \in [Conns -> {"unused", "late", "open", "closed"}]
  /\ abandoned \subseteq Conns
  /\ caller \in [Callers -> Call]
  /\ hm \in MonitorState
  /\ failures \in [Servers -> 0..MaxFailures]
  /\ shutdown \in {"no", "stopping", "done"}
  /\ broken \subseteq Servers

\* A connection the cache or the pool hands out has not been closed by the
\* monitor, the cleanup or a launch that lost to Close.
CachedIsOpen ==
  \A k \in Keys : Cached(k) # None => conn[Cached(k)] = "open"

\* Once Close has run nothing is cached, however late a launch completes.
NothingCachedAfterClose ==
  closed => \A k \in Keys : Cached(k) = None

\* No backend is left running by accident: an open connection is cached, on
\* its way to be, or one of those the startup timeout or the pool's Stop
\* left behind.
OpenIsOwned ==
  \A n \in Conns : conn[n] = "open" =>
    \/ \E k \in Keys : Cached(k) = n
    \/ \E c \in Callers : caller[c].pc = "publish" /\ caller[c].conn = n
    \/ n \in abandoned

\* A launch never replaces a connection that is cached: the replaced one
\* would be lost and left running.
PublishNeverReplaces ==
  [][ \A k \in Keys : Cached(k) # None => Cached(k)' \in {Cached(k), None} ]_vars

\* To those who ask it the launcher is one service that gives each server and
\* session the one connection launched for it: SharedBackends.  In particular
\* no session is ever given a process that serves another.
Given(c) == IF caller[c].pc = "use" THEN {[key |-> caller[c].key, conn |-> caller[c].conn]} ELSE {}
Service == INSTANCE SharedBackends WITH
  Users <- Callers, stopped <- closed,
  serving <- {[key |-> k, conn |-> Cached(k)] : k \in {k \in Keys : Cached(k) # None}},
  held <- [c \in Callers |-> Given(c)]
KeepsService == Service!Spec

\* Every call of GetOrLaunch returns, also for those who wait for another
\* call's launch and across shutdown; and Close, which waits for the monitor,
\* is not held up for ever by its restarts, which wait for launches, too.
NobodyWaitsForever ==
  /\ \A c \in Clients : caller[c].pc = "miss" ~> caller[c].pc \in {"idle", "use"}
  /\ shutdown = "stopping" ~> closed

\* The monitor stops restarting a server that never comes back.
MonitorGivesUp ==
  \A s \in Servers : ~Launchable(s) ~> [](hm.pc = "restart" => hm.server # s)

\* launcher.go, Close: "Stop session pool and close all session connections".
SessionsClosedByClose ==
  [][ closed' /\ ~closed =>
        \A k \in PoolKeys : pool[k] # None => conn'[pool[k].conn] = "closed" ]_vars

\* launcher.go, clearServerForRestart: "a subsequent GetOrLaunch call will
\* attempt a fresh launch", so the monitor's restart yields a connection that
\* has not been closed.
RestartIsFresh ==
  caller[Monitor].pc = "use" => conn[caller[Monitor].conn] = "open"

=============================================================================
