--------------------------- MODULE LauncherProofs ---------------------------
(***************************************************************************)
(* What the launcher guarantees, for any number of servers, sessions and   *)
(* callers.                                                                *)
(*                                                                         *)
(* CachedIsOpen is not inductive: closing a connection must not close one  *)
(* that is cached under another key, so no two keys share a connection,    *)
(* and a connection on its way to the cache is nobody else's.  That a      *)
(* launch finds the place it publishes to empty needs the singleflight     *)
(* group: at most one call launches for a key, and while it does the key   *)
(* is not cached.                                                          *)
(*                                                                         *)
(* The last part shows that the launcher implements SharedBackends: what   *)
(* is given has been published under the key asked for (ServedInv).        *)
(***************************************************************************)
EXTENDS Launcher, WellFoundedInduction, TLAPS

\* The two caches as one.
Cache == [k \in Keys |-> Cached(k)]

Launching == {"launch", "publish", "start"}

\* A call under way is about a key; one that has launched has a connection.
CallsInv ==
  \A c \in Callers :
    /\ caller[c].pc # "idle" => caller[c].key \in Keys
    /\ caller[c].pc \in {"publish", "start"} => caller[c].conn \in Conns

\* One call launches for a key, and only while the key is not cached.
FlightInv ==
  /\ \A c, d \in Callers :
       caller[c].pc \in Launching /\ caller[d].pc \in Launching
         /\ caller[c].key = caller[d].key => c = d
  /\ \A c \in Callers :
       caller[c].pc \in {"launch", "publish"} => Cache[caller[c].key] = None

\* A connection has one owner: a key of the cache, or the call that is about
\* to publish it.
OwnerInv ==
  /\ \A j, k \in Keys : Cache[j] # None /\ Cache[j] = Cache[k] => j = k
  /\ \A c \in Callers : caller[c].pc = "publish" =>
       /\ conn[caller[c].conn] = "open"
       /\ \A k \in Keys : Cache[k] # caller[c].conn
       /\ \A d \in Callers :
            caller[d].pc = "publish" /\ caller[d].conn = caller[c].conn => d = c
  /\ \A n \in Conns : conn[n] = "late" => n \in abandoned

\* CachedIsOpen, NothingCachedAfterClose and OpenIsOwned of the one cache.
CacheInv ==
  /\ \A k \in Keys : Cache[k] # None => conn[Cache[k]] = "open"
  /\ closed => \A k \in Keys : Cache[k] = None
  /\ \A n \in Conns : conn[n] = "open" =>
       \/ \E k \in Keys : Cache[k] = n
       \/ \E c \in Callers : caller[c].pc = "publish" /\ caller[c].conn = n
       \/ n \in abandoned

\* The monitor restarts a server it has not given up, and calls GetOrLaunch
\* only while it waits for it.
MonitorInv ==
  /\ hm.pc \in {"restart", "launch", "wait"}
       => hm.server \in Servers /\ failures[hm.server] < MaxFailures
  /\ caller[Monitor].pc # "idle" => hm.pc = "wait"

\* What a call needs of the others.
SafeInv == CallsInv /\ FlightInv /\ OwnerInv /\ CacheInv

LauncherInv == TypeOK /\ MonitorInv /\ SafeInv

(***************************************************************************)
(* The cache.                                                              *)
(***************************************************************************)

\* A connection is a number, an absent one is not.
LEMMA NoneIsNoConn == None \notin Conns /\ Conns \subseteq Nat
BY LauncherAssumption DEF Conns

\* The cache holds connections.
LEMMA CacheType ==
  ASSUME TypeOK
  PROVE  Cache \in [Keys -> Conns \union {None}]
BY NoEntryAssumption DEF TypeOK, Cache, Cached, Keys, StatelessKeys, PoolKeys, Servers, Entry

\* Lookups, error counts and idle timers leave the connections in place.
LEMMA CacheSame ==
  ASSUME TypeOK, connections' = connections, pool' \in [PoolKeys -> Entry \union {None}],
         \A k \in PoolKeys : \/ pool'[k] = pool[k]
                             \/ pool[k] # None /\ pool'[k] # None /\ pool'[k].conn = pool[k].conn
  PROVE  Cache' = Cache
BY DEF TypeOK, Cache, Cached, Keys, StatelessKeys, PoolKeys, Servers, Entry

\* A pool hit leaves the connections in place.
LEMMA TouchSame ==
  ASSUME TypeOK, NEW k \in Keys, Cached(k) # None, pool' = Touch(k), connections' = connections
  PROVE  pool' \in [PoolKeys -> Entry \union {None}] /\ Cache' = Cache
<1>1. CASE k \in PoolKeys
  <2>1. pool[k] \in Entry /\ pool' = [pool EXCEPT ![k].idle = FALSE]
    BY <1>1 DEF Touch, Cached, TypeOK
  <2>2. [pool[k] EXCEPT !.idle = FALSE] \in Entry /\ [pool[k] EXCEPT !.idle = FALSE].conn = pool[k].conn
    BY <2>1 DEF Entry
  <2>3. pool' \in [PoolKeys -> Entry \union {None}]
    BY <2>1, <2>2, <1>1 DEF TypeOK
  <2> QED
    BY <2>1, <2>2, <2>3, <1>1, NoEntryAssumption, CacheSame DEF TypeOK
<1>2. CASE k \notin PoolKeys
  BY <1>2, CacheSame DEF Touch, TypeOK
<1> QED
  BY <1>1, <1>2

\* An error that is counted leaves the connections in place.
LEMMA ErrorSame ==
  ASSUME TypeOK, NEW k \in Keys, pool' = RecordPoolError(k), connections' = connections
  PROVE  pool' \in [PoolKeys -> Entry \union {None}] /\ Cache' = Cache
<1>1. CASE k \in PoolKeys /\ pool[k] # None
  <2> DEFINE e == IF pool[k].errors < MaxErrors THEN pool[k].errors + 1 ELSE pool[k].errors
             x == [pool[k] EXCEPT !.errors = e]
  <2>1. pool[k] \in Entry /\ pool' = [pool EXCEPT ![k] = x]
    BY <1>1 DEF RecordPoolError, TypeOK
  <2>2. x \in Entry /\ x.conn = pool[k].conn
    BY <2>1, LauncherAssumption DEF Entry
  <2> HIDE DEF x
  <2>3. pool' \in [PoolKeys -> Entry \union {None}]
    BY <2>1, <2>2, <1>1 DEF TypeOK
  <2> QED
    BY <2>1, <2>2, <2>3, <1>1, NoEntryAssumption, CacheSame DEF TypeOK
<1>2. CASE ~(k \in PoolKeys /\ pool[k] # None)
  BY <1>2, CacheSame DEF RecordPoolError, TypeOK
<1> QED
  BY <1>1, <1>2

\* The next connection object is one that was never used.
LEMMA FreshIsUnused ==
  ASSUME TypeOK, \E n \in Conns : conn[n] = "unused"
  PROVE  Fresh \in Conns /\ conn[Fresh] = "unused"
<1> DEFINE S == {n \in Conns : conn[n] = "unused"}
<1>1. S \in SUBSET Nat /\ S # {}
  BY NoneIsNoConn
<1>2. PICK m \in S : \A k \in S : <<k, m>> \notin OpToRel(<, Nat)
  BY <1>1, WFMin, NatLessThanWellFounded, Zenon
<1>3. \A k \in S : ~(k < m)
  BY <1>1, <1>2, Zenon DEF OpToRel
<1>4. m \in Conns /\ conn[m] = "unused" /\ \A j \in 1..(m - 1) : conn[j] # "unused"
  BY <1>3, LauncherAssumption DEF Conns
<1> QED
  BY <1>4 DEF Fresh

(***************************************************************************)
(* What a step does to the others.                                         *)
(***************************************************************************)

\* A step that only moves calls between lookups and answers.
LEMMA QuietKeeps ==
  ASSUME SafeInv, Cache' = Cache, conn' = conn, closed' = closed, abandoned' = abandoned,
         \A c \in Callers : /\ caller'[c].pc # "idle" => caller'[c].key \in Keys
                            /\ caller'[c].pc \in Launching => caller'[c] = caller[c]
                            /\ caller[c].pc = "publish" => caller'[c] = caller[c]
  PROVE  SafeInv'
<1>1. CallsInv'
  BY DEF SafeInv, CallsInv, Launching
<1>2. FlightInv'
  BY DEF SafeInv, FlightInv, Launching
<1>3. OwnerInv'
  BY DEF SafeInv, OwnerInv, Launching
<1>4. CacheInv'
  BY DEF SafeInv, CacheInv
<1> QED
  BY <1>1, <1>2, <1>3, <1>4 DEF SafeInv

\* Connections leave the cache for the keys of K, closed for those of L,
\* abandoned for the others.
LEMMA EvictKeeps ==
  ASSUME TypeOK, SafeInv, caller' = caller, NEW K \in SUBSET Keys, NEW L \in SUBSET K,
         Cache' = [k \in Keys |-> IF k \in K THEN None ELSE Cache[k]],
         conn' = [n \in Conns |-> IF \E k \in L : Cache[k] = n THEN "closed" ELSE conn[n]],
         closed' => closed \/ K = Keys,
         abandoned \subseteq abandoned',
         \A k \in K \ L : Cache[k] # None => Cache[k] \in abandoned'
  PROVE  SafeInv'
<1>0. Cache \in [Keys -> Conns \union {None}] /\ None \notin Conns
  BY CacheType, NoneIsNoConn
<1>1. CallsInv'
  BY DEF SafeInv, CallsInv
<1>2. FlightInv'
  BY DEF SafeInv, CallsInv, FlightInv
<1>3. OwnerInv'
  BY <1>0 DEF SafeInv, CallsInv, OwnerInv, TypeOK
<1>4. CacheInv'
  <2>1. \A k \in Keys : Cache'[k] # None => conn'[Cache'[k]] = "open"
    BY <1>0 DEF SafeInv, OwnerInv, CacheInv
  <2>2. closed' => \A k \in Keys : Cache'[k] = None
    BY DEF SafeInv, CacheInv
  <2>3. \A n \in Conns : conn'[n] = "open" =>
          \/ \E k \in Keys : Cache'[k] = n
          \/ \E c \in Callers : caller[c].pc = "publish" /\ caller[c].conn = n
          \/ n \in abandoned'
    BY <1>0 DEF SafeInv, CacheInv
  <2> QED
    BY <2>1, <2>2, <2>3 DEF CacheInv
<1> QED
  BY <1>1, <1>2, <1>3, <1>4 DEF SafeInv

(***************************************************************************)
(* GetOrLaunch.                                                            *)
(***************************************************************************)

\* Calls that end keep their type, and none of them starts to launch.
LEMMA FlightEndsFacts ==
  ASSUME TypeOK, CallsInv, NEW c \in Callers, caller[c].pc # "idle",
         NEW r \in Conns \union {None}, FlightEnds(c, r)
  PROVE  /\ caller' \in [Callers -> Call]
         /\ \A x \in Callers :
              /\ caller'[x].pc # "idle" => caller'[x].key \in Keys /\ caller[x].pc # "idle"
              /\ caller'[x].pc \in Launching => caller'[x] = caller[x]
              /\ caller[x].pc = "publish" /\ x # c => caller'[x] = caller[x]
         /\ caller'[c].pc \notin Launching
<1>1. \A x \in Callers : caller[x] \in Call /\ caller'[x] \in {Answered(x, r), caller[x]}
  BY DEF TypeOK, FlightEnds
<1>2. \A x \in Callers : Answered(x, r) \in Call /\ Answered(x, r).pc \notin Launching
                       /\ (Answered(x, r).pc # "idle" => Answered(x, r).key = caller[x].key)
  BY <1>1 DEF Answered, Call, AtRest, Launching
<1>3. ASSUME NEW x \in Callers
      PROVE  \/ caller'[x] = caller[x]
             \/ caller'[x] = Answered(x, r) /\ (x = c \/ caller[x].pc = "wait")
  <2> DEFINE joined == x = c \/ (caller[x].pc = "wait" /\ caller[x].key = caller[c].key)
  <2>1. caller'[x] = IF joined THEN Answered(x, r) ELSE caller[x]
    BY DEF FlightEnds
  <2>2. joined => (x = c \/ caller[x].pc = "wait")
    OBVIOUS
  <2> HIDE DEF joined
  <2> QED
    BY <2>1, <2>2
<1>4. caller'[c] = Answered(c, r)
  BY DEF FlightEnds
<1>5. caller' \in [Callers -> Call]
  BY <1>1, <1>2 DEF FlightEnds
<1>6. ASSUME NEW x \in Callers
      PROVE  /\ caller'[x].pc # "idle" => caller'[x].key \in Keys /\ caller[x].pc # "idle"
             /\ caller'[x].pc \in Launching => caller'[x] = caller[x]
             /\ caller[x].pc = "publish" /\ x # c => caller'[x] = caller[x]
  BY <1>2, <1>3 DEF CallsInv
<1> QED
  BY <1>2, <1>4, <1>5, <1>6

\* The monitor's side of a step that leaves the monitor alone.
LEMMA MonitorCalm ==
  ASSUME MonitorInv, hm' = hm, failures' = failures,
         caller'[Monitor].pc # "idle" => caller[Monitor].pc # "idle"
  PROVE  MonitorInv'
BY DEF MonitorInv

\* Lookup, of a client or of the monitor.
LEMMA LookupKeeps ==
  ASSUME TypeOK, SafeInv, NEW c \in Callers, NEW k \in Keys, Lookup(c, k)
  PROVE  /\ SafeInv' /\ caller' \in [Callers -> Call]
         /\ pool' \in [PoolKeys -> Entry \union {None}] /\ Cache' = Cache
         /\ \A d \in Callers \ {c} : caller'[d] = caller[d]
<1>1. CASE Cached(k) # None
  <2>1. Cached(k) \in Conns
    BY <1>1, CacheType DEF Cache
  <2> DEFINE x == [pc |-> "use", key |-> k, conn |-> Cached(k)]
  <2>2. x \in Call /\ x.pc = "use" /\ x.key = k
    BY <2>1 DEF Call
  <2>3. caller' = [caller EXCEPT ![c] = x] /\ pool' = Touch(k) /\ caller[c].pc = "idle"
    BY <1>1 DEF Lookup
  <2> HIDE DEF x
  <2>4. pool' \in [PoolKeys -> Entry \union {None}] /\ Cache' = Cache
    BY <1>1, <2>3, TouchSame DEF Lookup
  <2>5. caller' \in [Callers -> Call] /\ \A d \in Callers \ {c} : caller'[d] = caller[d]
    BY <2>2, <2>3 DEF TypeOK
  <2>6. SafeInv'
    BY <2>2, <2>3, <2>4, QuietKeeps DEF Lookup, TypeOK, SafeInv, CallsInv, Launching
  <2> QED
    BY <2>4, <2>5, <2>6
<1>2. CASE Cached(k) = None
  <2> DEFINE x == [pc |-> "miss", key |-> k, conn |-> None]
  <2>2. x \in Call /\ x.pc = "miss" /\ x.key = k
    BY DEF Call
  <2>3. caller' = [caller EXCEPT ![c] = x] /\ pool' = pool /\ caller[c].pc = "idle"
    BY <1>2 DEF Lookup
  <2> HIDE DEF x
  <2>4. pool' \in [PoolKeys -> Entry \union {None}] /\ Cache' = Cache
    BY <2>3, CacheSame DEF Lookup, TypeOK
  <2>5. caller' \in [Callers -> Call] /\ \A d \in Callers \ {c} : caller'[d] = caller[d]
    BY <2>2, <2>3 DEF TypeOK
  <2>6. SafeInv'
    BY <2>2, <2>3, <2>4, QuietKeeps DEF Lookup, TypeOK, SafeInv, CallsInv, Launching
  <2> QED
    BY <2>4, <2>5, <2>6
<1> QED
  BY <1>1, <1>2

\* A client looks a connection up.
LEMMA ClientLookupKeeps ==
  ASSUME LauncherInv, NEW c \in Clients, NEW k \in Keys, Lookup(c, k), UNCHANGED hm
  PROVE  LauncherInv'
<1>1. c \in Callers /\ Monitor \in Callers \ {c}
  BY LauncherAssumption DEF Callers
<1>2. /\ SafeInv' /\ caller' \in [Callers -> Call]
      /\ pool' \in [PoolKeys -> Entry \union {None}]
      /\ \A d \in Callers \ {c} : caller'[d] = caller[d]
  BY <1>1, LookupKeeps DEF LauncherInv
<1>3. TypeOK'
  BY <1>2 DEF LauncherInv, TypeOK, Lookup
<1>4. MonitorInv'
  BY <1>1, <1>2, MonitorCalm DEF LauncherInv, Lookup
<1> QED
  BY <1>2, <1>3, <1>4 DEF LauncherInv

\* The monitor calls GetOrLaunch.
LEMMA MonitorLookupKeeps ==
  ASSUME LauncherInv, MonitorLookup
  PROVE  LauncherInv'
<1> DEFINE k == [server |-> hm.server, session |-> NoSession]
<1>1. k \in Keys /\ Monitor \in Callers
  BY DEF LauncherInv, MonitorInv, MonitorLookup, Keys, StatelessKeys, Callers
<1>2. /\ SafeInv' /\ caller' \in [Callers -> Call]
      /\ pool' \in [PoolKeys -> Entry \union {None}]
  BY <1>1, LookupKeeps DEF LauncherInv, MonitorLookup
<1>3. hm \in MonitorState /\ hm' = [hm EXCEPT !.pc = "wait"]
  BY DEF MonitorLookup, LauncherInv, TypeOK
<1>4. hm' \in MonitorState /\ hm'.pc = "wait" /\ hm'.server = hm.server
  BY <1>3 DEF MonitorState
<1>5. TypeOK'
  BY <1>2, <1>4 DEF LauncherInv, TypeOK, Lookup, MonitorLookup
<1>6. MonitorInv'
  BY <1>4 DEF LauncherInv, MonitorInv, MonitorLookup, Lookup
<1> QED
  BY <1>2, <1>5, <1>6 DEF LauncherInv

\* A call that moves from x to y without launching or publishing.
LEMMA MoveKeeps ==
  ASSUME LauncherInv, NEW c \in Callers, NEW x \in Call, caller' = [caller EXCEPT ![c] = x],
         x.pc \notin Launching, caller[c].pc # "publish",
         x.pc # "idle" => x.key \in Keys /\ caller[c].pc # "idle",
         UNCHANGED <<closed, connections, pool, started, errored, conn, abandoned, hm, failures,
                     shutdown, broken>>
  PROVE  LauncherInv'
<1>1. caller' \in [Callers -> Call] /\ caller'[c] = x /\ \A d \in Callers \ {c} : caller'[d] = caller[d]
  BY DEF LauncherInv, TypeOK
<1>2. TypeOK'
  BY <1>1 DEF LauncherInv, TypeOK
<1>3. Cache' = Cache
  BY CacheSame DEF LauncherInv, TypeOK
<1>4. SafeInv'
  BY <1>1, <1>3, QuietKeeps DEF LauncherInv, SafeInv, CallsInv
<1>5. MonitorInv'
  BY <1>1, MonitorCalm DEF LauncherInv, Callers
<1> QED
  BY <1>2, <1>4, <1>5 DEF LauncherInv

\* Another call is launching the same key; or a client is done.
LEMMA JoinKeeps ==
  ASSUME LauncherInv, NEW c \in Callers, Join(c)
  PROVE  LauncherInv'
<1> DEFINE x == [caller[c] EXCEPT !.pc = "wait"]
<1>1. caller[c] \in Call /\ caller[c].pc = "miss" /\ caller[c].key \in Keys
  BY DEF LauncherInv, TypeOK, Join, SafeInv, CallsInv
<1>2. x \in Call /\ x.pc = "wait" /\ x.key = caller[c].key
  BY <1>1 DEF Call
<1>3. caller' = [caller EXCEPT ![c] = x]
  BY DEF Join
<1> HIDE DEF x
<1> QED
  BY <1>1, <1>2, <1>3, MoveKeeps DEF Join, Launching

\* A client is done with a connection.
LEMMA DoneKeeps ==
  ASSUME LauncherInv, NEW c \in Clients, Done(c)
  PROVE  LauncherInv'
<1>1. AtRest \in Call /\ AtRest.pc = "idle" /\ c \in Callers
  BY DEF AtRest, Call, Callers
<1>2. caller[c].pc = "use" /\ caller' = [caller EXCEPT ![c] = AtRest]
  BY DEF Done
<1> QED
  BY <1>1, <1>2, MoveKeeps DEF Done, Launching

\* A flight that ends before it has launched anything, or after it has
\* published, with the pool changed at most in its counters.
LEMMA EndKeeps ==
  ASSUME LauncherInv, NEW c \in Callers, NEW r \in Conns \union {None}, FlightEnds(c, r),
         caller[c].pc \notin {"idle", "publish"},
         connections' = connections, pool' \in [PoolKeys -> Entry \union {None}], Cache' = Cache,
         started' \subseteq Servers, errored' \subseteq Servers,
         UNCHANGED <<closed, conn, abandoned, hm, failures, shutdown, broken>>
  PROVE  LauncherInv'
<1>1. /\ caller' \in [Callers -> Call]
      /\ \A x \in Callers :
           /\ caller'[x].pc # "idle" => caller'[x].key \in Keys /\ caller[x].pc # "idle"
           /\ caller'[x].pc \in Launching => caller'[x] = caller[x]
           /\ caller[x].pc = "publish" /\ x # c => caller'[x] = caller[x]
  BY FlightEndsFacts DEF LauncherInv, SafeInv
<1>2. TypeOK'
  BY <1>1 DEF LauncherInv, TypeOK
<1>3. SafeInv'
  BY <1>1, QuietKeeps DEF LauncherInv
<1>4. MonitorInv'
  BY <1>1, MonitorCalm DEF LauncherInv, Callers
<1> QED
  BY <1>2, <1>3, <1>4 DEF LauncherInv

\* The call that leads looks again and, still missing, launches.
LEMMA LeadKeeps ==
  ASSUME LauncherInv, NEW c \in Callers, Lead(c)
  PROVE  LauncherInv'
<1> DEFINE k == caller[c].key
<1>0. caller[c] \in Call /\ caller[c].pc = "miss" /\ k \in Keys /\ ~InFlight(k)
  BY DEF LauncherInv, TypeOK, Lead, SafeInv, CallsInv
<1>1. CASE closed
  <2>1. FlightEnds(c, None) /\ pool' = pool
    BY <1>1 DEF Lead
  <2>2. Cache' = Cache
    BY <2>1, CacheSame DEF LauncherInv, TypeOK, Lead
  <2> QED
    BY <1>0, <2>1, <2>2, EndKeeps DEF LauncherInv, TypeOK, Lead
<1>2. CASE ~closed /\ Cached(k) # None
  <2>1. FlightEnds(c, Cached(k)) /\ pool' = Touch(k)
    BY <1>2 DEF Lead
  <2>2. Cache' = Cache /\ pool' \in [PoolKeys -> Entry \union {None}]
    BY <1>0, <1>2, <2>1, TouchSame DEF LauncherInv, Lead
  <2>3. Cached(k) \in Conns
    BY <1>0, <1>2, CacheType DEF LauncherInv, Cache
  <2> QED
    BY <1>0, <2>1, <2>2, <2>3, EndKeeps DEF LauncherInv, TypeOK, Lead
<1>3. CASE ~closed /\ Cached(k) = None
  <2> DEFINE x == [caller[c] EXCEPT !.pc = "launch"]
  <2>1. x \in Call /\ x.pc = "launch" /\ x.key = k
    BY <1>0 DEF Call
  <2>2. caller' = [caller EXCEPT ![c] = x] /\ pool' = pool
    BY <1>3 DEF Lead
  <2> HIDE DEF x
  <2>3. /\ caller' \in [Callers -> Call] /\ caller'[c] = x
        /\ \A d \in Callers \ {c} : caller'[d] = caller[d]
    BY <2>1, <2>2 DEF LauncherInv, TypeOK
  <2>4. TypeOK'
    BY <2>2, <2>3 DEF LauncherInv, TypeOK, Lead
  <2>5. Cache' = Cache /\ Cache[k] = None
    BY <1>0, <1>3, <2>2, CacheSame DEF LauncherInv, TypeOK, Lead, Cache
  <2>6. CallsInv'
    BY <1>0, <2>1, <2>3 DEF LauncherInv, SafeInv, CallsInv
  <2>7. FlightInv'
    BY <1>0, <2>1, <2>3, <2>5 DEF LauncherInv, SafeInv, FlightInv, InFlight, Launching
  <2>8. OwnerInv' /\ CacheInv'
    BY <1>0, <2>1, <2>3, <2>5 DEF LauncherInv, SafeInv, OwnerInv, CacheInv, Lead
  <2>9. MonitorInv'
    BY <1>0, <2>1, <2>3, MonitorCalm DEF LauncherInv, Callers, Lead
  <2> QED
    BY <2>4, <2>6, <2>7, <2>8, <2>9 DEF LauncherInv, SafeInv
<1> QED
  BY <1>1, <1>2, <1>3

\* The launched connection is new: nobody else has it.
LEMMA LaunchSucceedsKeeps ==
  ASSUME LauncherInv, NEW c \in Callers, LaunchSucceeds(c)
  PROVE  LauncherInv'
<1> DEFINE n == Fresh
           x == [caller[c] EXCEPT !.pc = "publish", !.conn = n]
<1>0. /\ caller[c] \in Call /\ caller[c].pc = "launch" /\ caller[c].key \in Keys
      /\ n \in Conns /\ conn[n] = "unused"
  BY FreshIsUnused DEF LauncherInv, TypeOK, LaunchSucceeds, SafeInv, CallsInv
<1>1. x \in Call /\ x.pc = "publish" /\ x.key = caller[c].key /\ x.conn = n
  BY <1>0 DEF Call
<1>2. caller' = [caller EXCEPT ![c] = x] /\ conn' = [conn EXCEPT ![n] = "open"]
  BY DEF LaunchSucceeds
<1> HIDE DEF x, n
<1>3. /\ caller' \in [Callers -> Call] /\ caller'[c] = x
      /\ \A d \in Callers \ {c} : caller'[d] = caller[d]
      /\ conn' \in [Conns -> {"unused", "late", "open", "closed"}]
      /\ conn'[n] = "open" /\ \A m \in Conns \ {n} : conn'[m] = conn[m]
  BY <1>0, <1>1, <1>2 DEF LauncherInv, TypeOK
<1>4. TypeOK'
  BY <1>3 DEF LauncherInv, TypeOK, LaunchSucceeds
<1>5. Cache' = Cache /\ Cache \in [Keys -> Conns \union {None}] /\ None \notin Conns
  BY CacheSame, CacheType, NoneIsNoConn DEF LauncherInv, TypeOK, LaunchSucceeds
<1>6. CallsInv'
  BY <1>0, <1>1, <1>3 DEF LauncherInv, SafeInv, CallsInv
<1>7. FlightInv'
  BY <1>0, <1>1, <1>3, <1>5 DEF LauncherInv, SafeInv, FlightInv, Launching
<1>8. \A d \in Callers : caller[d].pc = "publish" => caller[d].conn \in Conns \ {n}
  BY <1>0 DEF LauncherInv, SafeInv, CallsInv, OwnerInv
<1>9. \A k \in Keys : Cache[k] # n
  BY <1>0, <1>5 DEF LauncherInv, SafeInv, CacheInv
<1>10. OwnerInv'
  <2>1. \A d \in Callers : caller'[d].pc = "publish" =>
          /\ conn'[caller'[d].conn] = "open"
          /\ \A k \in Keys : Cache[k] # caller'[d].conn
          /\ \A e \in Callers :
               caller'[e].pc = "publish" /\ caller'[e].conn = caller'[d].conn => e = d
    BY <1>0, <1>1, <1>3, <1>8, <1>9 DEF LauncherInv, SafeInv, OwnerInv
  <2> QED
    BY <1>3, <1>5, <2>1 DEF LauncherInv, SafeInv, OwnerInv, LaunchSucceeds
<1>11. CacheInv'
  <2>1. \A k \in Keys : Cache[k] # None => conn'[Cache[k]] = "open"
    BY <1>3, <1>5, <1>9 DEF LauncherInv, SafeInv, CacheInv
  <2>2. \A m \in Conns : conn'[m] = "open" =>
          \/ \E k \in Keys : Cache[k] = m
          \/ \E d \in Callers : caller'[d].pc = "publish" /\ caller'[d].conn = m
          \/ m \in abandoned
    <3> SUFFICES ASSUME NEW m \in Conns, conn'[m] = "open"
                 PROVE  \/ \E k \in Keys : Cache[k] = m
                        \/ \E d \in Callers : caller'[d].pc = "publish" /\ caller'[d].conn = m
                        \/ m \in abandoned
      OBVIOUS
    <3>1. CASE m = n
      BY <3>1, <1>1, <1>3
    <3>2. CASE m # n
      BY <3>2, <1>0, <1>3 DEF LauncherInv, SafeInv, CacheInv
    <3> QED
      BY <3>1, <3>2
  <2> QED
    BY <1>5, <2>1, <2>2 DEF LauncherInv, SafeInv, CacheInv, LaunchSucceeds
<1>12. MonitorInv'
  BY <1>0, <1>1, <1>3, MonitorCalm DEF LauncherInv, Callers, LaunchSucceeds
<1> QED
  BY <1>4, <1>6, <1>7, <1>10, <1>11, <1>12 DEF LauncherInv, SafeInv

\* A launch that fails is counted and answered.
LEMMA LaunchFailsKeeps ==
  ASSUME LauncherInv, NEW c \in Callers, LaunchFails(c)
  PROVE  LauncherInv'
<1>1. caller[c].pc = "launch" /\ caller[c].key \in Keys
  BY DEF LauncherInv, LaunchFails, SafeInv, CallsInv
<1>2. caller[c].key.server \in Servers
  BY <1>1 DEF Keys, StatelessKeys, PoolKeys, Servers
<1>3. FlightEnds(c, None) /\ pool' = RecordPoolError(caller[c].key) /\ errored' \subseteq Servers
  BY <1>2 DEF LaunchFails, LaunchError, LauncherInv, TypeOK
<1>4. pool' \in [PoolKeys -> Entry \union {None}] /\ Cache' = Cache
  BY <1>1, <1>3, ErrorSame DEF LauncherInv, LaunchFails
<1> QED
  BY <1>1, <1>3, <1>4, EndKeeps DEF LaunchFails, LauncherInv, TypeOK

\* A launch that timed out leaves a late connection behind.
LEMMA LaunchTimesOutKeeps ==
  ASSUME LauncherInv, NEW c \in Callers, LaunchTimesOut(c)
  PROVE  LauncherInv'
<1> DEFINE n == Fresh
<1>1. /\ caller[c].pc = "launch" /\ caller[c].key \in Keys
      /\ n \in Conns /\ conn[n] = "unused"
  BY FreshIsUnused DEF LauncherInv, LaunchTimesOut, SafeInv, CallsInv
<1>2. caller[c].key.server \in Servers
  BY <1>1 DEF Keys, StatelessKeys, PoolKeys, Servers
<1>3. /\ FlightEnds(c, None) /\ pool' = RecordPoolError(caller[c].key) /\ errored' \subseteq Servers
      /\ conn' = [conn EXCEPT ![n] = "late"] /\ abandoned' = abandoned \union {n}
  BY <1>2 DEF LaunchTimesOut, LaunchError, LauncherInv, TypeOK
<1> HIDE DEF n
<1>4. pool' \in [PoolKeys -> Entry \union {None}] /\ Cache' = Cache
  BY <1>1, <1>3, ErrorSame DEF LauncherInv, LaunchTimesOut
<1>5. /\ caller' \in [Callers -> Call]
      /\ \A x \in Callers :
           /\ caller'[x].pc # "idle" => caller'[x].key \in Keys /\ caller[x].pc # "idle"
           /\ caller'[x].pc \in Launching => caller'[x] = caller[x]
           /\ caller[x].pc = "publish" => caller'[x] = caller[x]
  BY <1>1, <1>3, FlightEndsFacts DEF LauncherInv, SafeInv
<1>6. /\ conn' \in [Conns -> {"unused", "late", "open", "closed"}]
      /\ conn'[n] = "late" /\ \A m \in Conns \ {n} : conn'[m] = conn[m]
  BY <1>1, <1>3 DEF LauncherInv, TypeOK
<1>7. TypeOK'
  BY <1>1, <1>3, <1>4, <1>5, <1>6 DEF LauncherInv, TypeOK, LaunchTimesOut
<1>8. Cache \in [Keys -> Conns \union {None}] /\ None \notin Conns
  BY CacheType, NoneIsNoConn DEF LauncherInv
<1>9. CallsInv' /\ FlightInv'
  BY <1>4, <1>5 DEF LauncherInv, SafeInv, CallsInv, FlightInv, Launching
<1>10. OwnerInv'
  BY <1>1, <1>3, <1>4, <1>5, <1>6 DEF LauncherInv, SafeInv, CallsInv, OwnerInv, Launching
<1>11. CacheInv'
  BY <1>1, <1>3, <1>4, <1>5, <1>6, <1>8 DEF LauncherInv, SafeInv, CacheInv, LaunchTimesOut
<1>12. MonitorInv'
  BY <1>5, MonitorCalm DEF LauncherInv, Callers, LaunchTimesOut
<1> QED
  BY <1>7, <1>9, <1>10, <1>11, <1>12 DEF LauncherInv, SafeInv

\* The abandoned backend completes its handshake after all.
LEMMA LateArrivalKeeps ==
  ASSUME LauncherInv, NEW n \in Conns, LateArrival(n)
  PROVE  LauncherInv'
<1>1. Cache' = Cache /\ Cache \in [Keys -> Conns \union {None}]
  BY CacheSame, CacheType DEF LauncherInv, TypeOK, LateArrival
<1>2. /\ conn' \in [Conns -> {"unused", "late", "open", "closed"}]
      /\ conn[n] = "late" /\ conn'[n] = "open" /\ \A m \in Conns \ {n} : conn'[m] = conn[m]
  BY DEF LauncherInv, TypeOK, LateArrival
<1>3. TypeOK' /\ MonitorInv'
  BY <1>2 DEF LauncherInv, TypeOK, LateArrival, MonitorInv
<1>4. SafeInv'
  BY <1>1, <1>2 DEF LauncherInv, SafeInv, CallsInv, FlightInv, OwnerInv, CacheInv, LateArrival
<1> QED
  BY <1>3, <1>4 DEF LauncherInv

\* What publishing does to the cache, in an open launcher.
LEMMA PublishCache ==
  ASSUME LauncherInv, NEW c \in Callers, Publish(c), ~closed
  PROVE  /\ Cache' = [Cache EXCEPT ![caller[c].key] = caller[c].conn]
         /\ connections' \in [Servers -> Conns \union {None}]
         /\ pool' \in [PoolKeys -> Entry \union {None}]
<1> DEFINE k == caller[c].key
           n == caller[c].conn
<1>0. k \in Keys /\ n \in Conns
  BY DEF LauncherInv, SafeInv, CallsInv, Publish
<1>1. CASE k \in PoolKeys
  <2> DEFINE x == [conn |-> n, idle |-> FALSE, errors |-> IF pool[k] = None THEN 0 ELSE pool[k].errors]
  <2>1. pool' = [pool EXCEPT ![k] = x] /\ connections' = connections
    BY <1>1 DEF Publish
  <2>a. pool[k] \in Entry \union {None}
    BY <1>1 DEF LauncherInv, TypeOK
  <2>b. (IF pool[k] = None THEN 0 ELSE pool[k].errors) \in 0..MaxErrors
    BY <2>a, LauncherAssumption DEF Entry
  <2>2. x \in Entry /\ x # None /\ x.conn = n
    <3>1. x \in Entry /\ x.conn = n
      BY <1>0, <2>b DEF Entry
    <3> QED
      BY <3>1, NoEntryAssumption
  <2> HIDE DEF x
  <2>3. pool' \in [PoolKeys -> Entry \union {None}]
    BY <2>1, <2>2 DEF LauncherInv, TypeOK
  <2>4. \A j \in Keys : Cache'[j] = IF j = k THEN n ELSE Cache[j]
    BY <1>0, <1>1, <2>1, <2>2, <2>3 DEF Cache, Cached, LauncherInv, TypeOK
  <2> QED
    BY <1>0, <2>1, <2>3, <2>4 DEF Cache, LauncherInv, TypeOK
<1>2. CASE k \notin PoolKeys
  <2>1. connections' = [connections EXCEPT ![k.server] = n] /\ pool' = pool
    BY <1>2 DEF Publish
  <2>2. k \in StatelessKeys /\ k.server \in Servers
    BY <1>0, <1>2 DEF Keys, StatelessKeys
  <2>3. connections' \in [Servers -> Conns \union {None}]
    BY <1>0, <2>1, <2>2 DEF LauncherInv, TypeOK
  <2>4. \A j \in StatelessKeys : j.server = k.server => j = k
    BY <2>2 DEF StatelessKeys
  <2>5. \A j \in Keys : Cache'[j] = IF j = k THEN n ELSE Cache[j]
    <3> SUFFICES ASSUME NEW j \in Keys PROVE Cache'[j] = IF j = k THEN n ELSE Cache[j]
      OBVIOUS
    <3>1. CASE j \in PoolKeys
      BY <1>2, <2>1, <3>1 DEF Cache, Cached
    <3>2. CASE j \notin PoolKeys
      <4>1. j \in StatelessKeys /\ j.server \in Servers
        BY <3>2 DEF Keys, StatelessKeys
      <4>2. Cache[j] = connections[j.server] /\ Cache'[j] = connections'[j.server]
        BY <3>2 DEF Cache, Cached
      <4> QED
        BY <2>1, <2>2, <2>4, <4>1, <4>2 DEF LauncherInv, TypeOK
    <3> QED
      BY <3>1, <3>2
  <2> QED
    BY <1>0, <2>1, <2>3, <2>5 DEF Cache, LauncherInv, TypeOK
<1> QED
  BY <1>1, <1>2

\* The launch is published, or closed because the launcher is.
LEMMA PublishKeeps ==
  ASSUME LauncherInv, NEW c \in Callers, Publish(c)
  PROVE  LauncherInv'
<1> DEFINE k == caller[c].key
           n == caller[c].conn
<1>0. caller[c] \in Call /\ caller[c].pc = "publish" /\ k \in Keys /\ n \in Conns
  BY DEF LauncherInv, TypeOK, SafeInv, CallsInv, Publish
<1>00. Cache \in [Keys -> Conns \union {None}] /\ None \notin Conns
  BY CacheType, NoneIsNoConn DEF LauncherInv
<1>1. CASE closed
  <2>1. conn' = [conn EXCEPT ![n] = "closed"] /\ FlightEnds(c, None)
        /\ UNCHANGED <<connections, pool>>
    BY <1>1 DEF Publish
  <2>2. Cache' = Cache
    BY <2>1, CacheSame DEF LauncherInv, TypeOK
  <2>3. /\ caller' \in [Callers -> Call]
        /\ \A x \in Callers :
             /\ caller'[x].pc # "idle" => caller'[x].key \in Keys /\ caller[x].pc # "idle"
             /\ caller'[x].pc \in Launching => caller'[x] = caller[x]
             /\ caller[x].pc = "publish" /\ x # c => caller'[x] = caller[x]
        /\ caller'[c].pc \notin Launching
    BY <1>0, <2>1, FlightEndsFacts DEF LauncherInv, SafeInv
  <2>4. /\ conn' \in [Conns -> {"unused", "late", "open", "closed"}]
        /\ conn'[n] = "closed" /\ \A m \in Conns \ {n} : conn'[m] = conn[m]
    BY <1>0, <2>1 DEF LauncherInv, TypeOK
  <2>5. TypeOK'
    BY <2>1, <2>3, <2>4 DEF LauncherInv, TypeOK, Publish
  <2>6. CallsInv' /\ FlightInv'
    BY <2>2, <2>3 DEF LauncherInv, SafeInv, CallsInv, FlightInv, Launching
  <2>7. OwnerInv'
    BY <1>0, <2>2, <2>3, <2>4 DEF LauncherInv, SafeInv, CallsInv, OwnerInv, Launching, Publish
  <2>8. CacheInv'
    BY <1>0, <1>1, <2>2, <2>3, <2>4 DEF LauncherInv, SafeInv, CacheInv, Publish
  <2>9. MonitorInv'
    BY <2>3, MonitorCalm DEF LauncherInv, Callers, Publish
  <2> QED
    BY <2>5, <2>6, <2>7, <2>8, <2>9 DEF LauncherInv, SafeInv
<1>2. CASE ~closed
  <2> DEFINE x == [caller[c] EXCEPT !.pc = "start"]
  <2>1. x \in Call /\ x.pc = "start" /\ x.key = k /\ x.conn = n
    BY <1>0 DEF Call
  <2>2. caller' = [caller EXCEPT ![c] = x] /\ conn' = conn
    BY <1>2 DEF Publish
  <2> HIDE DEF x
  <2>3. /\ caller' \in [Callers -> Call] /\ caller'[c] = x
        /\ \A d \in Callers \ {c} : caller'[d] = caller[d]
    BY <2>1, <2>2 DEF LauncherInv, TypeOK
  <2>4. /\ Cache' = [Cache EXCEPT ![k] = n]
        /\ connections' \in [Servers -> Conns \union {None}]
        /\ pool' \in [PoolKeys -> Entry \union {None}]
    BY <1>2, PublishCache
  <2>5. TypeOK'
    BY <2>2, <2>3, <2>4 DEF LauncherInv, TypeOK, Publish
  <2>6. CallsInv'
    BY <1>0, <2>1, <2>3 DEF LauncherInv, SafeInv, CallsInv
  <2>7. Cache[k] = None /\ \A j \in Keys : Cache[j] # n
    BY <1>0 DEF LauncherInv, SafeInv, FlightInv, OwnerInv
  <2>8. FlightInv'
    BY <1>0, <1>00, <2>1, <2>3, <2>4 DEF LauncherInv, SafeInv, CallsInv, FlightInv, Launching
  <2>9. Cache'[k] = n /\ \A j \in Keys \ {k} : Cache'[j] = Cache[j]
    BY <1>0, <1>00, <2>4
  <2>10. OwnerInv'
    <3>1. \A i, j \in Keys : Cache'[i] # None /\ Cache'[i] = Cache'[j] => i = j
      BY <1>0, <2>7, <2>9 DEF LauncherInv, SafeInv, OwnerInv
    <3>2. \A d \in Callers : caller'[d].pc = "publish" =>
            /\ d # c /\ caller'[d] = caller[d] /\ caller[d].conn # n
      BY <1>0, <2>1, <2>3 DEF LauncherInv, SafeInv, OwnerInv
    <3>3. \A d \in Callers : caller'[d].pc = "publish" =>
            /\ conn[caller'[d].conn] = "open"
            /\ \A j \in Keys : Cache'[j] # caller'[d].conn
            /\ \A e \in Callers :
                 caller'[e].pc = "publish" /\ caller'[e].conn = caller'[d].conn => e = d
      BY <2>9, <3>2 DEF LauncherInv, SafeInv, OwnerInv
    <3> QED
      BY <2>2, <3>1, <3>3 DEF LauncherInv, SafeInv, OwnerInv, Publish
  <2>11. CacheInv'
    <3>1. \A j \in Keys : Cache'[j] # None => conn[Cache'[j]] = "open"
      BY <1>0, <2>9 DEF LauncherInv, SafeInv, OwnerInv, CacheInv
    <3>2. ASSUME NEW m \in Conns, conn[m] = "open"
          PROVE  \/ \E j \in Keys : Cache'[j] = m
                 \/ \E d \in Callers : caller'[d].pc = "publish" /\ caller'[d].conn = m
                 \/ m \in abandoned
      <4>1. CASE m = n
        BY <1>0, <2>9, <4>1
      <4>2. CASE m # n
        <5>1. CASE \E j \in Keys : Cache[j] = m
          BY <1>00, <2>7, <2>9, <5>1
        <5>2. CASE \E d \in Callers : caller[d].pc = "publish" /\ caller[d].conn = m
          BY <2>3, <4>2, <5>2
        <5> QED
          BY <3>2, <5>1, <5>2 DEF LauncherInv, SafeInv, CacheInv
      <4> QED
        BY <4>1, <4>2
    <3> QED
      BY <1>2, <2>2, <3>1, <3>2 DEF CacheInv, Publish
  <2>12. MonitorInv'
    BY <1>0, <2>1, <2>3, MonitorCalm DEF LauncherInv, Callers, Publish
  <2> QED
    BY <2>5, <2>6, <2>8, <2>10, <2>11, <2>12 DEF LauncherInv, SafeInv
<1> QED
  BY <1>1, <1>2

\* recordStart, then the call returns.
LEMMA RecordStartKeeps ==
  ASSUME LauncherInv, NEW c \in Callers, RecordStart(c)
  PROVE  LauncherInv'
<1>1. caller[c].pc = "start" /\ caller[c].key \in Keys /\ caller[c].conn \in Conns
  BY DEF LauncherInv, RecordStart, SafeInv, CallsInv
<1>2. caller[c].key.server \in Servers
  BY <1>1 DEF Keys, StatelessKeys, PoolKeys, Servers
<1>3. FlightEnds(c, caller[c].conn) /\ started' \subseteq Servers /\ errored' \subseteq Servers
  BY <1>2 DEF RecordStart, LauncherInv, TypeOK
<1>4. pool' \in [PoolKeys -> Entry \union {None}] /\ Cache' = Cache
  BY CacheSame DEF LauncherInv, TypeOK, RecordStart
<1> QED
  BY <1>1, <1>3, <1>4, EndKeeps DEF RecordStart, LauncherInv, TypeOK

(***************************************************************************)
(* The pool's cleanup, the health monitor, shutdown.                       *)
(***************************************************************************)

\* A pooled connection goes idle.
LEMMA GoIdleKeeps ==
  ASSUME LauncherInv, NEW k \in PoolKeys, GoIdle(k)
  PROVE  LauncherInv'
<1> DEFINE x == [pool[k] EXCEPT !.idle = TRUE]
<1>1. pool[k] \in Entry /\ pool' = [pool EXCEPT ![k] = x]
  BY DEF GoIdle, LauncherInv, TypeOK
<1>2. x \in Entry /\ x.conn = pool[k].conn
  BY <1>1 DEF Entry
<1> HIDE DEF x
<1>3. pool' \in [PoolKeys -> Entry \union {None}]
  BY <1>1, <1>2 DEF LauncherInv, TypeOK
<1>4. Cache' = Cache
  BY <1>1, <1>2, <1>3, NoEntryAssumption, CacheSame DEF LauncherInv, TypeOK, GoIdle
<1>5. TypeOK' /\ MonitorInv'
  BY <1>3 DEF LauncherInv, TypeOK, MonitorInv, GoIdle
<1>6. SafeInv'
  BY <1>4, QuietKeeps DEF LauncherInv, SafeInv, CallsInv, GoIdle
<1> QED
  BY <1>5, <1>6 DEF LauncherInv

\* cleanupIdleConnections closes what it evicts.
LEMMA CleanupKeeps ==
  ASSUME LauncherInv, Cleanup
  PROVE  LauncherInv'
<1>0. Evictable \in SUBSET Keys /\ Evictable \subseteq PoolKeys
  BY DEF Evictable, Keys
<1>1. pool' \in [PoolKeys -> Entry \union {None}]
      /\ conn' \in [Conns -> {"unused", "late", "open", "closed"}]
  BY DEF Cleanup, LauncherInv, TypeOK
<1>2. \A k \in Keys : Cache'[k] = IF k \in Evictable THEN None ELSE Cache[k]
  BY <1>0 DEF Cache, Cached, Cleanup
<1>3. Cache' = [k \in Keys |-> IF k \in Evictable THEN None ELSE Cache[k]]
  BY <1>2 DEF Cache
<1>4. \A k \in Evictable : Cache[k] = pool[k].conn
  BY <1>0 DEF Cache, Cached, Evictable
<1>5. conn' = [n \in Conns |-> IF \E k \in Evictable : Cache[k] = n THEN "closed" ELSE conn[n]]
  BY <1>4 DEF Cleanup
<1>6. TypeOK' /\ MonitorInv'
  BY <1>1 DEF LauncherInv, TypeOK, MonitorInv, Cleanup
<1>7. SafeInv'
  BY <1>0, <1>3, <1>5, EvictKeeps DEF LauncherInv, Cleanup
<1> QED
  BY <1>6, <1>7 DEF LauncherInv

\* clearServerForRestart closes the connection it forgets.
LEMMA ClearKeeps ==
  ASSUME LauncherInv, ClearServerForRestart
  PROVE  LauncherInv'
<1> DEFINE k == [server |-> hm.server, session |-> NoSession]
           E == {k}
<1>0. hm.server \in Servers /\ k \in StatelessKeys /\ E \in SUBSET Keys /\ k \notin PoolKeys
  BY LauncherAssumption DEF LauncherInv, MonitorInv, ClearServerForRestart, Keys, StatelessKeys, PoolKeys
<1>1. Cache[k] = connections[hm.server]
  BY <1>0 DEF Cache, Cached
<1>2. ASSUME NEW j \in Keys
      PROVE  Cache'[j] = IF j \in E THEN None ELSE Cache[j]
  <2>1. CASE j \in PoolKeys
    BY <1>0, <2>1 DEF Cache, Cached, ClearServerForRestart
  <2>2. CASE j \notin PoolKeys
    <3>1. j \in StatelessKeys /\ j.server \in Servers /\ (j.server = hm.server => j = k)
      BY <2>2 DEF Keys, StatelessKeys
    <3>2. Cache[j] = connections[j.server] /\ Cache'[j] = connections'[j.server]
      BY <2>2 DEF Cache, Cached
    <3> QED
      BY <1>0, <3>1, <3>2 DEF ClearServerForRestart, LauncherInv, TypeOK
  <2> QED
    BY <2>1, <2>2
<1>3. Cache' = [j \in Keys |-> IF j \in E THEN None ELSE Cache[j]]
  BY <1>2 DEF Cache
<1>4. conn' = [n \in Conns |-> IF \E j \in E : Cache[j] = n THEN "closed" ELSE conn[n]]
  BY <1>1 DEF ClearServerForRestart
<1>5. hm \in MonitorState /\ hm' = [hm EXCEPT !.pc = "launch"]
  BY DEF ClearServerForRestart, LauncherInv, TypeOK
<1>6. hm' \in MonitorState /\ hm'.pc = "launch" /\ hm'.server = hm.server
  BY <1>5 DEF MonitorState
<1>7. TypeOK'
  BY <1>0, <1>6 DEF LauncherInv, TypeOK, ClearServerForRestart
<1>8. MonitorInv'
  BY <1>6 DEF LauncherInv, MonitorInv, ClearServerForRestart
<1>9. SafeInv'
  <2>1. E \in SUBSET E /\ TypeOK /\ SafeInv /\ caller' = caller /\ closed' = closed /\ abandoned' = abandoned
    BY DEF LauncherInv, ClearServerForRestart
  <2> HIDE DEF E
  <2> QED
    BY <1>0, <1>3, <1>4, <2>1, EvictKeeps
<1> QED
  BY <1>7, <1>8, <1>9 DEF LauncherInv

\* Close closes the cached connections and leaves the pooled ones behind.
LEMMA CloseKeeps ==
  ASSUME LauncherInv, Close
  PROVE  LauncherInv'
<1>0. StatelessKeys \in SUBSET Keys /\ Keys \in SUBSET Keys
  BY DEF Keys
<1>1. Cache' = [k \in Keys |-> IF k \in Keys THEN None ELSE Cache[k]]
  <2>1. \A k \in Keys : k \notin PoolKeys => k.server \in Servers
    BY DEF Keys, StatelessKeys
  <2> QED
    BY <2>1 DEF Cache, Cached, Close
<1>2. \A n \in Conns : (\E s \in Servers : connections[s] = n)
                          <=> \E k \in StatelessKeys : Cache[k] = n
  <2>1. \A k \in StatelessKeys : k \notin PoolKeys /\ k \in Keys /\ k.server \in Servers
    BY LauncherAssumption DEF StatelessKeys, PoolKeys, Keys
  <2>2. \A k \in StatelessKeys : Cache[k] = connections[k.server]
    BY <2>1 DEF Cache, Cached
  <2>3. \A s \in Servers : \E k \in StatelessKeys : k.server = s
    <3> SUFFICES ASSUME NEW s \in Servers PROVE \E k \in StatelessKeys : k.server = s
      OBVIOUS
    <3>1. [server |-> s, session |-> NoSession] \in StatelessKeys
      BY DEF StatelessKeys
    <3> QED
      BY <3>1
  <2> QED
    BY <2>1, <2>2, <2>3
<1>3. conn' = [n \in Conns |-> IF \E k \in StatelessKeys : Cache[k] = n THEN "closed" ELSE conn[n]]
  BY <1>2 DEF Close
<1>4. \A k \in Keys \ StatelessKeys : Cache[k] # None => Cache[k] \in abandoned'
  <2>1. \A k \in Keys \ StatelessKeys : k \in PoolKeys
    BY DEF Keys
  <2> QED
    BY <2>1 DEF Cache, Cached, Close
<1>5. abandoned \subseteq abandoned'
  BY DEF Close
<1>6. TypeOK'
  BY DEF LauncherInv, TypeOK, Close, Entry
<1>7. MonitorInv'
  BY DEF LauncherInv, MonitorInv, Close
<1>8. SafeInv'
  BY <1>0, <1>1, <1>3, <1>4, <1>5, EvictKeeps DEF LauncherInv, Close
<1> QED
  BY <1>6, <1>7, <1>8 DEF LauncherInv

\* The steps that leave caches, connections and calls alone.
LEMMA OtherKeeps ==
  ASSUME LauncherInv,
         UNCHANGED <<closed, connections, pool, started, errored, conn, abandoned, caller>>,
         hm' \in MonitorState, failures' \in [Servers -> 0..MaxFailures],
         shutdown' \in {"no", "stopping", "done"}, broken' \subseteq Servers, MonitorInv'
  PROVE  LauncherInv'
<1>1. TypeOK'
  BY DEF LauncherInv, TypeOK
<1>2. Cache' = Cache
  BY CacheSame DEF LauncherInv, TypeOK
<1>3. SafeInv'
  BY <1>2, QuietKeeps DEF LauncherInv, SafeInv, CallsInv
<1> QED
  BY <1>1, <1>3 DEF LauncherInv

\* The monitor's round.
LEMMA RoundKeeps ==
  ASSUME LauncherInv, Wake \/ MonitorStops \/ \E s \in Servers : Check(s)
  PROVE  LauncherInv'
<1>0. hm \in MonitorState /\ failures \in [Servers -> 0..MaxFailures]
  BY DEF LauncherInv, TypeOK
<1>1. \A T \in SUBSET Servers :
        NextServer(T) \in MonitorState /\ NextServer(T).pc \in {"sleep", "round"}
  BY DEF NextServer, MonitorState
<1>2. CASE Wake
  BY <1>0, <1>1, <1>2, OtherKeeps DEF Wake, LauncherInv, TypeOK, MonitorInv
<1>3. CASE MonitorStops
  <2>1. hm' \in MonitorState /\ hm'.pc = "stopped"
    BY <1>0, <1>3 DEF MonitorStops, MonitorState
  <2> QED
    BY <1>0, <1>3, <2>1, OtherKeeps DEF MonitorStops, LauncherInv, TypeOK, MonitorInv
<1>4. ASSUME NEW s \in Servers, Check(s) PROVE LauncherInv'
  <2>1. hm.todo \ {s} \in SUBSET Servers
    BY <1>0 DEF MonitorState
  <2>2. failures' \in [Servers -> 0..MaxFailures]
    BY <1>0, <1>4, LauncherAssumption DEF Check
  <2>3. CASE Status(s) = "error" /\ failures[s] < MaxFailures
    <3>1. hm' = [pc |-> "restart", todo |-> hm.todo \ {s}, server |-> s] /\ failures' = failures
      BY <1>4, <2>3 DEF Check
    <3>2. hm' \in MonitorState /\ hm'.pc = "restart" /\ hm'.server = s
      BY <2>1, <3>1 DEF MonitorState
    <3>3. MonitorInv'
      BY <1>4, <2>3, <3>1, <3>2 DEF Check, LauncherInv, MonitorInv
    <3> QED
      BY <1>4, <2>2, <3>2, <3>3, OtherKeeps DEF Check, LauncherInv, TypeOK
  <2>4. CASE ~(Status(s) = "error" /\ failures[s] < MaxFailures)
    <3>1. hm' = NextServer(hm.todo \ {s})
      BY <1>4, <2>4 DEF Check
    <3>2. hm' \in MonitorState /\ hm'.pc \in {"sleep", "round"}
      BY <1>1, <2>1, <3>1
    <3>3. MonitorInv'
      BY <1>4, <3>2 DEF Check, LauncherInv, MonitorInv
    <3> QED
      BY <1>4, <2>2, <3>2, <3>3, OtherKeeps DEF Check, LauncherInv, TypeOK
  <2> QED
    BY <2>3, <2>4
<1> QED
  BY <1>2, <1>3, <1>4

\* GetOrLaunch returned to the monitor, which counts a failure.
LEMMA RestartEndsKeeps ==
  ASSUME LauncherInv, RestartEnds
  PROVE  LauncherInv'
<1>0. hm \in MonitorState /\ failures \in [Servers -> 0..MaxFailures] /\ Monitor \in Callers
      /\ caller[Monitor].pc \in {"use", "error"}
  BY DEF LauncherInv, TypeOK, Callers, RestartEnds
<1>1. hm.pc = "wait" /\ hm.server \in Servers /\ failures[hm.server] < MaxFailures
  BY <1>0 DEF LauncherInv, MonitorInv
<1>2. failures' \in [Servers -> 0..MaxFailures]
  BY <1>0, <1>1, LauncherAssumption DEF RestartEnds
<1>3. hm' \in MonitorState /\ hm'.pc \in {"sleep", "round"}
  BY <1>0 DEF RestartEnds, NextServer, MonitorState
<1>4. AtRest \in Call /\ AtRest.pc = "idle"
  BY DEF AtRest, Call
<1>5. /\ caller' \in [Callers -> Call] /\ caller'[Monitor].pc = "idle"
      /\ \A d \in Callers \ {Monitor} : caller'[d] = caller[d]
  BY <1>0, <1>4 DEF RestartEnds, LauncherInv, TypeOK
<1>6. TypeOK' /\ MonitorInv'
  BY <1>2, <1>3, <1>5 DEF RestartEnds, LauncherInv, TypeOK, MonitorInv
<1>7. Cache' = Cache
  BY CacheSame DEF LauncherInv, TypeOK, RestartEnds
<1>8. SafeInv'
  BY <1>0, <1>5, <1>7, QuietKeeps DEF LauncherInv, SafeInv, CallsInv, RestartEnds, Launching
<1> QED
  BY <1>6, <1>8 DEF LauncherInv

(***************************************************************************)
(* Theorems.                                                               *)
(***************************************************************************)

\* New establishes the invariant.
LEMMA InitEstablishes == Init => LauncherInv
<1> SUFFICES ASSUME Init PROVE LauncherInv
  OBVIOUS
<1>1. AtRest \in Call /\ AtRest.pc = "idle" /\ Asleep \in MonitorState /\ Asleep.pc = "sleep"
  BY DEF AtRest, Call, Asleep, MonitorState
<1>2. TypeOK
  <2>1. /\ caller \in [Callers -> Call] /\ hm \in MonitorState
        /\ failures \in [Servers -> 0..MaxFailures] /\ errored \subseteq Servers
    BY <1>1, LauncherAssumption DEF Init, Servers
  <2>2. /\ connections \in [Servers -> Conns \union {None}]
        /\ pool \in [PoolKeys -> Entry \union {None}]
        /\ conn \in [Conns -> {"unused", "late", "open", "closed"}]
    BY DEF Init
  <2> QED
    BY <2>1, <2>2 DEF Init, TypeOK
<1>3. \A k \in Keys : Cache[k] = None
  BY DEF Cache, Cached, Init, Keys, StatelessKeys
<1>4. \A c \in Callers : caller[c].pc = "idle"
  BY <1>1 DEF Init
<1>5. MonitorInv
  BY <1>1, <1>4 DEF MonitorInv, Init, Callers
<1>6. SafeInv
  BY <1>3, <1>4 DEF SafeInv, CallsInv, FlightInv, OwnerInv, CacheInv, Launching, Init
<1> QED
  BY <1>2, <1>5, <1>6 DEF LauncherInv

\* Every step of the launcher, its callers and its monitor keeps it.
LEMMA StepKeeps == LauncherInv /\ [Next]_vars => LauncherInv'
<1> SUFFICES ASSUME LauncherInv, [Next]_vars PROVE LauncherInv'
  OBVIOUS
<1>1. ASSUME NEW c \in Clients, \/ \E k \in Keys : Lookup(c, k) /\ UNCHANGED hm
                                \/ Done(c)
      PROVE  LauncherInv'
  BY <1>1, ClientLookupKeeps, DoneKeeps
<1>2. ASSUME NEW c \in Callers, CallStep(c) PROVE LauncherInv'
  BY <1>2, JoinKeeps, LeadKeeps, LaunchSucceedsKeeps, LaunchFailsKeeps, LaunchTimesOutKeeps,
     PublishKeeps, RecordStartKeeps DEF CallStep
<1>3. CASE \E n \in Conns : LateArrival(n)
  BY <1>3, LateArrivalKeeps
<1>4. CASE \E k \in PoolKeys : GoIdle(k)
  BY <1>4, GoIdleKeeps
<1>5. CASE Cleanup
  BY <1>5, CleanupKeeps
<1>6. CASE Wake \/ MonitorStops
  BY <1>6, RoundKeeps
<1>7. CASE MonitorStep
  BY <1>7, RoundKeeps, ClearKeeps, MonitorLookupKeeps, RestartEndsKeeps DEF MonitorStep
<1>8. CASE InitiateShutdown
  BY <1>8, OtherKeeps DEF InitiateShutdown, LauncherInv, TypeOK, MonitorInv
<1>9. CASE Close
  BY <1>9, CloseKeeps
<1>10. ASSUME NEW s \in Servers, Break(s) PROVE LauncherInv'
  BY <1>10, OtherKeeps DEF Break, LauncherInv, TypeOK, MonitorInv
<1>11. CASE UNCHANGED vars
  BY <1>11, OtherKeeps DEF vars, LauncherInv, TypeOK, MonitorInv
<1> QED
  BY <1>1, <1>2, <1>3, <1>4, <1>5, <1>6, <1>7, <1>8, <1>9, <1>10, <1>11 DEF Next

\* The inductive invariant holds in every reachable state.
THEOREM LauncherInvariant == Spec => []LauncherInv
<1> QED
  BY InitEstablishes, StepKeeps, PTL DEF Spec

\* The launcher's state is well typed; the monitor never counts beyond
\* maxConsecutiveRestartFailures.
THEOREM TypeCorrect == Spec => []TypeOK
<1>1. LauncherInv => TypeOK
  BY DEF LauncherInv
<1> QED
  BY LauncherInvariant, <1>1, PTL

\* GetOrLaunch never hands out a connection that the monitor, the pool's
\* cleanup or a launch that lost to Close has closed.
THEOREM CachedConnectionsAreOpen == Spec => []CachedIsOpen
<1>1. LauncherInv => CachedIsOpen
  BY DEF LauncherInv, SafeInv, CacheInv, CachedIsOpen, Cache
<1> QED
  BY LauncherInvariant, <1>1, PTL

\* However late a launch completes, nothing is cached once Close has run.
THEOREM ClosedCachesStayEmpty == Spec => []NothingCachedAfterClose
<1>1. LauncherInv => NothingCachedAfterClose
  BY DEF LauncherInv, SafeInv, CacheInv, NothingCachedAfterClose, Cache
<1> QED
  BY LauncherInvariant, <1>1, PTL

\* An open connection has an owner, or is one of those the startup timeout or
\* the pool's Stop leave behind.
THEOREM OpenConnectionsAreOwned == Spec => []OpenIsOwned
<1>1. LauncherInv => OpenIsOwned
  BY DEF LauncherInv, SafeInv, CacheInv, OpenIsOwned, Cache
<1> QED
  BY LauncherInvariant, <1>1, PTL

\* A step empties a place of the cache or fills an empty one.
LEMMA CacheStep ==
  ASSUME LauncherInv, [Next]_vars
  PROVE  \A k \in Keys : Cache[k] # None => Cache'[k] \in {Cache[k], None}
<1> DEFINE Kept == \A k \in Keys : Cache[k] # None => Cache'[k] \in {Cache[k], None}
<1>0. Cache' = Cache => Kept
  OBVIOUS
<1>1. ASSUME UNCHANGED <<connections, pool>> PROVE Kept
  BY <1>0, <1>1, CacheSame DEF LauncherInv, TypeOK
<1>2. ASSUME NEW c \in Callers, NEW k \in Keys, Lookup(c, k) PROVE Kept
  BY <1>0, <1>2, LookupKeeps DEF LauncherInv
<1>3. ASSUME MonitorLookup PROVE Kept
  <2>1. [server |-> hm.server, session |-> NoSession] \in Keys /\ Monitor \in Callers
    BY <1>3 DEF LauncherInv, MonitorInv, MonitorLookup, Keys, StatelessKeys, Callers
  <2> QED
    BY <1>2, <1>3, <2>1 DEF MonitorLookup
<1>4. ASSUME NEW c \in Callers, CallStep(c) PROVE Kept
  <2>1. caller[c].pc # "idle" => caller[c].key \in Keys
    BY DEF LauncherInv, SafeInv, CallsInv
  <2>2. CASE Join(c) \/ LaunchSucceeds(c) \/ RecordStart(c)
    BY <1>1, <2>2 DEF Join, LaunchSucceeds, RecordStart
  <2>3. CASE Lead(c)
    <3>1. CASE ~closed /\ Cached(caller[c].key) # None
      <4>1. pool' = Touch(caller[c].key) /\ connections' = connections /\ caller[c].key \in Keys
        BY <2>1, <2>3, <3>1 DEF Lead
      <4> QED
        BY <1>0, <3>1, <4>1, TouchSame DEF LauncherInv
    <3>2. CASE ~(~closed /\ Cached(caller[c].key) # None)
      <4>1. UNCHANGED <<connections, pool>>
        BY <2>3, <3>2 DEF Lead
      <4> QED
        BY <1>1, <4>1
    <3> QED
      BY <3>1, <3>2
  <2>4. CASE LaunchFails(c) \/ LaunchTimesOut(c)
    <3>1. pool' = RecordPoolError(caller[c].key) /\ connections' = connections /\ caller[c].key \in Keys
      BY <2>1, <2>4 DEF LaunchFails, LaunchTimesOut, LaunchError
    <3> QED
      BY <1>0, <3>1, ErrorSame DEF LauncherInv
  <2>5. CASE Publish(c)
    <3>1. CASE closed
      <4>1. UNCHANGED <<connections, pool>>
        BY <2>5, <3>1 DEF Publish
      <4> QED
        BY <1>1, <4>1
    <3>2. CASE ~closed
      <4>1. Cache' = [Cache EXCEPT ![caller[c].key] = caller[c].conn]
        BY <2>5, <3>2, PublishCache
      <4>2. Cache[caller[c].key] = None
        BY <2>5 DEF LauncherInv, SafeInv, FlightInv, Publish
      <4>3. Cache \in [Keys -> Conns \union {None}]
        BY CacheType DEF LauncherInv
      <4> QED
        BY <4>1, <4>2, <4>3
    <3> QED
      BY <3>1, <3>2
  <2> QED
    BY <1>4, <2>2, <2>3, <2>4, <2>5 DEF CallStep
<1>5. ASSUME NEW k \in PoolKeys, GoIdle(k) PROVE Kept
  <2> DEFINE x == [pool[k] EXCEPT !.idle = TRUE]
  <2>1. pool[k] \in Entry /\ pool' = [pool EXCEPT ![k] = x] /\ connections' = connections
    BY <1>5 DEF GoIdle, LauncherInv, TypeOK
  <2>2. x \in Entry /\ x.conn = pool[k].conn
    BY <2>1 DEF Entry
  <2> HIDE DEF x
  <2>3. pool' \in [PoolKeys -> Entry \union {None}]
    BY <2>1, <2>2 DEF LauncherInv, TypeOK
  <2> QED
    BY <1>0, <2>1, <2>2, <2>3, NoEntryAssumption, CacheSame DEF LauncherInv, TypeOK
<1>6. ASSUME Cleanup PROVE Kept
  BY <1>6 DEF Cleanup, Cache, Cached
<1>7. ASSUME ClearServerForRestart PROVE Kept
  <2>1. ASSUME NEW k \in Keys PROVE Cache'[k] \in {Cache[k], None}
    <3>1. CASE k \in PoolKeys
      BY <1>7, <3>1 DEF ClearServerForRestart, Cache, Cached
    <3>2. CASE k \notin PoolKeys
      <4>1. k.server \in Servers
        BY <3>2 DEF Keys, StatelessKeys
      <4> QED
        BY <1>7, <3>2, <4>1 DEF ClearServerForRestart, Cache, Cached, LauncherInv, TypeOK
    <3> QED
      BY <3>1, <3>2
  <2> QED
    BY <2>1
<1>8. ASSUME Close PROVE Kept
  <2>1. \A k \in Keys : k \notin PoolKeys => k.server \in Servers
    BY DEF Keys, StatelessKeys
  <2> QED
    BY <1>8, <2>1 DEF Close, Cache, Cached
<1>9. ASSUME \/ \E c \in Clients : Done(c)
             \/ \E n \in Conns : LateArrival(n)
             \/ Wake \/ (\E s \in Servers : Check(s)) \/ RestartEnds \/ MonitorStops
             \/ InitiateShutdown \/ (\E s \in Servers : Break(s)) \/ UNCHANGED vars
      PROVE  Kept
  <2>1. UNCHANGED <<connections, pool>>
    BY <1>9 DEF Done, LateArrival, Wake, Check, RestartEnds, MonitorStops, InitiateShutdown,
                Break, vars
  <2> QED
    BY <1>1, <2>1
<1>10. Clients \subseteq Callers
  BY DEF Callers
<1> QED
  BY <1>2, <1>3, <1>4, <1>5, <1>6, <1>7, <1>8, <1>9, <1>10 DEF Next, MonitorStep

\* No launch replaces a connection that is cached, which would be left
\* running with nobody to close it.
THEOREM PublishReplacesNothing == Spec => PublishNeverReplaces
<1> DEFINE Kept == \A k \in Keys : Cached(k) # None => Cached(k)' \in {Cached(k), None}
<1>1. LauncherInv /\ [Next]_vars => [Kept]_vars
  BY CacheStep DEF Cache
<1> QED
  BY LauncherInvariant, <1>1, PTL DEF Spec, PublishNeverReplaces

(***************************************************************************)
(* The service: each step is one of SharedBackends, or changes nothing     *)
(* there.                                                                  *)
(***************************************************************************)

Backend(k, n) == [key |-> k, conn |-> n]
Serving       == {Backend(k, Cache[k]) : k \in {k \in Keys : Cache[k] # None}}

\* What is cached or given has been published under that key, and what is
\* about to be published has not been.
ServedInv ==
  /\ \A b \in served : b.conn \in Conns /\ conn[b.conn] # "unused"
  /\ \A b \in served : \A c \in Callers : caller[c].pc = "publish" => caller[c].conn # b.conn
  /\ \A k \in Keys : Cache[k] # None => Backend(k, Cache[k]) \in served
  /\ \A c \in Callers : caller[c].pc \in {"start", "use"} =>
       Backend(caller[c].key, caller[c].conn) \in served

\* The goal of each lemma below.
ServiceKept == ServedInv' /\ [Service!Next]_(Service!vars)

\* A step that publishes nothing.
LEMMA ServedKept ==
  ASSUME ServedInv, served' = served,
         \A k \in Keys : Cache'[k] \in {Cache[k], None},
         \A n \in Conns : conn[n] # "unused" => conn'[n] # "unused",
         \A c \in Callers : caller'[c].pc = "publish" => \A b \in served : caller'[c].conn # b.conn,
         \A c \in Callers : caller'[c].pc \in {"start", "use"} =>
           Backend(caller'[c].key, caller'[c].conn) \in served
  PROVE  ServedInv'
BY DEF ServedInv

\* The variables of the service, here.
LEMMA ServiceVars ==
  /\ Service!vars = <<Serving, served, [c \in Callers |-> Given(c)], closed>>
  /\ Service!vars' = <<Serving', served', [c \in Callers |-> Given(c)'], closed'>>
BY DEF Service!vars, Serving, Cache, Backend

\* The steps of the service, one by one.
LEMMA Stutters ==
  ASSUME Cache' = Cache, served' = served, closed' = closed, \A c \in Callers : Given(c)' = Given(c)
  PROVE  UNCHANGED Service!vars
BY ServiceVars DEF Serving

LEMMA Gives ==
  ASSUME Cache' = Cache, served' = served, closed' = closed,
         NEW U \in SUBSET Callers, NEW b \in served,
         \A u \in U : Given(u) = {} /\ Given(u)' = {b},
         \A u \in Callers \ U : Given(u)' = Given(u)
  PROVE  Service!Next
<1>1. Serving' = Serving
  BY DEF Serving
<1> QED
  BY <1>1 DEF Service!Next, Service!Give, Serving, Backend, Cache

LEMMA Withdraws ==
  ASSUME \A k \in Keys : Cache'[k] \in {Cache[k], None}, served' = served, closed' = closed,
         \A c \in Callers : Given(c)' = Given(c)
  PROVE  Service!Next
<1>1. Serving' \in SUBSET Serving
  BY DEF Serving
<1> QED
  BY <1>1 DEF Service!Next, Service!Withdraw, Serving, Backend, Cache

LEMMA Releases ==
  ASSUME Cache' = Cache, served' = served, closed' = closed, NEW u \in Callers,
         Given(u)' = {}, \A c \in Callers \ {u} : Given(c)' = Given(c)
  PROVE  Service!Next
<1>1. Serving' = Serving
  BY DEF Serving
<1> QED
  BY <1>1 DEF Service!Next, Service!Release, Serving, Backend, Cache

LEMMA Starts ==
  ASSUME ~closed, closed' = closed, NEW k \in Keys, NEW n \in Conns, n # None,
         Cache[k] = None, Cache' = [Cache EXCEPT ![k] = n],
         \A b \in served : b.conn # n, served' = served \union {Backend(k, n)},
         \A c \in Callers : Given(c)' = Given(c)
  PROVE  Service!Next
<1>1. Serving' = Serving \union {Backend(k, n)}
  BY DEF Serving, Cache
<1>2. \A b \in Serving : b.key # k
  BY DEF Serving, Backend
<1>3. /\ \A b \in Serving : b.key # k
      /\ \A b \in served : b.conn # n
      /\ Serving' = Serving \union {[key |-> k, conn |-> n]}
      /\ served' = served \union {[key |-> k, conn |-> n]}
  BY <1>1, <1>2 DEF Backend
<1>4. [c \in Callers |-> Given(c)]' = [c \in Callers |-> Given(c)]
  OBVIOUS
<1>5. /\ Serving = {[key |-> j, conn |-> Cached(j)] : j \in {j \in Keys : Cached(j) # None}}
      /\ Serving' = {[key |-> j, conn |-> Cached(j)'] : j \in {j \in Keys : Cached(j)' # None}}
  BY DEF Serving, Cache, Backend
<1>6. UNCHANGED <<[c \in Callers |-> Given(c)], closed>>
  BY <1>4
<1>7. Service!Start
  BY <1>3, <1>5, <1>6 DEF Service!Start
<1> QED
  BY <1>7 DEF Service!Next

LEMMA Stops ==
  ASSUME \A k \in Keys : Cache'[k] = None, closed', closed' \in BOOLEAN, served' = served,
         \A c \in Callers : Given(c)' = Given(c)
  PROVE  Service!Next
<1>1. Serving' = {}
  BY DEF Serving
<1> QED
  BY <1>1 DEF Service!Next, Service!Stop, Serving, Backend, Cache

\* Those who share a flight are given its connection together, or nothing.
LEMMA FlightGives ==
  ASSUME LauncherInv, NEW c \in Callers, caller[c].pc \notin {"idle", "use"},
         NEW r \in Conns \union {None}, FlightEnds(c, r)
  PROVE  /\ \A x \in Callers : caller'[x].pc = "publish" => caller'[x] = caller[x]
         /\ \A x \in Callers : caller'[x].pc \in {"start", "use"} =>
              \/ caller'[x] = caller[x]
              \/ r # None /\ caller'[x].key = caller[c].key /\ caller'[x].conn = r
         /\ \E U \in SUBSET Callers :
              /\ \A x \in U : Given(x) = {}
                              /\ Given(x)' = IF r = None THEN {} ELSE {Backend(caller[c].key, r)}
              /\ \A x \in Callers \ U : Given(x)' = Given(x)
<1> DEFINE U == {x \in Callers : x = c \/ (caller[x].pc = "wait" /\ caller[x].key = caller[c].key)}
<1>1. \A x \in Callers : caller[x] \in Call /\ caller'[x] = IF x \in U THEN Answered(x, r) ELSE caller[x]
  BY DEF LauncherInv, TypeOK, FlightEnds
<1>2. \A x \in U : caller[x].key = caller[c].key /\ caller[x].pc \notin {"idle", "use"}
  OBVIOUS
<1> HIDE DEF U
<1>3. ASSUME NEW x \in Callers \ U
      PROVE  caller'[x] = caller[x] /\ Given(x)' = Given(x)
  BY <1>1 DEF Given
<1>4. ASSUME NEW x \in U, x \in Callers
      PROVE  /\ Given(x) = {}
             /\ caller'[x].pc \in {"idle", "error", "use"}
             /\ caller'[x].pc = "use" <=> r # None
             /\ r # None => caller'[x].key = caller[c].key /\ caller'[x].conn = r
  <2>1. caller[x] \in Call /\ caller'[x] = Answered(x, r) /\ caller[x].pc # "use"
        /\ caller[x].key = caller[c].key
    BY <1>1, <1>2, <1>4
  <2>2. Given(x) = {}
    BY <2>1 DEF Given
  <2>3. CASE r = None
    BY <2>1, <2>2, <2>3 DEF Answered, Call, AtRest
  <2>4. CASE r # None
    BY <2>1, <2>2, <2>4 DEF Answered, Call
  <2> QED
    BY <2>3, <2>4
<1>5. ASSUME NEW x \in U, x \in Callers
      PROVE  Given(x)' = IF r = None THEN {} ELSE {Backend(caller[c].key, r)}
  <2>1. CASE r = None
    BY <1>4, <1>5, <2>1 DEF Given
  <2>2. CASE r # None
    BY <1>4, <1>5, <2>2 DEF Given, Backend
  <2> QED
    BY <2>1, <2>2
<1>6. U \in SUBSET Callers
  BY DEF U
<1>7. /\ \A x \in Callers : caller'[x].pc = "publish" => caller'[x] = caller[x]
      /\ \A x \in Callers : caller'[x].pc \in {"start", "use"} =>
           \/ caller'[x] = caller[x]
           \/ r # None /\ caller'[x].key = caller[c].key /\ caller'[x].conn = r
  BY <1>3, <1>4
<1> QED
  BY <1>3, <1>4, <1>5, <1>6, <1>7

\* A flight that ends while the cache stays as it is gives what is served.
LEMMA FlightKept ==
  ASSUME LauncherInv, ServedInv, NEW c \in Callers, caller[c].pc \notin {"idle", "use"},
         NEW r \in Conns \union {None}, FlightEnds(c, r),
         r # None => Backend(caller[c].key, r) \in served,
         Cache' = Cache, served' = served, closed' = closed,
         \A n \in Conns : conn[n] # "unused" => conn'[n] # "unused"
  PROVE  ServiceKept
<1>1. /\ \A x \in Callers : caller'[x].pc = "publish" => caller'[x] = caller[x]
      /\ \A x \in Callers : caller'[x].pc \in {"start", "use"} =>
           \/ caller'[x] = caller[x]
           \/ r # None /\ caller'[x].key = caller[c].key /\ caller'[x].conn = r
  BY FlightGives
<1>2. PICK U \in SUBSET Callers :
        /\ \A x \in U : Given(x) = {}
                        /\ Given(x)' = IF r = None THEN {} ELSE {Backend(caller[c].key, r)}
        /\ \A x \in Callers \ U : Given(x)' = Given(x)
  BY FlightGives
<1>3. ServedInv'
  <2>1. \A x \in Callers : caller'[x].pc = "publish" => \A b \in served : caller'[x].conn # b.conn
    BY <1>1 DEF ServedInv
  <2>2. \A x \in Callers : caller'[x].pc \in {"start", "use"} =>
          Backend(caller'[x].key, caller'[x].conn) \in served
    BY <1>1 DEF ServedInv
  <2> QED
    BY <2>1, <2>2, ServedKept
<1>4. CASE r = None
  <2>1. \A x \in Callers : Given(x)' = Given(x)
    BY <1>2, <1>4
  <2> QED
    BY <1>3, <2>1, Stutters DEF ServiceKept
<1>5. CASE r # None
  <2>1. \A x \in U : Given(x) = {} /\ Given(x)' = {Backend(caller[c].key, r)}
    BY <1>2, <1>5
  <2> QED
    BY <1>2, <1>3, <1>5, <2>1, Gives DEF ServiceKept
<1> QED
  BY <1>4, <1>5

\* Steps that leave the calls alone and at most withdraw.
LEMMA CallsAlone ==
  ASSUME ServedInv, caller' = caller, served' = served,
         \A n \in Conns : conn[n] # "unused" => conn'[n] # "unused",
         \/ Cache' = Cache /\ closed' = closed
         \/ closed' = closed /\ \A k \in Keys : Cache'[k] \in {Cache[k], None}
         \/ closed' = TRUE /\ \A k \in Keys : Cache'[k] = None
  PROVE  ServiceKept
<1>1. \A c \in Callers : Given(c)' = Given(c)
  BY DEF Given
<1>2. \A k \in Keys : Cache'[k] \in {Cache[k], None}
  OBVIOUS
<1>3. ServedInv'
  BY <1>2, ServedKept DEF ServedInv
<1> QED
  BY <1>1, <1>3, Stutters, Withdraws, Stops DEF ServiceKept

\* One call moves, to where it holds nothing.
LEMMA CallMoves ==
  ASSUME LauncherInv, ServedInv, NEW c \in Callers, NEW x \in Call, caller' = [caller EXCEPT ![c] = x],
         x.pc \notin {"publish", "start", "use"},
         Cache' = Cache, served' = served, closed' = closed, conn' = conn
  PROVE  ServiceKept
<1>1. caller'[c] = x /\ \A d \in Callers \ {c} : caller'[d] = caller[d]
  BY DEF LauncherInv, TypeOK
<1>2. Given(c)' = {} /\ \A d \in Callers \ {c} : Given(d)' = Given(d)
  BY <1>1 DEF Given
<1>3. ServedInv'
  <2>1. \A d \in Callers : caller'[d].pc = "publish" => \A b \in served : caller'[d].conn # b.conn
    BY <1>1 DEF ServedInv
  <2>2. \A d \in Callers : caller'[d].pc \in {"start", "use"} =>
          Backend(caller'[d].key, caller'[d].conn) \in served
    BY <1>1 DEF ServedInv
  <2> QED
    BY <2>1, <2>2, ServedKept
<1> QED
  BY <1>2, <1>3, Releases DEF ServiceKept

\* GetOrLaunch looks the connection up.
LEMMA LookupServes ==
  ASSUME LauncherInv, ServedInv, NEW c \in Callers, NEW k \in Keys, Lookup(c, k)
  PROVE  ServiceKept
<1>1. Cache' = Cache /\ served' = served /\ closed' = closed /\ conn' = conn
  BY LookupKeeps DEF LauncherInv, Lookup
<1>2. CASE Cached(k) # None
  <2> DEFINE x == [pc |-> "use", key |-> k, conn |-> Cached(k)]
             b == Backend(k, Cached(k))
  <2>1. /\ caller[c].pc = "idle" /\ caller'[c] = x
        /\ \A d \in Callers \ {c} : caller'[d] = caller[d]
    BY <1>2 DEF Lookup, LauncherInv, TypeOK
  <2>2. b \in served
    BY <1>2 DEF ServedInv, Cache
  <2>3. Given(c) = {} /\ Given(c)' = {b} /\ \A d \in Callers \ {c} : Given(d)' = Given(d)
    BY <2>1 DEF Given, Backend
  <2>4. Service!Next
    <3> HIDE DEF b
    <3>1. /\ {c} \in SUBSET Callers /\ \A u \in {c} : Given(u) = {} /\ Given(u)' = {b}
          /\ \A u \in Callers \ {c} : Given(u)' = Given(u)
      BY <2>3
    <3> QED
      BY <1>1, <2>2, <3>1, Gives
  <2>5. \A d \in Callers : caller'[d].pc = "publish" => \A a \in served : caller'[d].conn # a.conn
    BY <2>1 DEF ServedInv
  <2>6. \A d \in Callers : caller'[d].pc \in {"start", "use"} =>
          Backend(caller'[d].key, caller'[d].conn) \in served
    BY <2>1, <2>2 DEF ServedInv
  <2> QED
    BY <1>1, <2>4, <2>5, <2>6, ServedKept DEF ServiceKept
<1>3. CASE Cached(k) = None
  <2> DEFINE x == [pc |-> "miss", key |-> k, conn |-> None]
  <2>1. x \in Call /\ x.pc = "miss" /\ caller' = [caller EXCEPT ![c] = x]
    BY <1>3 DEF Lookup, Call
  <2> QED
    BY <1>1, <2>1, CallMoves
<1> QED
  BY <1>2, <1>3

\* It joins a launch; a client is done; the monitor counts a restart.
LEMMA MovesServe ==
  ASSUME LauncherInv, ServedInv,
         RestartEnds \/ \E c \in Callers : Join(c) \/ Done(c)
  PROVE  ServiceKept
<1>0. AtRest \in Call /\ AtRest.pc = "idle" /\ Monitor \in Callers
  BY DEF AtRest, Call, Callers
<1>1. UNCHANGED <<connections, pool, served, closed, conn>>
  BY DEF RestartEnds, Join, Done
<1>2. Cache' = Cache
  BY <1>1, CacheSame DEF LauncherInv, TypeOK
<1>3. CASE RestartEnds
  BY <1>0, <1>1, <1>2, <1>3, CallMoves DEF RestartEnds
<1>4. ASSUME NEW c \in Callers, Done(c) PROVE ServiceKept
  BY <1>0, <1>1, <1>2, <1>4, CallMoves DEF Done
<1>5. ASSUME NEW c \in Callers, Join(c) PROVE ServiceKept
  <2> DEFINE x == [caller[c] EXCEPT !.pc = "wait"]
  <2>1. caller[c] \in Call /\ caller' = [caller EXCEPT ![c] = x]
    BY <1>5 DEF Join, LauncherInv, TypeOK
  <2>2. x \in Call /\ x.pc = "wait"
    BY <2>1 DEF Call
  <2> HIDE DEF x
  <2> QED
    BY <1>1, <1>2, <2>1, <2>2, CallMoves
<1> QED
  BY <1>3, <1>4, <1>5

\* The call that leads looks again.
LEMMA LeadServes ==
  ASSUME LauncherInv, ServedInv, NEW c \in Callers, Lead(c)
  PROVE  ServiceKept
<1> DEFINE k == caller[c].key
<1>0. /\ caller[c] \in Call /\ caller[c].pc = "miss" /\ k \in Keys
      /\ UNCHANGED <<connections, served, closed, conn>>
  BY DEF LauncherInv, TypeOK, Lead, SafeInv, CallsInv
<1>1. CASE closed
  <2>1. FlightEnds(c, None) /\ pool' = pool
    BY <1>1 DEF Lead
  <2>2. Cache' = Cache
    BY <1>0, <2>1, CacheSame DEF LauncherInv, TypeOK
  <2> QED
    BY <1>0, <2>1, <2>2, FlightKept
<1>2. CASE ~closed /\ Cached(k) # None
  <2>1. FlightEnds(c, Cached(k)) /\ pool' = Touch(k)
    BY <1>2 DEF Lead
  <2>2. Cache' = Cache
    BY <1>0, <1>2, <2>1, TouchSame DEF LauncherInv
  <2>3. Cached(k) \in Conns /\ Backend(k, Cached(k)) \in served
    BY <1>0, <1>2, CacheType DEF LauncherInv, Cache, ServedInv
  <2> QED
    BY <1>0, <2>1, <2>2, <2>3, FlightKept
<1>3. CASE ~closed /\ Cached(k) = None
  <2> DEFINE x == [caller[c] EXCEPT !.pc = "launch"]
  <2>1. x \in Call /\ x.pc = "launch"
    BY <1>0 DEF Call
  <2>2. caller' = [caller EXCEPT ![c] = x] /\ pool' = pool
    BY <1>3 DEF Lead
  <2> HIDE DEF x
  <2>3. Cache' = Cache
    BY <1>0, <2>2, CacheSame DEF LauncherInv, TypeOK
  <2> QED
    BY <1>0, <2>1, <2>2, <2>3, CallMoves
<1> QED
  BY <1>1, <1>2, <1>3

\* The launched connection has never served.
LEMMA LaunchServes ==
  ASSUME LauncherInv, ServedInv, NEW c \in Callers, LaunchSucceeds(c)
  PROVE  ServiceKept
<1> DEFINE n == Fresh
           x == [caller[c] EXCEPT !.pc = "publish", !.conn = n]
<1>0. caller[c] \in Call /\ caller[c].pc = "launch" /\ n \in Conns /\ conn[n] = "unused"
  BY FreshIsUnused DEF LauncherInv, TypeOK, LaunchSucceeds
<1>1. x.pc = "publish" /\ x.conn = n
  BY <1>0 DEF Call
<1>2. /\ caller' = [caller EXCEPT ![c] = x] /\ conn' = [conn EXCEPT ![n] = "open"]
      /\ UNCHANGED <<connections, pool, served, closed>>
  BY DEF LaunchSucceeds
<1> HIDE DEF x, n
<1>3. /\ caller'[c] = x /\ \A d \in Callers \ {c} : caller'[d] = caller[d]
      /\ conn'[n] = "open" /\ \A m \in Conns \ {n} : conn'[m] = conn[m]
  BY <1>0, <1>2 DEF LauncherInv, TypeOK
<1>4. Cache' = Cache
  BY <1>2, CacheSame DEF LauncherInv, TypeOK
<1>5. \A d \in Callers : Given(d)' = Given(d)
  BY <1>0, <1>1, <1>3 DEF Given
<1>6. \A b \in served : b.conn # n
  BY <1>0 DEF ServedInv
<1>7. \A d \in Callers : caller'[d].pc = "publish" => \A b \in served : caller'[d].conn # b.conn
  BY <1>1, <1>3, <1>6 DEF ServedInv
<1>8. \A d \in Callers : caller'[d].pc \in {"start", "use"} =>
        Backend(caller'[d].key, caller'[d].conn) \in served
  BY <1>1, <1>3 DEF ServedInv
<1>9. ServedInv'
  BY <1>2, <1>3, <1>4, <1>7, <1>8, ServedKept
<1> QED
  BY <1>2, <1>4, <1>5, <1>9, Stutters DEF ServiceKept

\* A launch that fails or times out gives nothing.
LEMMA FailureServes ==
  ASSUME LauncherInv, ServedInv, NEW c \in Callers, LaunchFails(c) \/ LaunchTimesOut(c)
  PROVE  ServiceKept
<1>1. /\ caller[c].pc = "launch" /\ caller[c].key \in Keys
      /\ FlightEnds(c, None) /\ pool' = RecordPoolError(caller[c].key)
      /\ UNCHANGED <<connections, served, closed>>
  BY DEF LaunchFails, LaunchTimesOut, LaunchError, LauncherInv, SafeInv, CallsInv
<1>2. Cache' = Cache
  BY <1>1, ErrorSame DEF LauncherInv
<1>3. \A n \in Conns : conn[n] # "unused" => conn'[n] # "unused"
  BY DEF LaunchFails, LaunchTimesOut, LauncherInv, TypeOK
<1> QED
  BY <1>1, <1>2, <1>3, FlightKept

\* The published connection begins to serve, unless the launcher was closed.
LEMMA PublishServes ==
  ASSUME LauncherInv, ServedInv, NEW c \in Callers, Publish(c)
  PROVE  ServiceKept
<1> DEFINE k == caller[c].key
           n == caller[c].conn
<1>0. caller[c] \in Call /\ caller[c].pc = "publish" /\ k \in Keys /\ n \in Conns /\ n # None /\ closed' = closed
  BY NoneIsNoConn DEF LauncherInv, TypeOK, SafeInv, CallsInv, Publish
<1>1. CASE closed
  <2>1. /\ conn' = [conn EXCEPT ![n] = "closed"] /\ FlightEnds(c, None)
        /\ UNCHANGED <<connections, pool, served>>
    BY <1>1 DEF Publish
  <2>2. Cache' = Cache
    BY <2>1, CacheSame DEF LauncherInv, TypeOK
  <2>3. \A m \in Conns : conn[m] # "unused" => conn'[m] # "unused"
    BY <2>1 DEF LauncherInv, TypeOK
  <2> QED
    BY <1>0, <2>1, <2>2, <2>3, FlightKept
<1>2. CASE ~closed
  <2> DEFINE x == [caller[c] EXCEPT !.pc = "start"]
  <2>1. x.pc = "start" /\ x.key = k /\ x.conn = n
    BY <1>0 DEF Call
  <2>2. caller' = [caller EXCEPT ![c] = x] /\ conn' = conn /\ served' = served \union {Backend(k, n)}
    BY <1>2 DEF Publish, Backend
  <2> HIDE DEF x
  <2>3. caller'[c] = x /\ \A d \in Callers \ {c} : caller'[d] = caller[d]
    BY <2>2 DEF LauncherInv, TypeOK
  <2>4. Cache' = [Cache EXCEPT ![k] = n] /\ Cache[k] = None
    BY <1>0, <1>2, PublishCache DEF LauncherInv, SafeInv, FlightInv
  <2>5. \A b \in served : b.conn # n
    BY <1>0 DEF ServedInv
  <2>6. \A d \in Callers : Given(d)' = Given(d)
    BY <1>0, <2>1, <2>3 DEF Given
  <2>7. Service!Next
    BY <1>0, <1>2, <2>2, <2>4, <2>5, <2>6, Starts
  <2> DEFINE new == Backend(k, n)
  <2>8. new.conn = n /\ conn[n] = "open"
    BY <1>0 DEF Backend, LauncherInv, SafeInv, OwnerInv
  <2>9. \A d \in Callers : caller'[d].pc = "publish" => d # c /\ caller'[d] = caller[d] /\ caller[d].conn # n
    BY <1>0, <2>1, <2>3 DEF LauncherInv, SafeInv, OwnerInv
  <2> HIDE DEF new
  <2>10. served' = served \union {new}
    BY <2>2 DEF new
  <2>11. \A b \in served' : b.conn \in Conns /\ conn'[b.conn] # "unused"
    BY <1>0, <2>2, <2>8, <2>10 DEF ServedInv
  <2>12. \A b \in served' : \A d \in Callers : caller'[d].pc = "publish" => caller'[d].conn # b.conn
    BY <2>8, <2>9, <2>10 DEF ServedInv
  <2>13. \A j \in Keys : Cache'[j] # None => Backend(j, Cache'[j]) \in served'
    <3>1. \A j \in Keys : Cache'[j] = IF j = k THEN n ELSE Cache[j]
      BY <1>0, <2>4 DEF Cache
    <3> QED
      BY <2>10, <3>1 DEF ServedInv, new
  <2>14. \A d \in Callers : caller'[d].pc \in {"start", "use"} =>
           Backend(caller'[d].key, caller'[d].conn) \in served'
    BY <2>1, <2>3, <2>10 DEF ServedInv, new
  <2> QED
    BY <2>7, <2>11, <2>12, <2>13, <2>14 DEF ServiceKept, ServedInv
<1> QED
  BY <1>1, <1>2

\* recordStart, and everyone who waited is given the connection.
LEMMA StartServes ==
  ASSUME LauncherInv, ServedInv, NEW c \in Callers, RecordStart(c)
  PROVE  ServiceKept
<1>1. /\ caller[c].pc = "start" /\ caller[c].conn \in Conns
      /\ FlightEnds(c, caller[c].conn) /\ UNCHANGED <<connections, pool, served, closed, conn>>
  BY DEF RecordStart, LauncherInv, SafeInv, CallsInv
<1>2. Backend(caller[c].key, caller[c].conn) \in served
  BY <1>1 DEF ServedInv
<1>3. Cache' = Cache
  BY <1>1, CacheSame DEF LauncherInv, TypeOK
<1> QED
  BY <1>1, <1>2, <1>3, FlightKept

\* Everybody else at most withdraws.
LEMMA OthersServe ==
  ASSUME LauncherInv, ServedInv, [Next]_vars,
         \/ \E n \in Conns : LateArrival(n)
         \/ \E k \in PoolKeys : GoIdle(k)
         \/ Cleanup \/ Wake \/ (\E s \in Servers : Check(s)) \/ ClearServerForRestart \/ MonitorStops
         \/ InitiateShutdown \/ Close \/ (\E s \in Servers : Break(s)) \/ UNCHANGED vars
  PROVE  ServiceKept
<1>1. caller' = caller /\ served' = served
  BY DEF LateArrival, GoIdle, Cleanup, Wake, Check, ClearServerForRestart, MonitorStops,
         InitiateShutdown, Close, Break, vars
<1>2. \A k \in Keys : Cache[k] # None => Cache'[k] \in {Cache[k], None}
  BY CacheStep
<1>3. CASE Close
  <2>1. \A k \in Keys : k \notin PoolKeys => k.server \in Servers
    BY DEF Keys, StatelessKeys
  <2>2. closed' = TRUE /\ (\A k \in Keys : Cache'[k] = None)
        /\ \A n \in Conns : conn[n] # "unused" => conn'[n] # "unused"
    BY <1>3, <2>1 DEF Close, Cache, Cached
  <2> QED
    BY <1>1, <2>2, CallsAlone
<1>4. CASE ~Close
  <2>1. closed' = closed /\ \A n \in Conns : conn[n] # "unused" => conn'[n] # "unused"
    BY <1>4 DEF LateArrival, GoIdle, Cleanup, Wake, Check, ClearServerForRestart, MonitorStops,
                InitiateShutdown, Break, vars, LauncherInv, TypeOK
  <2>2. \A k \in Keys : Cache[k] = None => Cache'[k] = None
    <3>1. CASE UNCHANGED <<connections, pool>>
      BY <3>1 DEF Cache, Cached
    <3>2. CASE ~UNCHANGED <<connections, pool>>
      <4>1. Cleanup \/ ClearServerForRestart \/ \E k \in PoolKeys : GoIdle(k)
        BY <1>4, <3>2 DEF LateArrival, Wake, Check, MonitorStops, InitiateShutdown, Break, vars
      <4>2. CASE Cleanup
        BY <4>2 DEF Cleanup, Cache, Cached
      <4>3. CASE ClearServerForRestart
        <5>1. \A k \in Keys : k \notin PoolKeys => k.server \in Servers
          BY DEF Keys, StatelessKeys
        <5> QED
          BY <4>3, <5>1 DEF ClearServerForRestart, Cache, Cached, LauncherInv, TypeOK
      <4>4. ASSUME NEW j \in PoolKeys, GoIdle(j)
            PROVE  \A k \in Keys : Cache[k] = None => Cache'[k] = None
        BY <4>4, NoEntryAssumption DEF GoIdle, Cache, Cached, LauncherInv, TypeOK, Entry
      <4> QED
        BY <4>1, <4>2, <4>3, <4>4
    <3> QED
      BY <3>1, <3>2
  <2> QED
    BY <1>1, <1>2, <2>1, <2>2, CallsAlone
<1> QED
  BY <1>3, <1>4

\* Every step of the launcher is a step of the service, or none.
LEMMA StepServes == LauncherInv /\ ServedInv /\ [Next]_vars => ServiceKept
<1> SUFFICES ASSUME LauncherInv, ServedInv, [Next]_vars PROVE ServiceKept
  OBVIOUS
<1>0. Clients \subseteq Callers
  BY DEF Callers
<1>1. ASSUME NEW c \in Clients, \/ \E k \in Keys : Lookup(c, k) /\ UNCHANGED hm
                                \/ Done(c)
      PROVE  ServiceKept
  BY <1>0, <1>1, LookupServes, MovesServe
<1>2. ASSUME NEW c \in Callers, CallStep(c) PROVE ServiceKept
  BY <1>2, MovesServe, LeadServes, LaunchServes, FailureServes, PublishServes, StartServes DEF CallStep
<1>3. CASE MonitorStep
  <2>1. CASE MonitorLookup
    <3>1. [server |-> hm.server, session |-> NoSession] \in Keys /\ Monitor \in Callers
      BY <2>1 DEF LauncherInv, MonitorInv, MonitorLookup, Keys, StatelessKeys, Callers
    <3> QED
      BY <2>1, <3>1, LookupServes DEF MonitorLookup
  <2> QED
    BY <1>3, <2>1, MovesServe, OthersServe DEF MonitorStep
<1>4. CASE \/ \E n \in Conns : LateArrival(n)
           \/ \E k \in PoolKeys : GoIdle(k)
           \/ Cleanup \/ Wake \/ MonitorStops
           \/ InitiateShutdown \/ Close \/ (\E s \in Servers : Break(s)) \/ UNCHANGED vars
  BY <1>4, OthersServe
<1> QED
  BY <1>1, <1>2, <1>3, <1>4 DEF Next

\* To its callers the launcher is the service of SharedBackends: a server, or a
\* server and a session, has one connection at a time, and no caller is given a
\* connection that was launched for another.
THEOREM ServiceIsKept == Spec => KeepsService
<1>1. Init => ServedInv /\ Service!Init
  <2> SUFFICES ASSUME Init PROVE ServedInv /\ Service!Init
    OBVIOUS
  <2>1. \A k \in Keys : Cached(k) = None
    BY DEF Cached, Init, Keys, StatelessKeys
  <2>2. \A c \in Callers : caller[c].pc = "idle"
    BY DEF Init, AtRest
  <2>3. \A c \in Callers : Given(c) = {}
    BY <2>2 DEF Given
  <2> QED
    BY <2>1, <2>2, <2>3 DEF ServedInv, Cache, Service!Init, Init
<1>2. LauncherInv /\ ServedInv /\ [Next]_vars => ServedInv' /\ [Service!Next]_(Service!vars)
  BY StepServes DEF ServiceKept
<1> QED
  BY <1>1, <1>2, LauncherInvariant, PTL DEF Spec, KeepsService, Service!Spec

=============================================================================
