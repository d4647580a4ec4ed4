---------------------------- MODULE GatewayProofs ----------------------------
(****************************************************************************)
(* What the front end guarantees, for any number of requests, agents,       *)
(* backends, tools, messages and cached servers.                            *)
(*                                                                          *)
(* RegistryInv: whoever discovers a backend's tools owns its lock, the      *)
(* backend is not registered, and a tool without its handler is the one     *)
(* that owner is storing.  NonceInv: the nonce of an accepted message is    *)
(* remembered for as long as its timestamp passes.  CacheInv and RequestInv *)
(* say that a server is made only from tools that will not change any more  *)
(* (Stable), which is what ServersComplete needs, and what the delegation   *)
(* store and the agent policies have said of an executor's request.         *)
(****************************************************************************)
EXTENDS Gateway, FiniteSetTheorems, TLAPS

\* The backend that p registers.
Target(p) == IF p \in Backends THEN p ELSE req[p].backend

Owning == {"recheck", "discover", "store"}

OwnerInv ==
  /\ \A p \in Processes : reg[p] \in Owning => owner[Target(p)] = p
  /\ \A p \in Processes : reg[p] \in {"discover", "store"} => ~registered[Target(p)]
  /\ \A p \in Processes : reg[p] = "done" => registered[Target(p)]

ToolInv ==
  /\ \A b \in Backends : half[b] # NoTool =>
       /\ owner[b] \in Processes /\ reg[owner[b]] = "store" /\ Target(owner[b]) = b
  /\ \A b \in Backends, t \in Tools : tools[b][t] = "described" => half[b] = t

\* Only a request that waits for its backend takes part in a registration.
PlaceInv ==
  /\ \A r \in Requests : reg[r] # "none" => req[r].pc = "register"
  /\ \A r \in Requests : req[r].pc = "register" => req[r].backend \in HTTPBackends
  /\ phase = "serving" => \A b \in Backends : reg[b] \in {"done", "failed"}

\* The tools of b will not change any more.
Stable(b) == registered[b] \/ (phase = "serving" /\ b \notin HTTPBackends)

Remembered(m) ==
  \/ now > m.ts + MaxAge
  \/ m.nonce \in DOMAIN nonces /\ nonces[m.nonce] >= m.ts + MaxAge

NonceInv ==
  /\ \A n \in DOMAIN nonces : nonces[n] \in Int
  /\ \A m \in used : Remembered(m)

KnownTools(b) == {t \in Tools : tools[b][t] # "absent"}
AgentView(b, who) == {t \in KnownTools(b) : CanUse(who, b, t)}
ExecutorView(b) == {t \in KnownTools(b) : DelegatedMay(b, t)}

\* What the two caches of servers hold.
View(b, who, how) == IF how = "delegation" THEN ExecutorView(b) ELSE AgentView(b, who)

CacheInv(cache, whose, how) ==
  /\ IsFiniteSet(DOMAIN cache) /\ Cardinality(DOMAIN cache) <= CacheSize
  /\ DOMAIN cache \subseteq Backends \X whose
  /\ \A k \in DOMAIN cache : Stable(k[1]) /\ cache[k].tools = View(k[1], k[2], how)

\* The delegation store lets no executor pass, and there are no policies to stop one.
Unasked == ~Enforced /\ ~live

ServerFits(x) ==
  \/ x.who = Executor /\ x.server = ExecutorView(x.backend)
  \/ (x.who = Executor => Unasked) /\ x.server = AgentView(x.backend, x.who)

\* What holds of a request that is at x.
RequestInv(x) ==
  /\ x.pc # "idle" => phase = "serving"
  /\ x.pc \notin {"idle", "answered"} => x.who \in Identities /\ x.backend \in Backends
  /\ x.pc \in {"headers", "nonce", "body", "record", "admit"} => x.msg \in Messages
  /\ x.pc \in {"nonce", "body", "record"} => x.msg.ts - MaxAge <= now
  /\ x.pc = "establish" => Stable(x.backend)
  /\ x.pc \in {"call", "authorize"} => x.server \in SUBSET Tools
  /\ x.server # NoServer => /\ x.backend \in Backends /\ Stable(x.backend)
                            /\ ServerFits(x)
  /\ x.who = Executor /\ x.pc \in {"guard", "backend"} => x.via = "delegation" \/ Unasked

\* The types that no other part implies.
Typed ==
  /\ RegistryTypeOK
  /\ config \in Configs
  /\ now \in 0 .. MaxTime
  /\ phase \in {"parallel", "sequential", "serving", "failed"}
  /\ req \in [Requests -> Request]

SideInv ==
  /\ NonceInv
  /\ used \subseteq Messages
  /\ live \in BOOLEAN
  /\ sessions \subseteq Identities /\ doomed \subseteq Identities
  /\ guards \in [Identities -> {"none", "open"}]
  /\ closing \in {"running", "marked", "guards", "closed"}

RegistryInv == OwnerInv /\ ToolInv /\ PlaceInv

GatewayInv ==
  /\ Typed
  /\ RegistryInv /\ SideInv
  /\ CacheInv(servers, Identities, "policy") /\ CacheInv(delegated, {Executor}, "delegation")
  /\ \A r \in Requests : RequestInv(req[r])

-------------------------------------------------------------------------------
\* Registration.

\* How registerToolsFromBackend goes on, by its three cases.
LEMMA VerdictIs ==
  ASSUME NEW b, NEW t, NEW goOn
  PROVE  /\ registered[b] => Verdict(b, t, goOn) = "done"
         /\ ~registered[b] /\ Deferred(b, t) => Verdict(b, t, goOn) = "failed"
         /\ ~registered[b] /\ ~Deferred(b, t) => Verdict(b, t, goOn) = goOn
BY DEF Verdict

\* A process has a backend to register whenever it takes part in a registration.
LEMMA TargetIsBackend ==
  ASSUME Typed, PlaceInv, NEW p \in Processes, reg[p] # "none"
  PROVE  Target(p) \in Backends
BY GatewayAssumption DEF Target, PlaceInv

RegistryKept == RegistryTypeOK /\ OwnerInv /\ ToolInv

\* What a step of ensureToolsRegistered does: the lock, the tools and the record of
\* success change only for the backend of the process that owns its lock.
LEMMA RegisterStepKeeps ==
  ASSUME Typed, RegistryInv, NEW p \in Processes, NEW b \in Backends, b = Target(p),
         reg[p] # "none", RegisterStep(p, b, now), UNCHANGED req
  PROVE  RegistryKept'
<1> USE RegistryAssumption
<1>1. \A q \in Processes : Target(q)' = Target(q)
  BY DEF Target
<1>2. CASE RegRead(p, b, now)
  <2>1. reg' = [reg EXCEPT ![p] = Verdict(b, now, "lock")]
    BY <1>2 DEF RegRead, RegGoto
  <2>2. /\ Verdict(b, now, "lock") \in {"done", "failed", "lock"}
        /\ Verdict(b, now, "lock") = "done" => registered[b]
    BY VerdictIs
  <2>3. RegistryTypeOK'
    BY <1>2, <2>1, <2>2 DEF RegRead, Typed, RegistryTypeOK, RegPCs
  <2>4. OwnerInv'
    BY <1>1, <1>2, <2>1, <2>2 DEF RegRead, Typed, RegistryTypeOK, RegistryInv, OwnerInv, Owning
  <2>5. ToolInv'
    BY <1>1, <1>2, <2>1, <2>2 DEF RegRead, Typed, RegistryTypeOK, RegistryInv, ToolInv
  <2> QED
    BY <2>3, <2>4, <2>5 DEF RegistryKept
<1>3. CASE RegLock(p, b)
  <2>1. RegistryTypeOK'
    BY <1>3 DEF RegLock, RegGoto, Typed, RegistryTypeOK, RegPCs
  <2>2. OwnerInv'
    BY <1>1, <1>3 DEF RegLock, RegGoto, Typed, RegistryTypeOK, RegistryInv, OwnerInv, Owning
  <2>3. ToolInv'
    BY <1>1, <1>3 DEF RegLock, RegGoto, Typed, RegistryTypeOK, RegistryInv, ToolInv
  <2> QED
    BY <2>1, <2>2, <2>3 DEF RegistryKept
<1>4. half[b] # NoTool /\ reg[p] \in Owning => reg[p] = "store"
  BY DEF RegistryInv, OwnerInv, ToolInv
<1>5. CASE RegRecheck(p, b, now)
  <2>1. /\ reg' = [reg EXCEPT ![p] = Verdict(b, now, "discover")]
        /\ owner' = [owner EXCEPT ![b] = IF Verdict(b, now, "discover") = "discover"
                                         THEN p ELSE NoProcess]
        /\ half[b] = NoTool /\ UNCHANGED <<tools, registered, retryAfter, todo, half>>
    BY <1>4, <1>5 DEF RegRecheck, RegGoto, Owning
  <2>2. /\ Verdict(b, now, "discover") \in {"done", "failed", "discover"}
        /\ Verdict(b, now, "discover") = "done" => registered[b]
        /\ Verdict(b, now, "discover") = "discover" => ~registered[b]
    BY VerdictIs
  <2>3. RegistryTypeOK'
    BY <2>1, <2>2 DEF Typed, RegistryTypeOK, RegPCs
  <2>4. OwnerInv'
    BY <1>1, <1>5, <2>1, <2>2 DEF RegRecheck, Typed, RegistryTypeOK, RegistryInv, OwnerInv, Owning
  <2>5. ToolInv'
    BY <1>1, <2>1, <2>2 DEF Typed, RegistryTypeOK, RegistryInv, OwnerInv, ToolInv, Owning
  <2> QED
    BY <2>3, <2>4, <2>5 DEF RegistryKept
<1>6. ASSUME NEW how \in {"failed", "fatal"}, reg[p] = "discover", RegFail(p, b, now, how)
      PROVE  RegistryKept'
  <2>1. RegistryTypeOK'
    BY <1>6 DEF RegFail, RegGoto, Typed, RegistryTypeOK, RegPCs
  <2>2. OwnerInv'
    BY <1>1, <1>6 DEF RegFail, RegGoto, Typed, RegistryTypeOK, RegistryInv, OwnerInv, Owning
  <2>3. ToolInv'
    BY <1>1, <1>4, <1>6 DEF RegFail, RegGoto, Typed, RegistryTypeOK, RegistryInv, ToolInv, Owning
  <2> QED
    BY <2>1, <2>2, <2>3 DEF RegistryKept
<1>7. CASE RegUnavailable(p, b, now)
  BY <1>6, <1>7 DEF RegUnavailable
<1>8. CASE RegDiscover(p, b, now)
  <2>1. PICK advertised \in Advertised[b] :
          \/ /\ todo' = [todo EXCEPT ![b] = advertised \cap Allowed[b]]
             /\ reg' = [reg EXCEPT ![p] = "store"]
             /\ UNCHANGED <<tools, registered, retryAfter, owner, half>>
          \/ RegFail(p, b, now, "fatal")
    BY <1>8 DEF RegDiscover, RegGoto
  <2>2. CASE RegFail(p, b, now, "fatal")
    BY <1>6, <1>8, <2>2 DEF RegDiscover
  <2>3. CASE /\ todo' = [todo EXCEPT ![b] = advertised \cap Allowed[b]]
             /\ reg' = [reg EXCEPT ![p] = "store"]
             /\ UNCHANGED <<tools, registered, retryAfter, owner, half>>
    <3>1. RegistryTypeOK'
      BY <2>3 DEF Typed, RegistryTypeOK, RegPCs
    <3>2. OwnerInv'
      BY <1>1, <1>8, <2>3 DEF RegDiscover, Typed, RegistryTypeOK, RegistryInv, OwnerInv, Owning
    <3>3. ToolInv'
      BY <1>1, <2>3 DEF Typed, RegistryTypeOK, RegistryInv, ToolInv
    <3> QED
      BY <3>1, <3>2, <3>3 DEF RegistryKept
  <2> QED
    BY <2>1, <2>2, <2>3
<1>9. CASE StoreDescription(p, b)
  <2>1. PICK t \in todo[b] :
          /\ tools' = [tools EXCEPT ![b][t] = "described"]
          /\ half' = [half EXCEPT ![b] = t]
          /\ todo' = [todo EXCEPT ![b] = @ \ {t}]
    BY <1>9 DEF StoreDescription
  <2>2. /\ reg[p] = "store" /\ half[b] = NoTool /\ t \in Tools
        /\ UNCHANGED <<registered, retryAfter, owner, reg>>
    BY <1>9 DEF StoreDescription, Typed, RegistryTypeOK
  <2>3. RegistryTypeOK'
    BY <2>1, <2>2 DEF Typed, RegistryTypeOK
  <2>4. OwnerInv'
    BY <1>1, <2>2 DEF RegistryInv, OwnerInv
  <2>5. ToolInv'
    BY <1>1, <2>1, <2>2 DEF Typed, RegistryTypeOK, RegistryInv, OwnerInv, ToolInv, Owning
  <2> QED
    BY <2>3, <2>4, <2>5 DEF RegistryKept
<1>10. CASE StoreHandler(p, b)
  <2>1. RegistryTypeOK'
    BY <1>10 DEF StoreHandler, Typed, RegistryTypeOK
  <2>2. OwnerInv'
    BY <1>1, <1>10 DEF StoreHandler, RegistryInv, OwnerInv
  <2>3. ToolInv'
    BY <1>1, <1>10 DEF StoreHandler, Typed, RegistryTypeOK, RegistryInv, ToolInv
  <2> QED
    BY <2>1, <2>2, <2>3 DEF RegistryKept
<1>11. CASE RegFinish(p, b)
  <2>1. RegistryTypeOK'
    BY <1>11 DEF RegFinish, RegGoto, Typed, RegistryTypeOK, RegPCs
  <2>2. OwnerInv'
    BY <1>1, <1>11 DEF RegFinish, RegGoto, Typed, RegistryTypeOK, RegistryInv, OwnerInv, Owning
  <2>3. ToolInv'
    BY <1>1, <1>11 DEF RegFinish, RegGoto, Typed, RegistryTypeOK, RegistryInv, ToolInv
  <2> QED
    BY <2>1, <2>2, <2>3 DEF RegistryKept
<1> QED
  BY <1>2, <1>3, <1>5, <1>7, <1>8, <1>9, <1>10, <1>11 DEF RegisterStep

\* Nobody stores tools of a backend that is registered, or that only the startup
\* registers once that is over.
LEMMA RegisterStepCalm ==
  ASSUME Typed, RegistryInv, NEW p \in Processes, NEW b \in Backends, b = Target(p),
         reg[p] # "none", RegisterStep(p, b, now), UNCHANGED <<req, phase>>
  PROVE  /\ \A c \in Backends : Stable(c) => Stable(c)' /\ tools'[c] = tools[c]
         /\ \A c \in Backends : registered[c] => registered'[c] /\ tools'[c] = tools[c]
         /\ PlaceInv'
<1>1. \A c \in Backends : c # b => registered'[c] = registered[c] /\ tools'[c] = tools[c]
  BY DEF RegisterStep, RegRead, RegLock, RegRecheck, RegUnavailable, RegDiscover, RegFail,
         StoreDescription, StoreHandler, RegFinish, Typed, RegistryTypeOK
<1>2. registered[b] => registered'[b] /\ tools'[b] = tools[b]
  BY DEF RegisterStep, RegRead, RegLock, RegRecheck, RegUnavailable, RegDiscover, RegFail,
         StoreDescription, StoreHandler, RegFinish, Typed, RegistryTypeOK,
         RegistryInv, OwnerInv
<1>3. reg[p] \notin {"done", "failed"}
  BY DEF RegisterStep, RegRead, RegLock, RegRecheck, RegUnavailable, RegDiscover,
         StoreDescription, StoreHandler, RegFinish
<1>4. phase = "serving" => p \in Requests /\ b \in HTTPBackends
  BY <1>3, GatewayAssumption DEF RegistryInv, PlaceInv, Target
<1>5. \A q \in Processes : q # p => reg'[q] = reg[q]
  BY DEF RegisterStep, RegRead, RegLock, RegRecheck, RegUnavailable, RegDiscover, RegFail,
         StoreDescription, StoreHandler, RegFinish, RegGoto, Typed, RegistryTypeOK
<1>6. PlaceInv'
  BY <1>4, <1>5, GatewayAssumption DEF RegistryInv, PlaceInv
<1> QED
  BY <1>1, <1>2, <1>4, <1>6 DEF Stable

-------------------------------------------------------------------------------
\* Nonces.

\* Evicting what has expired forgets no message whose timestamp still passes.
LEMMA EvictKeeps ==
  ASSUME NonceInv, now \in Int, used \subseteq Messages, UNCHANGED <<now, used>>,
         nonces' = EvictExpired(nonces)
  PROVE  NonceInv'
<1>1. /\ DOMAIN nonces' = {n \in DOMAIN nonces : now <= nonces[n]}
      /\ \A n \in DOMAIN nonces' : nonces'[n] = nonces[n]
  BY DEF EvictExpired
<1>2. ASSUME NEW m \in used PROVE Remembered(m)'
  BY <1>1, <1>2, SigningAssumption DEF NonceInv, Remembered
<1> QED
  BY <1>1, <1>2 DEF NonceInv

\* A message that is fresh and was accepted before is in the cache.
LEMMA UsedIsSeen ==
  ASSUME NonceInv, now \in Int, NEW m \in used, m \in Messages, Fresh(m)
  PROVE  Seen(m)
<1>1. m.ts \in Int /\ MaxAge \in Int
  BY SigningAssumption
<1>2. now <= m.ts + MaxAge
  BY <1>1 DEF Fresh
<1>3. m.nonce \in DOMAIN nonces /\ nonces[m.nonce] >= m.ts + MaxAge
  BY <1>1, <1>2 DEF NonceInv, Remembered
<1>4. nonces[m.nonce] \in Int
  BY <1>3 DEF NonceInv
<1> QED
  BY <1>1, <1>2, <1>3, <1>4 DEF Seen, EvictExpired

\* A nonce recorded now outlives the timestamp of its message.
LEMMA RecordKeeps ==
  ASSUME NonceInv, now \in Int, used \subseteq Messages, NEW m \in Messages,
         m.ts - MaxAge <= now, CheckAndSet(m), now' = now,
         used' = IF Seen(m) THEN used ELSE used \cup {m}
  PROVE  NonceInv'
<1>1. CASE Seen(m)
  BY <1>1, EvictKeeps DEF CheckAndSet
<1>2. CASE ~Seen(m)
  <2>1. /\ nonces' = Recorded(EvictExpired(nonces), m)
        /\ used' = used \cup {m}
    BY <1>2 DEF CheckAndSet
  <2>2. /\ \A n \in DOMAIN nonces' : n # m.nonce =>
             n \in DOMAIN nonces /\ now <= nonces[n] /\ nonces'[n] = nonces[n]
        /\ m.nonce \in DOMAIN nonces' /\ nonces'[m.nonce] = now + 2 * MaxAge
        /\ \A n \in DOMAIN nonces : n # m.nonce /\ now <= nonces[n] => n \in DOMAIN nonces'
    BY <2>1 DEF Recorded, EvictExpired, NonceTTL
  <2>3. m.nonce \in DOMAIN nonces => ~(now <= nonces[m.nonce])
    BY <1>2 DEF Seen, EvictExpired
  <2>4. \A n \in DOMAIN nonces' : nonces'[n] \in Int
    BY <2>2, SigningAssumption DEF NonceInv
  <2>5. ASSUME NEW k \in used' PROVE Remembered(k)'
    <3>1. k.ts \in Int /\ m.ts \in Int /\ MaxAge \in Int
      BY <2>1, <2>5, SigningAssumption
    <3>2. CASE k = m
      BY <2>2, <3>1, <3>2 DEF Remembered
    <3>3. CASE k # m
      <4>1. Remembered(k)
        BY <2>1, <2>5, <3>3 DEF NonceInv
      <4>2. CASE now > k.ts + MaxAge
        BY <4>2 DEF Remembered
      <4>3. CASE k.nonce \in DOMAIN nonces /\ nonces[k.nonce] >= k.ts + MaxAge
        <5>1. nonces[k.nonce] \in Int
          BY <4>3 DEF NonceInv
        <5> QED
          BY <2>2, <2>3, <3>1, <4>3, <5>1 DEF Remembered
      <4> QED
        BY <4>1, <4>2, <4>3 DEF Remembered
    <3> QED
      BY <3>2, <3>3
  <2> QED
    BY <2>4, <2>5 DEF NonceInv
<1> QED
  BY <1>1, <1>2

-------------------------------------------------------------------------------
\* What stays true of servers and requests that a step leaves alone.

\* Tools that are stable stay as they are, time goes on, the gateway keeps serving by
\* its configuration, and no executor comes back to life.
Calm ==
  /\ \A b \in Backends : Stable(b) => Stable(b)' /\ tools'[b] = tools[b]
  /\ now <= now' /\ now' \in 0 .. MaxTime
  /\ phase = "serving" => phase' = "serving"
  /\ config' = config /\ (~live => ~live')

\* A step that leaves the registry and the clock alone is calm.
LEMMA UnchangedIsCalm ==
  ASSUME Typed, UNCHANGED <<now, config, live, phase, tools, registered>>
  PROVE  Calm
BY SigningAssumption DEF Typed, Calm, Stable

\* What a client sees of a backend whose tools no longer change.
LEMMA ViewStays ==
  ASSUME Calm, NEW b \in Backends, NEW who, Stable(b)
  PROVE  /\ AgentView(b, who)' = AgentView(b, who) /\ ExecutorView(b)' = ExecutorView(b)
         /\ \A how : View(b, who, how)' = View(b, who, how)
<1>1. /\ KnownTools(b)' = KnownTools(b)
      /\ \A t : CanUse(who, b, t)' = CanUse(who, b, t)
  BY DEF Calm, KnownTools, CanUse, Enforced, Policies
<1>2. AgentView(b, who)' = AgentView(b, who) /\ ExecutorView(b)' = ExecutorView(b)
  BY <1>1 DEF AgentView, ExecutorView
<1> QED
  BY <1>2 DEF View

\* A cache that fits before a calm step fits after it.
LEMMA CacheStays ==
  ASSUME Calm, NEW whose, NEW how, NEW cache, CacheInv(cache, whose, how)
  PROVE  /\ servers' = cache => CacheInv(servers, whose, how)'
         /\ delegated' = cache => CacheInv(delegated, whose, how)'
<1>1. ASSUME NEW k \in DOMAIN cache
      PROVE  Stable(k[1])' /\ cache[k].tools = View(k[1], k[2], how)'
  <2>1. k[1] \in Backends /\ Stable(k[1]) /\ cache[k].tools = View(k[1], k[2], how)
    BY DEF CacheInv
  <2> QED
    BY <2>1, ViewStays DEF Calm
<1>2. servers' = cache => CacheInv(servers, whose, how)'
  BY <1>1 DEF CacheInv
<1>3. delegated' = cache => CacheInv(delegated, whose, how)'
  BY <1>1 DEF CacheInv
<1> QED
  BY <1>2, <1>3

\* A request that is at x after a calm step, if x fits before it.
LEMMA RequestStays ==
  ASSUME Typed, Calm, NEW r \in Requests, NEW x \in Request, RequestInv(x), req'[r] = x
  PROVE  RequestInv(req[r])'
<1>1. x.pc \in {"nonce", "body", "record"} => x.msg.ts - MaxAge <= now'
  <2> SUFFICES ASSUME x.pc \in {"nonce", "body", "record"} PROVE x.msg.ts - MaxAge <= now'
    OBVIOUS
  <2>1. x.msg \in Messages /\ x.msg.ts - MaxAge <= now
    BY DEF RequestInv
  <2>2. x.msg.ts \in Int /\ MaxAge \in Int /\ now \in Int /\ now' \in Int
    BY <2>1, SigningAssumption DEF Typed, Calm
  <2> QED
    BY <2>1, <2>2 DEF Calm
<1>2. x.pc = "establish" => Stable(x.backend)'
  BY DEF RequestInv, Calm
<1>3. x.server # NoServer => /\ x.backend \in Backends /\ Stable(x.backend)'
                             /\ ServerFits(x)'
  <2>1. Unasked => Unasked'
    BY DEF Calm, Unasked, Enforced, Policies
  <2> QED
    BY <2>1, ViewStays DEF RequestInv, Calm, ServerFits
<1>4. x.who = Executor /\ x.pc \in {"guard", "backend"} => x.via = "delegation" \/ Unasked'
  BY DEF RequestInv, Calm, Unasked, Enforced, Policies
<1> QED
  BY <1>1, <1>2, <1>3, <1>4 DEF RequestInv, Calm, ServerFits, Unasked

\* One request moves, outside the registration.
LEMMA MoveKeeps ==
  ASSUME GatewayInv, NEW r \in Requests, NEW x \in Request, RequestInv(x),
         req' = [req EXCEPT ![r] = x], req[r].pc # "register", x.pc # "register",
         UNCHANGED <<now, config, live, registryVars, phase>>, SideInv',
         CacheInv(servers, Identities, "policy")', CacheInv(delegated, {Executor}, "delegation")'
  PROVE  GatewayInv'
<1>1. Typed'
  BY DEF GatewayInv, Typed, registryVars, RegistryTypeOK
<1>2. Calm
  BY UnchangedIsCalm DEF GatewayInv, registryVars
<1>3. reg[r] = "none" /\ \A q \in Requests : q # r => req'[q] = req[q]
  BY DEF GatewayInv, RegistryInv, PlaceInv, Typed
<1>4. \A p \in Processes : reg[p] # "none" => Target(p)' = Target(p)
  BY <1>3, GatewayAssumption DEF Target
<1>5. RegistryInv'
  <2>1. OwnerInv'
    BY <1>4 DEF GatewayInv, RegistryInv, OwnerInv, registryVars, Owning
  <2>2. ToolInv'
    BY <1>4 DEF GatewayInv, RegistryInv, ToolInv, registryVars
  <2>3. PlaceInv'
    BY <1>3 DEF GatewayInv, RegistryInv, PlaceInv, registryVars, Typed
  <2> QED
    BY <2>1, <2>2, <2>3 DEF RegistryInv
<1>6. ASSUME NEW q \in Requests PROVE RequestInv(req[q])'
  BY <1>2, RequestStays DEF GatewayInv, Typed
<1> QED
  BY <1>1, <1>5, <1>6 DEF GatewayInv

\* The variables that most steps of a request leave alone.
Aside == <<nonces, used, sessions, guards, closing, doomed>>

\* The signing state is kept by a step elsewhere.
LEMMA AsideKeeps ==
  ASSUME GatewayInv, UNCHANGED <<now, live, Aside>>
  PROVE  SideInv'
BY DEF GatewayInv, SideInv, NonceInv, Remembered, Aside

\* The server caches are kept by a step elsewhere.
LEMMA CachesKeep ==
  ASSUME GatewayInv, UNCHANGED <<now, config, live, registryVars, phase, servers, delegated>>
  PROVE  CacheInv(servers, Identities, "policy")' /\ CacheInv(delegated, {Executor}, "delegation")'
BY UnchangedIsCalm, CacheStays DEF GatewayInv, registryVars

\* A request that has not begun, or is over, is a request.
LEMMA IdleIsRequest == Idle \in Request /\ [Idle EXCEPT !.pc = "answered"] \in Request
BY DEF Idle, Request

\* A request is answered.
LEMMA AnswerKeeps ==
  ASSUME GatewayInv, NEW r \in Requests, Answer(r), phase = "serving", req[r].pc # "register",
         UNCHANGED <<now, config, live, registryVars, phase, servers, delegated>>, SideInv'
  PROVE  GatewayInv'
<1> DEFINE x == [Idle EXCEPT !.pc = "answered"]
<1>1. x \in Request
  BY IdleIsRequest
<1>2. x.pc = "answered" /\ x.server = NoServer
  BY DEF Idle
<1>3. RequestInv(x)
  BY <1>2 DEF RequestInv
<1>4. req' = [req EXCEPT ![r] = x]
  BY DEF Answer
<1> HIDE DEF x
<1> QED
  BY <1>1, <1>2, <1>3, <1>4, MoveKeeps, CachesKeep

\* What holds of a request under way.
LEMMA UnderWay ==
  ASSUME GatewayInv, NEW r \in Requests
  PROVE  /\ req[r] \in Request /\ RequestInv(req[r])
         /\ req[r].pc # "idle" => phase = "serving"
BY DEF GatewayInv, Typed, RequestInv

\* A request goes on to the next place, which asks no more of it than this one.
LEMMA GotoKeeps ==
  ASSUME GatewayInv, NEW r \in Requests, NEW place, Goto(r, place),
         [req[r] EXCEPT !.pc = place] \in Request,
         RequestInv([req[r] EXCEPT !.pc = place]),
         req[r].pc # "register", place # "register",
         UNCHANGED <<now, config, live, registryVars, phase, servers, delegated>>, SideInv'
  PROVE  GatewayInv'
<1> DEFINE x == [req[r] EXCEPT !.pc = place]
<1>1. req' = [req EXCEPT ![r] = x] /\ x.pc = place
  BY UnderWay DEF Goto, GatewayInv, Typed, Request
<1>2. x \in Request /\ RequestInv(x)
  OBVIOUS
<1> HIDE DEF x
<1> QED
  BY <1>1, <1>2, MoveKeeps, CachesKeep

-------------------------------------------------------------------------------
\* The middleware chain.

\* A request arrives.
LEMMA ArriveKeeps ==
  ASSUME GatewayInv, NEW r \in Requests, Arrive(r), UNCHANGED config
  PROVE  GatewayInv'
<1>1. PICK who \in Identities \cup BadCredentials, b \in Backends, m \in Messages :
        req' = [req EXCEPT ![r] =
                  IF Authenticated(who)
                  THEN [Idle EXCEPT !.pc = FirstCheck, !.who = who, !.backend = b, !.msg = m]
                  ELSE [Idle EXCEPT !.pc = "answered"]]
  BY DEF Arrive
<1>2. CASE Authenticated(who)
  <2> DEFINE x == [Idle EXCEPT !.pc = FirstCheck, !.who = who, !.backend = b, !.msg = m]
  <2>1. who \in Identities
    BY <1>2, GatewayAssumption DEF Authenticated, Identities, GatewayInv, Typed
  <2>2. x \in Request
    BY <2>1, IdleIsRequest DEF Request, FirstCheck
  <2>3. /\ x.pc \in {"headers", "admit"} /\ x.server = NoServer
        /\ x.who = who /\ x.backend = b /\ x.msg = m
    BY DEF Idle, FirstCheck
  <2>4. RequestInv(x)
    BY <2>1, <2>3 DEF RequestInv, Arrive
  <2>5. req' = [req EXCEPT ![r] = x]
    BY <1>1, <1>2
  <2>6. UNCHANGED <<now, config, live, registryVars, phase, servers, delegated>> /\ UNCHANGED Aside
        /\ req[r].pc = "idle"
    BY DEF Arrive, Aside, At
  <2> HIDE DEF x
  <2> QED
    BY <2>2, <2>3, <2>4, <2>5, <2>6, MoveKeeps, AsideKeeps, CachesKeep
<1>3. CASE ~Authenticated(who)
  <2>1. Answer(r) /\ phase = "serving" /\ req[r].pc = "idle" /\ UNCHANGED Aside
        /\ UNCHANGED <<now, config, live, registryVars, phase, servers, delegated>>
    BY <1>1, <1>3 DEF Arrive, Answer, Aside, At
  <2> QED
    BY <2>1, AnswerKeeps, AsideKeeps
<1> QED
  BY <1>2, <1>3

\* The timestamp of the request passes, or not.
LEMMA CheckTimestampKeeps ==
  ASSUME GatewayInv, NEW r \in Requests, CheckTimestamp(r), UNCHANGED config
  PROVE  GatewayInv'
<1>1. /\ req[r].pc = "headers" /\ UNCHANGED Aside
      /\ UNCHANGED <<now, config, live, registryVars, phase, servers, delegated>>
  BY DEF CheckTimestamp, At, Aside
<1>2. req[r] \in Request /\ req[r].msg \in Messages /\ phase = "serving"
  BY <1>1, UnderWay DEF RequestInv, ServerFits
<1>3. CASE Fresh(req[r].msg)
  <2> DEFINE x == [req[r] EXCEPT !.pc = "nonce"]
  <2>1. x \in Request
    BY <1>2 DEF Request
  <2>2. /\ x.pc = "nonce" /\ x.who = req[r].who /\ x.backend = req[r].backend
        /\ x.msg = req[r].msg /\ x.server = req[r].server
    BY <1>2 DEF Request
  <2>3. req[r].msg.ts - MaxAge <= now
    <3>1. now \in Int
      BY SigningAssumption DEF GatewayInv, Typed
    <3> QED
      BY <1>2, <1>3, <3>1, SigningAssumption DEF Fresh
  <2>4. RequestInv(x)
    BY <1>1, <1>2, <2>2, <2>3, UnderWay DEF RequestInv, ServerFits
  <2>5. Goto(r, "nonce")
    BY <1>3 DEF CheckTimestamp
  <2> HIDE DEF x
  <2> QED
    BY <1>1, <2>1, <2>4, <2>5, GotoKeeps, AsideKeeps DEF x
<1>4. CASE ~Fresh(req[r].msg)
  BY <1>1, <1>2, <1>4, AnswerKeeps, AsideKeeps DEF CheckTimestamp
<1> QED
  BY <1>3, <1>4

\* The nonce is looked for, by a later clock.
LEMMA CheckNonceKeeps ==
  ASSUME GatewayInv, NEW r \in Requests, CheckNonce(r), UNCHANGED config
  PROVE  GatewayInv'
<1>1. /\ req[r].pc = "nonce" /\ UNCHANGED <<used, sessions, guards, closing, doomed>>
      /\ UNCHANGED <<now, config, live, registryVars, phase, servers, delegated>>
  BY DEF CheckNonce, At
<1>2. req[r] \in Request /\ req[r].msg \in Messages /\ phase = "serving"
  BY <1>1, UnderWay DEF RequestInv, ServerFits
<1>3. now \in Int /\ used \subseteq Messages /\ NonceInv
  BY SigningAssumption DEF GatewayInv, Typed, SideInv
<1>4. NonceInv'
  BY <1>1, <1>3, EvictKeeps DEF CheckNonce, SeenNonce
<1>5. SideInv'
  BY <1>1, <1>4 DEF GatewayInv, SideInv
<1>6. CASE Goto(r, "body")
  <2> DEFINE x == [req[r] EXCEPT !.pc = "body"]
  <2>1. x \in Request
    BY <1>2 DEF Request
  <2>2. /\ x.pc = "body" /\ x.who = req[r].who /\ x.backend = req[r].backend
        /\ x.msg = req[r].msg /\ x.server = req[r].server
    BY <1>2 DEF Request
  <2>3. RequestInv(x)
    BY <1>1, <1>2, <2>2, UnderWay DEF RequestInv, ServerFits
  <2> HIDE DEF x
  <2> QED
    BY <1>1, <1>5, <1>6, <2>1, <2>3, GotoKeeps DEF x
<1>7. CASE Answer(r)
  BY <1>1, <1>2, <1>5, <1>7, AnswerKeeps
<1> QED
  BY <1>6, <1>7 DEF CheckNonce

\* The signature is verified, before the nonce is recorded.
LEMMA VerifySignatureKeeps ==
  ASSUME GatewayInv, NEW r \in Requests, VerifySignature(r), UNCHANGED config
  PROVE  GatewayInv'
<1>1. /\ req[r].pc = "body" /\ UNCHANGED <<now, config, live, registryVars, phase, servers, delegated>>
      /\ UNCHANGED Aside /\ phase = "serving"
  BY UnderWay DEF VerifySignature, At, Aside
<1>2. CASE Goto(r, "record")
  <2> DEFINE x == [req[r] EXCEPT !.pc = "record"]
  <2>1. x \in Request
    BY UnderWay DEF Request
  <2>2. /\ x.pc = "record" /\ x.who = req[r].who
        /\ x.backend = req[r].backend /\ x.msg = req[r].msg /\ x.server = req[r].server
    BY UnderWay DEF Request
  <2>3. RequestInv(x)
    BY <1>1, <2>2, UnderWay DEF RequestInv, ServerFits
  <2> HIDE DEF x
  <2> QED
    BY <1>1, <1>2, <2>1, <2>3, GotoKeeps, AsideKeeps DEF x
<1>3. CASE Answer(r)
  BY <1>1, <1>3, AnswerKeeps, AsideKeeps
<1> QED
  BY <1>2, <1>3 DEF VerifySignature

\* CheckAndSet records the nonce, or refuses it.
LEMMA RecordNonceKeeps ==
  ASSUME GatewayInv, NEW r \in Requests, RecordNonce(r), UNCHANGED config
  PROVE  GatewayInv'
<1>1. req[r].pc = "record" /\ UNCHANGED <<now, config, live, registryVars, phase, servers, delegated>>
      /\ UNCHANGED <<sessions, guards, closing, doomed>>
  BY DEF RecordNonce, At
<1>2. /\ req[r] \in Request /\ req[r].msg \in Messages /\ phase = "serving"
      /\ req[r].msg.ts - MaxAge <= now
  BY <1>1, UnderWay DEF RequestInv, ServerFits
<1>3. now \in Int /\ used \subseteq Messages /\ NonceInv
  BY SigningAssumption DEF GatewayInv, Typed, SideInv
<1>4. used' = (IF Seen(req[r].msg) THEN used ELSE used \cup {req[r].msg})
      /\ CheckAndSet(req[r].msg)
  BY DEF RecordNonce
<1>5. NonceInv'
  BY <1>1, <1>2, <1>3, <1>4, RecordKeeps
<1>6. SideInv'
  BY <1>1, <1>2, <1>4, <1>5 DEF GatewayInv, SideInv
<1>7. CASE Seen(req[r].msg)
  BY <1>1, <1>2, <1>6, <1>7, AnswerKeeps DEF RecordNonce
<1>8. CASE ~Seen(req[r].msg)
  <2> DEFINE x == [req[r] EXCEPT !.pc = "admit"]
  <2>1. x \in Request
    BY UnderWay DEF Request
  <2>2. /\ x.pc = "admit" /\ x.who = req[r].who
        /\ x.backend = req[r].backend /\ x.msg = req[r].msg /\ x.server = req[r].server
    BY UnderWay DEF Request
  <2>3. RequestInv(x)
    BY <1>1, <2>2, UnderWay DEF RequestInv, ServerFits
  <2>4. Goto(r, "admit")
    BY <1>8 DEF RecordNonce
  <2> HIDE DEF x
  <2> QED
    BY <1>1, <1>6, <2>1, <2>3, <2>4, GotoKeeps DEF x
<1> QED
  BY <1>7, <1>8

\* A request moves into the registration of its backend, or out of it.
LEMMA RegistryMoveKeeps ==
  ASSUME GatewayInv, NEW r \in Requests, NEW x \in Request, RequestInv(x),
         NEW to \in {"none", "read"}, RegGoto(r, to), req' = [req EXCEPT ![r] = x],
         to = "read" => x.pc = "register" /\ x.backend \in HTTPBackends,
         to = "none" => x.pc # "register",
         reg[r] \in {"none", "done", "failed", "fatal"},
         UNCHANGED <<now, config, live, tools, registered, retryAfter, owner, todo, half>>,
         UNCHANGED <<phase, servers, delegated>>, UNCHANGED Aside
  PROVE  GatewayInv'
<1>1. RegistryTypeOK'
  BY DEF GatewayInv, Typed, RegistryTypeOK, RegGoto, RegPCs
<1>2. Typed'
  BY <1>1 DEF GatewayInv, Typed
<1>3. Calm
  BY UnchangedIsCalm DEF GatewayInv
<1>4. reg'[r] = to /\ (\A p \in Processes : p # r => reg'[p] = reg[p])
      /\ (\A q \in Requests : q # r => req'[q] = req[q]) /\ req'[r] = x
  BY GatewayAssumption DEF RegGoto, GatewayInv, Typed, RegistryTypeOK
<1>5. \A p \in Processes : p # r => Target(p)' = Target(p)
  BY <1>4, GatewayAssumption DEF Target
<1>6. OwnerInv'
  BY <1>4, <1>5 DEF GatewayInv, RegistryInv, OwnerInv, Owning
<1>7. ToolInv'
  BY <1>4, <1>5 DEF GatewayInv, RegistryInv, ToolInv
<1>8. PlaceInv'
  BY <1>4, GatewayAssumption DEF GatewayInv, RegistryInv, PlaceInv
<1>9. ASSUME NEW q \in Requests PROVE RequestInv(req[q])'
  BY <1>3, <1>4, RequestStays DEF GatewayInv, Typed
<1>10. CacheInv(servers, Identities, "policy")' /\ CacheInv(delegated, {Executor}, "delegation")'
  BY <1>3, CacheStays DEF GatewayInv
<1> QED
  BY <1>2, <1>6, <1>7, <1>8, <1>9, <1>10, AsideKeeps DEF GatewayInv, RegistryInv

\* The request passes the shutdown gate and the limits of an executor.
LEMMA AdmitKeeps ==
  ASSUME GatewayInv, NEW r \in Requests, Admit(r), UNCHANGED config
  PROVE  GatewayInv'
<1>1. /\ req[r].pc = "admit" /\ phase = "serving" /\ UNCHANGED Aside
      /\ UNCHANGED <<now, config, live, tools, registered, retryAfter, owner, todo, half>>
      /\ UNCHANGED <<phase, servers, delegated>>
  BY UnderWay DEF Admit, At, Aside
<1>2. reg[r] = "none"
  BY <1>1 DEF GatewayInv, RegistryInv, PlaceInv
<1>3. CASE Answer(r) /\ UNCHANGED reg
  BY <1>1, <1>3, AnswerKeeps, AsideKeeps DEF registryVars
<1> DEFINE to(place) == [req[r] EXCEPT !.pc = place, !.msg = NoServer]
<1>4. ASSUME NEW place \in {"register", "establish"},
             place = "establish" => req[r].backend \notin HTTPBackends
      PROVE  to(place) \in Request /\ RequestInv(to(place)) /\ to(place).pc = place
             /\ to(place).backend = req[r].backend
  <2>1. to(place) \in Request
    BY UnderWay DEF Request
  <2>2. /\ to(place).pc = place /\ to(place).who = req[r].who
        /\ to(place).backend = req[r].backend /\ to(place).server = req[r].server
    BY UnderWay DEF Request
  <2>3. place = "establish" => Stable(req[r].backend)
    BY <1>1, <1>4 DEF Stable
  <2>4. RequestInv(to(place))
    BY <1>1, <2>2, <2>3, UnderWay DEF RequestInv, ServerFits
  <2> QED
    BY <2>1, <2>2, <2>4
<1>5. CASE req[r].backend \in HTTPBackends /\ req' = [req EXCEPT ![r] = to("register")]
           /\ RegGoto(r, "read")
  BY <1>1, <1>2, <1>4, <1>5, RegistryMoveKeeps
<1>6. CASE req[r].backend \notin HTTPBackends /\ req' = [req EXCEPT ![r] = to("establish")]
           /\ UNCHANGED reg
  BY <1>1, <1>4, <1>6, MoveKeeps, AsideKeeps, CachesKeep DEF registryVars
<1>7. \/ Answer(r) /\ UNCHANGED reg
      \/ req[r].backend \in HTTPBackends /\ req' = [req EXCEPT ![r] = to("register")]
           /\ RegGoto(r, "read")
      \/ req[r].backend \notin HTTPBackends /\ req' = [req EXCEPT ![r] = to("establish")]
           /\ UNCHANGED reg
  BY DEF Admit, GatewayInv, Typed
<1> QED
  BY <1>3, <1>5, <1>6, <1>7

\* A step of ensureToolsRegistered, at startup or for a request.
LEMMA RegistrationKeeps ==
  ASSUME GatewayInv, NEW p \in Processes, NEW b \in Backends, b = Target(p), reg[p] # "none",
         RegisterStep(p, b, now), UNCHANGED <<now, nonces, config, frontVars>>
  PROVE  GatewayInv'
<1>1. RegistryKept' /\ PlaceInv'
      /\ (\A c \in Backends : Stable(c) => Stable(c)' /\ tools'[c] = tools[c])
  BY RegisterStepKeeps, RegisterStepCalm DEF GatewayInv, frontVars
<1>2. Calm
  BY <1>1, SigningAssumption DEF Calm, GatewayInv, Typed, frontVars
<1>3. Typed'
  BY <1>1 DEF GatewayInv, Typed, RegistryKept, frontVars
<1>4. SideInv'
  BY AsideKeeps DEF Aside, frontVars
<1>5. CacheInv(servers, Identities, "policy")' /\ CacheInv(delegated, {Executor}, "delegation")'
  BY <1>2, CacheStays DEF GatewayInv, frontVars
<1>6. ASSUME NEW r \in Requests PROVE RequestInv(req[r])'
  BY <1>2, RequestStays DEF GatewayInv, Typed, frontVars
<1> QED
  BY <1>1, <1>3, <1>4, <1>5, <1>6 DEF GatewayInv, RegistryInv, RegistryKept

\* A registration of tools ends.
LEMMA RegistrationEndsKeeps ==
  ASSUME GatewayInv, NEW r \in Requests, RegistrationEnds(r), UNCHANGED config
  PROVE  GatewayInv'
<1>1. /\ req[r].pc = "register" /\ phase = "serving" /\ UNCHANGED Aside
      /\ reg[r] \in {"done", "failed", "fatal"} /\ RegGoto(r, "none")
      /\ UNCHANGED <<now, config, live, tools, registered, retryAfter, owner, todo, half>>
      /\ UNCHANGED <<phase, servers, delegated>>
  BY UnderWay DEF RegistrationEnds, At, Aside
<1>2. CASE reg[r] = "done"
  <2> DEFINE x == [req[r] EXCEPT !.pc = "establish"]
  <2>1. x \in Request
    BY UnderWay DEF Request
  <2>2. /\ x.pc = "establish" /\ x.who = req[r].who
        /\ x.backend = req[r].backend /\ x.server = req[r].server
    BY UnderWay DEF Request
  <2>3. Target(r) = req[r].backend
    BY GatewayAssumption DEF Target
  <2>4. Stable(req[r].backend)
    BY <1>2, <2>3, GatewayAssumption DEF GatewayInv, RegistryInv, OwnerInv, Stable
  <2>5. RequestInv(x)
    BY <1>1, <2>2, <2>4, UnderWay DEF RequestInv, ServerFits
  <2>6. req' = [req EXCEPT ![r] = x]
    BY <1>2 DEF RegistrationEnds, Goto, GatewayInv, Typed
  <2> HIDE DEF x
  <2> QED
    BY <1>1, <2>1, <2>2, <2>5, <2>6, RegistryMoveKeeps
<1>3. CASE reg[r] # "done"
  <2> DEFINE x == [Idle EXCEPT !.pc = "answered"]
  <2>1. x \in Request
    BY IdleIsRequest
  <2>2. x.pc = "answered" /\ x.server = NoServer
    BY DEF Idle
  <2>3. RequestInv(x)
    BY <1>1, <2>2 DEF RequestInv
  <2>4. req' = [req EXCEPT ![r] = x]
    BY <1>3 DEF RegistrationEnds, Answer
  <2> HIDE DEF x
  <2> QED
    BY <1>1, <2>1, <2>2, <2>3, <2>4, RegistryMoveKeeps
<1> QED
  BY <1>2, <1>3

-------------------------------------------------------------------------------
\* The server of a session.

\* No tool of a stable backend is without its handler: the server made from the
\* tools that are handled has all of those it may have.
LEMMA CreatedIsView ==
  ASSUME GatewayInv, NEW b \in Backends, Stable(b)
  PROVE  /\ CreateDelegationFilteredServer(b) = ExecutorView(b)
         /\ \A who : CreateAgentFilteredServer(b, who) = AgentView(b, who)
<1>1. half[b] = NoTool
  <2> SUFFICES ASSUME half[b] # NoTool PROVE FALSE
    OBVIOUS
  <2> DEFINE p == owner[b]
  <2>1. p \in Processes /\ reg[p] = "store" /\ Target(p) = b
    BY DEF GatewayInv, RegistryInv, ToolInv
  <2>2. ~registered[b]
    BY <2>1 DEF GatewayInv, RegistryInv, OwnerInv
  <2>3. phase = "serving" /\ b \notin HTTPBackends
    BY <2>2 DEF Stable
  <2>4. p \in Requests
    BY <2>1, <2>3, GatewayAssumption DEF GatewayInv, RegistryInv, PlaceInv
  <2>5. b = req[p].backend /\ req[p].pc = "register"
    BY <2>1, <2>4, GatewayAssumption DEF Target, GatewayInv, RegistryInv, PlaceInv
  <2> QED
    BY <2>3, <2>4, <2>5 DEF GatewayInv, RegistryInv, PlaceInv
<1>2. \A t \in Tools : tools[b][t] # "described"
  BY <1>1, RegistryAssumption DEF GatewayInv, RegistryInv, ToolInv
<1>3. Handled(b) = KnownTools(b)
  BY <1>2 DEF Handled, KnownTools, GatewayInv, Typed, RegistryTypeOK
<1> QED
  BY <1>3 DEF CreateDelegationFilteredServer, CreateAgentFilteredServer, ExecutorView, AgentView

\* TTLCache.GetOrCreate: the cache stays within its size, and what it holds under
\* the key, found or made, is what the identity may use.
LEMMA CacheUsed ==
  ASSUME NEW cache, NEW whose, NEW how, CacheInv(cache, whose, how), NEW b \in Backends, NEW who \in whose,
         Stable(b), NEW new, new \in CachesAfter(cache, <<b, who>>, View(b, who, how))
  PROVE  CacheInv(new, whose, how) /\ new[<<b, who>>].tools = View(b, who, how)
<1> DEFINE key == <<b, who>>
<1>1. PICK kept \in Roomy(cache, Unexpired(cache), key) :
        new = [k \in kept \cup {key} |->
                 IF k = key THEN [tools |-> Value(cache, key, View(b, who, how)), at |-> now]
                 ELSE cache[k]]
  BY DEF CachesAfter
<1>2. Unexpired(cache) \subseteq DOMAIN cache
  BY DEF Unexpired
<1>3. IsFiniteSet(Unexpired(cache)) /\ Cardinality(Unexpired(cache)) <= Cardinality(DOMAIN cache)
  BY <1>2, FS_Subset DEF CacheInv
<1>4. Cardinality(Unexpired(cache)) \in Nat /\ Cardinality(DOMAIN cache) \in Nat
      /\ CacheSize \in Nat
  BY <1>3, FS_CardinalityType, GatewayAssumption DEF CacheInv
<1>5. Cardinality(Unexpired(cache)) <= CacheSize
  BY <1>3, <1>4 DEF CacheInv
<1>6. /\ kept \subseteq Unexpired(cache) /\ IsFiniteSet(kept)
      /\ (key \in kept /\ Cardinality(kept) <= CacheSize) \/ Cardinality(kept) < CacheSize
  <2>1. CASE key \in Unexpired(cache) \/ Cardinality(Unexpired(cache)) < CacheSize
    BY <1>1, <1>3, <1>5, <2>1 DEF Roomy
  <2>2. CASE ~(key \in Unexpired(cache) \/ Cardinality(Unexpired(cache)) < CacheSize)
    <3>1. PICK k \in Unexpired(cache) : kept = Unexpired(cache) \ {k}
      BY <1>1, <2>2 DEF Roomy
    <3>2. IsFiniteSet(kept) /\ Cardinality(kept) = Cardinality(Unexpired(cache)) - 1
      BY <1>3, <3>1, FS_RemoveElement
    <3> QED
      BY <1>4, <1>5, <3>1, <3>2
  <2> QED
    BY <2>1, <2>2
<1>7. IsFiniteSet(kept \cup {key}) /\ Cardinality(kept \cup {key}) <= CacheSize
  <2>1. /\ IsFiniteSet(kept \cup {key})
        /\ Cardinality(kept \cup {key}) =
             IF key \in kept THEN Cardinality(kept) ELSE Cardinality(kept) + 1
    BY <1>6, FS_AddElement
  <2>2. Cardinality(kept) \in Nat
    BY <1>6, FS_CardinalityType
  <2> QED
    BY <1>4, <1>6, <2>1, <2>2
<1>8. DOMAIN new = kept \cup {key}
  BY <1>1
<1>9. Value(cache, key, View(b, who, how)) = View(b, who, how)
  BY <1>2 DEF Value, CacheInv
<1>10. new[key].tools = View(b, who, how)
  BY <1>1, <1>9
<1>11. ASSUME NEW k \in DOMAIN new PROVE Stable(k[1]) /\ new[k].tools = View(k[1], k[2], how)
  <2>1. CASE k = key
    BY <1>10, <2>1
  <2>2. CASE k # key
    <3>1. k \in DOMAIN cache /\ new[k] = cache[k]
      BY <1>1, <1>2, <1>6, <1>8, <1>11, <2>2
    <3> QED
      BY <3>1 DEF CacheInv
  <2> QED
    BY <2>1, <2>2
<1>12. DOMAIN new \subseteq Backends \X whose
  BY <1>2, <1>6, <1>8 DEF CacheInv
<1> QED
  BY <1>7, <1>8, <1>10, <1>11, <1>12 DEF CacheInv

\* Policies are the agents' own.
LEMMA ExecutorHasNoPolicy ==
  ASSUME GatewayInv
  PROVE  Executor \notin DOMAIN Policies
BY GatewayAssumption DEF GatewayInv, Typed, LegalPolicies, Policies

\* The server of a session is built or taken from the cache.
LEMMA EstablishKeeps ==
  ASSUME GatewayInv, NEW r \in Requests, Establish(r), UNCHANGED config
  PROVE  GatewayInv'
<1> DEFINE who == req[r].who
           b   == req[r].backend
           key == <<b, who>>
<1>1. /\ req[r].pc = "establish" /\ phase = "serving" /\ UNCHANGED Aside
      /\ UNCHANGED <<now, config, live, registryVars, phase>>
  BY UnderWay DEF Establish, At, Aside
<1>2. who \in Identities /\ b \in Backends /\ Stable(b)
  BY <1>1, UnderWay DEF RequestInv, ServerFits
<1>3. Calm /\ SideInv'
  BY <1>1, UnchangedIsCalm, AsideKeeps DEF GatewayInv, registryVars
<1> DEFINE x(server) == [req[r] EXCEPT !.pc = "call", !.server = server]
<1>4. ASSUME NEW server, server \in SUBSET Tools, ServerFits(x(server)),
             req' = [req EXCEPT ![r] = x(server)],
             CacheInv(servers, Identities, "policy")', CacheInv(delegated, {Executor}, "delegation")'
      PROVE  GatewayInv'
  <2>1. x(server) \in Request
    BY <1>4, UnderWay DEF Request
  <2>2. /\ x(server).pc = "call" /\ x(server).server = server
        /\ x(server).who = who /\ x(server).backend = b
    BY UnderWay DEF Request
  <2> HIDE DEF x
  <2>3. RequestInv(x(server))
    BY <1>1, <1>2, <1>4, <2>2, UnderWay DEF RequestInv
  <2> QED
    BY <1>1, <1>3, <1>4, <2>1, <2>2, <2>3, MoveKeeps
<1>5. CASE /\ who = Executor /\ live
           /\ delegated' \in CachesAfter(delegated, key, CreateDelegationFilteredServer(b))
           /\ req' = [req EXCEPT ![r] = x(delegated'[key].tools)]
           /\ UNCHANGED servers
  <2>1. CreateDelegationFilteredServer(b) = View(b, who, "delegation")
    BY <1>2, CreatedIsView DEF View
  <2>2. /\ CacheInv(delegated', {Executor}, "delegation")
        /\ delegated'[key].tools = View(b, who, "delegation")
    <3>1. PICK new \in CachesAfter(delegated, key, View(b, who, "delegation")) : delegated' = new
      BY <1>5, <2>1
    <3>2. /\ CacheInv(new, {Executor}, "delegation")
          /\ new[key].tools = View(b, who, "delegation")
      BY <1>2, <1>5, CacheUsed DEF GatewayInv
    <3> QED
      BY <3>1, <3>2
  <2>3. /\ CacheInv(delegated, {Executor}, "delegation")'
        /\ CacheInv(servers, Identities, "policy")'
    BY <1>3, <1>5, <2>2, CacheStays DEF GatewayInv
  <2>4. delegated'[key].tools = ExecutorView(b)
    BY <2>2 DEF View
  <2>5. ExecutorView(b) \in SUBSET Tools
    BY DEF ExecutorView, KnownTools
  <2>6. ServerFits(x(ExecutorView(b)))
    BY <1>5, UnderWay DEF ServerFits, Request
  <2> QED
    BY <1>4, <1>5, <2>3, <2>4, <2>5, <2>6
<1>6. CASE /\ ~(who = Executor /\ live) /\ CanAccess(who, b)
           /\ servers' \in CachesAfter(servers, key, CreateAgentFilteredServer(b, who))
           /\ req' = [req EXCEPT ![r] = x(servers'[key].tools)]
           /\ UNCHANGED delegated
  <2>1. CreateAgentFilteredServer(b, who) = View(b, who, "policy")
    BY <1>2, CreatedIsView DEF View
  <2>2. /\ CacheInv(servers', Identities, "policy")
        /\ servers'[key].tools = View(b, who, "policy")
    <3>1. PICK new \in CachesAfter(servers, key, View(b, who, "policy")) : servers' = new
      BY <1>6, <2>1
    <3>2. CacheInv(new, Identities, "policy") /\ new[key].tools = View(b, who, "policy")
      BY <1>2, CacheUsed DEF GatewayInv
    <3> QED
      BY <3>1, <3>2
  <2>3. /\ CacheInv(delegated, {Executor}, "delegation")'
        /\ CacheInv(servers, Identities, "policy")'
    BY <1>3, <1>6, <2>2, CacheStays DEF GatewayInv
  <2>4. servers'[key].tools = AgentView(b, who)
    BY <2>2 DEF View
  <2>5. AgentView(b, who) \in SUBSET Tools
    BY DEF AgentView, KnownTools
  <2>6. who = Executor => Unasked
    BY <1>6, ExecutorHasNoPolicy DEF CanAccess, Unasked
  <2>7. ServerFits(x(AgentView(b, who)))
    BY <2>6, UnderWay DEF ServerFits, Request
  <2> QED
    BY <1>4, <1>6, <2>3, <2>4, <2>5, <2>7
<1>7. CASE Answer(r) /\ UNCHANGED <<servers, delegated>>
  BY <1>1, <1>3, <1>7, AnswerKeeps
<1>8. \/ /\ who = Executor /\ live
         /\ delegated' \in CachesAfter(delegated, key, CreateDelegationFilteredServer(b))
         /\ req' = [req EXCEPT ![r] = x(delegated'[key].tools)]
         /\ UNCHANGED servers
      \/ /\ ~(who = Executor /\ live) /\ CanAccess(who, b)
         /\ servers' \in CachesAfter(servers, key, CreateAgentFilteredServer(b, who))
         /\ req' = [req EXCEPT ![r] = x(servers'[key].tools)]
         /\ UNCHANGED delegated
      \/ Answer(r) /\ UNCHANGED <<servers, delegated>>
  BY DEF Establish, GatewayInv, Typed
<1> QED
  BY <1>5, <1>6, <1>7, <1>8

-------------------------------------------------------------------------------
\* The tool handler.

\* A tool is called through the server.
LEMMA CallToolKeeps ==
  ASSUME GatewayInv, NEW r \in Requests, CallTool(r), UNCHANGED config
  PROVE  GatewayInv'
<1>1. /\ req[r].pc = "call" /\ phase = "serving"
      /\ UNCHANGED <<now, config, live, registryVars, phase, servers, delegated>>
      /\ UNCHANGED <<nonces, used, guards, closing, doomed>>
  BY UnderWay DEF CallTool, At
<1>2. req[r].who \in Identities
  BY <1>1, UnderWay DEF RequestInv, ServerFits
<1>3. SideInv'
  <2>1. sessions' \subseteq Identities
    BY <1>2 DEF CallTool, GatewayInv, SideInv
  <2> QED
    BY <1>1, <2>1 DEF GatewayInv, SideInv, NonceInv, Remembered
<1>4. CASE Goto(r, "authorize")
  <2> DEFINE x == [req[r] EXCEPT !.pc = "authorize"]
  <2>1. x \in Request
    BY UnderWay DEF Request
  <2>2. /\ x.pc = "authorize" /\ x.who = req[r].who
        /\ x.backend = req[r].backend /\ x.server = req[r].server
    BY UnderWay DEF Request
  <2>3. RequestInv(x)
    BY <1>1, <2>2, UnderWay DEF RequestInv, ServerFits
  <2> HIDE DEF x
  <2> QED
    BY <1>1, <1>3, <1>4, <2>1, <2>3, GotoKeeps DEF x
<1>5. CASE Answer(r)
  BY <1>1, <1>3, <1>5, AnswerKeeps
<1> QED
  BY <1>4, <1>5 DEF CallTool

\* An executor has no agent policy: where there are policies, only the delegation
\* store lets it pass.
LEMMA AuthorizeKeeps ==
  ASSUME GatewayInv, NEW r \in Requests, Authorize(r), UNCHANGED config
  PROVE  GatewayInv'
<1>1. /\ req[r].pc = "authorize" /\ phase = "serving" /\ UNCHANGED Aside
      /\ UNCHANGED <<now, config, live, registryVars, phase, servers, delegated>>
  BY UnderWay DEF Authorize, At, Aside
<1> DEFINE x(how) == [req[r] EXCEPT !.pc = "guard", !.via = how]
<1>2. ASSUME NEW how \in {"delegation", "policy"}, req' = [req EXCEPT ![r] = x(how)],
             req[r].who = Executor => how = "delegation" \/ Unasked
      PROVE  GatewayInv'
  <2>1. x(how) \in Request
    BY UnderWay DEF Request
  <2>2. /\ x(how).pc = "guard" /\ x(how).via = how
        /\ x(how).who = req[r].who /\ x(how).backend = req[r].backend
        /\ x(how).server = req[r].server
    BY UnderWay DEF Request
  <2>3. RequestInv(x(how))
    BY <1>1, <1>2, <2>2, UnderWay DEF RequestInv, ServerFits
  <2> HIDE DEF x
  <2> QED
    BY <1>1, <1>2, <2>1, <2>2, <2>3, MoveKeeps, AsideKeeps, CachesKeep
<1>3. \/ req' = [req EXCEPT ![r] = x("delegation")]
      \/ (req[r].who = Executor => Unasked) /\ req' = [req EXCEPT ![r] = x("policy")]
      \/ Answer(r)
  BY ExecutorHasNoPolicy DEF Authorize, CanUse, Unasked, GatewayInv, Typed
<1> QED
  BY <1>1, <1>2, <1>3, AnswerKeeps, AsideKeeps

\* The guard of the session is looked up.
LEMMA GuardForSessionKeeps ==
  ASSUME GatewayInv, NEW r \in Requests, GuardForSession(r), UNCHANGED config
  PROVE  GatewayInv'
<1>1. /\ req[r].pc = "guard" /\ phase = "serving"
      /\ UNCHANGED <<now, config, live, registryVars, phase, servers, delegated>>
      /\ UNCHANGED <<nonces, used, sessions, closing, doomed>>
  BY UnderWay DEF GuardForSession, At
<1>2. SideInv'
  <2>1. guards' \in [Identities -> {"none", "open"}]
    BY DEF GuardForSession, GatewayInv, SideInv
  <2> QED
    BY <1>1, <2>1 DEF GatewayInv, SideInv, NonceInv, Remembered
<1>3. CASE Goto(r, "backend")
  <2> DEFINE x == [req[r] EXCEPT !.pc = "backend"]
  <2>1. x \in Request
    BY UnderWay DEF Request
  <2>2. /\ x.pc = "backend" /\ x.who = req[r].who /\ x.via = req[r].via
        /\ x.backend = req[r].backend /\ x.server = req[r].server
    BY UnderWay DEF Request
  <2>3. RequestInv(x)
    BY <1>1, <2>2, UnderWay DEF RequestInv, ServerFits
  <2> HIDE DEF x
  <2> QED
    BY <1>1, <1>2, <1>3, <2>1, <2>3, GotoKeeps DEF x
<1>4. CASE Answer(r)
  BY <1>1, <1>2, <1>4, AnswerKeeps
<1> QED
  BY <1>3, <1>4 DEF GuardForSession

\* Every step of a request keeps the invariant.
LEMMA RequestStepKeeps ==
  ASSUME GatewayInv, NEW r \in Requests, RequestStep(r), UNCHANGED config
  PROVE  GatewayInv'
<1>1. CASE Finish(r)
  <2>1. /\ req[r].pc = "backend" /\ phase = "serving" /\ UNCHANGED Aside /\ Answer(r)
        /\ UNCHANGED <<now, config, live, registryVars, phase, servers, delegated>>
    BY <1>1, UnderWay DEF Finish, At, Aside
  <2> QED
    BY <2>1, AnswerKeeps, AsideKeeps
<1>2. CASE RegisterForRequest(r)
  <2>1. req[r].pc = "register" /\ req[r].backend \in Backends /\ Target(r) = req[r].backend
    BY <1>2, UnderWay, GatewayAssumption DEF RegisterForRequest, At, RequestInv, Target
  <2>2. reg[r] # "none"
    BY <1>2 DEF RegisterForRequest, RegisterStep, RegRead, RegLock, RegRecheck, RegUnavailable,
       RegDiscover, StoreDescription, StoreHandler, RegFinish
  <2> QED
    BY <1>2, <2>1, <2>2, RegistrationKeeps, GatewayAssumption DEF RegisterForRequest
<1> QED
  BY <1>1, <1>2, ArriveKeeps, CheckTimestampKeeps, CheckNonceKeeps, VerifySignatureKeeps, RecordNonceKeeps,
     AdmitKeeps, RegistrationEndsKeeps, EstablishKeeps, CallToolKeeps, AuthorizeKeeps,
     GuardForSessionKeeps
  DEF RequestStep

-------------------------------------------------------------------------------
\* Startup, time, the executor's end and the shutdown.

\* Every step of the parallel startup registration keeps it.
LEMMA StartupKeeps ==
  ASSUME GatewayInv, NEW b \in Backends, StartupBegins(b) \/ StartupStep(b), UNCHANGED config
  PROVE  GatewayInv'
<1>1. CASE StartupBegins(b)
  <2>1. /\ phase # "serving" /\ UNCHANGED <<now, nonces, frontVars>>
        /\ reg[b] = "none" /\ reg' = [reg EXCEPT ![b] = "read"]
        /\ UNCHANGED <<tools, registered, retryAfter, owner, todo, half>>
    BY <1>1 DEF StartupBegins, RegGoto
  <2>2. b \in Processes /\ b \notin Requests
    BY GatewayAssumption
  <2>3. Typed'
    BY <2>1 DEF GatewayInv, Typed, RegistryTypeOK, RegPCs, frontVars
  <2>4. Calm
    BY <2>1, UnchangedIsCalm DEF GatewayInv, frontVars
  <2>5. \A p \in Processes : Target(p)' = Target(p)
    BY <2>1 DEF Target, frontVars
  <2>6. OwnerInv'
    BY <2>1, <2>5 DEF GatewayInv, RegistryInv, OwnerInv, Owning, Typed, RegistryTypeOK
  <2>7. ToolInv'
    BY <2>1, <2>5 DEF GatewayInv, RegistryInv, ToolInv, Typed, RegistryTypeOK
  <2>8. PlaceInv'
    BY <2>1, <2>2 DEF GatewayInv, RegistryInv, PlaceInv, Typed, RegistryTypeOK, frontVars
  <2>9. ASSUME NEW r \in Requests PROVE RequestInv(req[r])'
    BY <2>1, <2>4, RequestStays DEF GatewayInv, Typed, frontVars
  <2>10. CacheInv(servers, Identities, "policy")' /\ CacheInv(delegated, {Executor}, "delegation")' /\ SideInv'
    BY <2>1, <2>4, CacheStays, AsideKeeps DEF GatewayInv, frontVars, Aside
  <2> QED
    BY <2>3, <2>6, <2>7, <2>8, <2>9, <2>10 DEF GatewayInv, RegistryInv
<1>2. CASE StartupStep(b)
  <2>1. reg[b] # "none"
    BY <1>2 DEF StartupStep, RegisterStep, RegRead, RegLock, RegRecheck, RegUnavailable,
       RegDiscover, StoreDescription, StoreHandler, RegFinish
  <2>2. Target(b) = b /\ b \in Processes
    BY GatewayAssumption DEF Target
  <2> QED
    BY <1>2, <2>1, <2>2, RegistrationKeeps DEF StartupStep
<1> QED
  BY <1>1, <1>2

\* The registry, the caches and the requests stay as they are in a calm step.
LEMMA CalmKeeps ==
  ASSUME GatewayInv, Calm, UNCHANGED <<registryVars, req, servers, delegated>>, Typed',
         PlaceInv', SideInv'
  PROVE  GatewayInv'
<1>1. \A p \in Processes : Target(p)' = Target(p)
  BY DEF Target
<1>2. OwnerInv' /\ ToolInv'
  BY <1>1 DEF GatewayInv, RegistryInv, OwnerInv, ToolInv, registryVars
<1>3. ASSUME NEW r \in Requests PROVE RequestInv(req[r])'
  BY RequestStays DEF GatewayInv, Typed
<1>4. CacheInv(servers, Identities, "policy")' /\ CacheInv(delegated, {Executor}, "delegation")'
  BY CacheStays DEF GatewayInv
<1> QED
  BY <1>2, <1>3, <1>4 DEF GatewayInv, RegistryInv

\* The gateway begins to serve.
LEMMA StartupEndsKeeps ==
  ASSUME GatewayInv, StartupEnds, UNCHANGED config
  PROVE  GatewayInv'
<1>1. /\ phase # "serving" /\ phase' \in {"failed", "serving"}
      /\ UNCHANGED <<now, config, live, registryVars, req, servers, delegated>>
      /\ UNCHANGED Aside
  BY DEF StartupEnds, Aside
<1>2. phase' = "serving" => \A b \in Backends : reg[b] \in {"done", "failed"}
  BY DEF StartupEnds
<1>3. Typed' /\ Calm
  BY <1>1, SigningAssumption
  DEF GatewayInv, Typed, RegistryTypeOK, registryVars, Calm, Stable
<1>4. PlaceInv'
  BY <1>1, <1>2 DEF GatewayInv, RegistryInv, PlaceInv, registryVars
<1> QED
  BY <1>1, <1>3, <1>4, CalmKeeps, AsideKeeps

\* Time passes.
LEMMA ClockTicksKeeps ==
  ASSUME GatewayInv, ClockTicks, UNCHANGED config
  PROVE  GatewayInv'
<1>1. /\ now \in 0 .. MaxTime /\ now < MaxTime /\ now' = now + 1
      /\ UNCHANGED <<nonces, registryVars, frontVars>>
  BY DEF ClockTicks, Tick, GatewayInv, Typed
<1>2. now' \in 0 .. MaxTime /\ now <= now'
  BY <1>1, SigningAssumption
<1>3. Typed' /\ Calm /\ PlaceInv'
  BY <1>1, <1>2 DEF GatewayInv, Typed, RegistryTypeOK, registryVars, frontVars, Calm, Stable,
                    RegistryInv, PlaceInv
<1>4. ASSUME NEW m \in used PROVE Remembered(m)'
  <2>1. Remembered(m) /\ m.ts \in Int
    BY SigningAssumption DEF GatewayInv, SideInv, NonceInv
  <2> QED
    BY <1>1, <2>1, SigningAssumption DEF Remembered
<1>5. SideInv'
  BY <1>1, <1>4 DEF GatewayInv, SideInv, NonceInv, frontVars
<1> QED
  BY <1>1, <1>3, <1>5, CalmKeeps DEF frontVars

\* What has nothing to do with requests under way.
LEMMA AroundKeeps ==
  ASSUME GatewayInv, ExecutorEnds \/ Shutdown \/ UNCHANGED vars, UNCHANGED config
  PROVE  GatewayInv'
<1>1. /\ UNCHANGED <<now, nonces, used, registryVars, req, servers, delegated, phase>>
      /\ ~live => ~live'
  BY DEF ExecutorEnds, Shutdown, vars, frontVars, registryVars
<1>2. Typed' /\ PlaceInv'
  BY <1>1 DEF GatewayInv, Typed, RegistryTypeOK, registryVars, RegistryInv, PlaceInv
<1>3. Calm
  BY <1>1, SigningAssumption DEF Calm, Stable, GatewayInv, Typed, registryVars
<1>4. NonceInv'
  BY <1>1 DEF GatewayInv, SideInv, NonceInv, Remembered
<1>5. SideInv'
  BY <1>1, <1>4 DEF GatewayInv, SideInv, ExecutorEnds, Shutdown, MarkShutdown, ListSessions,
     CloseGuardsOf, CloseCompilationCache, vars, frontVars
<1> QED
  BY <1>1, <1>2, <1>3, <1>5, CalmKeeps

\* Nothing registered, nothing served: the invariant holds.
LEMMA InitHolds == Init => GatewayInv
<1> SUFFICES ASSUME Init PROVE GatewayInv
  OBVIOUS
<1>1. Typed
  BY IdleIsRequest, SigningAssumption, RegistryAssumption
  DEF Init, SigningInit, RegistryInit, Typed, RegistryTypeOK, RegPCs
<1>2. OwnerInv /\ ToolInv /\ PlaceInv
  BY GatewayAssumption DEF Init, RegistryInit, OwnerInv, ToolInv, PlaceInv, Owning, Idle
<1>3. SideInv
  BY DEF Init, SigningInit, NoNonces, SideInv, NonceInv
<1>4. CacheInv(servers, Identities, "policy") /\ CacheInv(delegated, {Executor}, "delegation")
  BY FS_EmptySet, GatewayAssumption DEF Init, EmptyCache, CacheInv
<1>5. RequestInv(Idle)
  BY DEF RequestInv, Idle
<1> QED
  BY <1>1, <1>2, <1>3, <1>4, <1>5 DEF Init, GatewayInv, RegistryInv

\* Every step keeps the invariant.
LEMMA NextKeeps ==
  ASSUME GatewayInv, [Next]_vars
  PROVE  GatewayInv'
<1>1. UNCHANGED config
  BY DEF Next, vars
<1> QED
  BY <1>1, StartupKeeps, StartupEndsKeeps, RequestStepKeeps, ClockTicksKeeps, AroundKeeps
  DEF Next, Exited

\* GatewayInv is an invariant of the specification.
THEOREM GatewayInvariant == Spec => []GatewayInv
BY InitHolds, NextKeeps, PTL DEF Spec

\* The variables of the front end have their types, and the caches of servers stay
\* within their size (TTLCache).
THEOREM TypeCorrect == Spec => []TypeOK
<1>1. GatewayInv => TypeOK
  BY DEF GatewayInv, Typed, SideInv, CacheInv, TypeOK
<1> QED
  BY <1>1, GatewayInvariant, PTL

\* A copy of a message that was accepted is refused for as long as the timestamp
\* passes, whatever MaxAge, however long the gateway holds copies between its checks
\* and however many messages share a nonce (hmacMiddleware).
THEOREM ReplaysRefused == Spec => NoReplay
<1>1. GatewayInv /\ [Next]_vars =>
        [\A r \in Requests :
           At(r, "record") /\ At(r, "admit")' /\ req[r].msg \in used => ~Fresh(req[r].msg)]_vars
  <2> SUFFICES ASSUME GatewayInv, Next, NEW r \in Requests, At(r, "record"), At(r, "admit")',
                      req[r].msg \in used, Fresh(req[r].msg)
               PROVE  FALSE
    OBVIOUS
  <2>1. req[r].pc = "record" /\ req'[r].pc = "admit" /\ req \in [Requests -> Request]
    BY DEF At, GatewayInv, Typed
  <2>2. PICK q \in Requests : RequestStep(q)
    BY <2>1 DEF Next, StartupBegins, StartupStep, StartupEnds, ExecutorEnds, ClockTicks,
       Shutdown, Exited, frontVars, vars
  <2>3. RecordNonce(r)
    <3>1. \A x : x.pc = "record" /\ x = Idle => FALSE
      BY DEF Idle
    <3>2. [Idle EXCEPT !.pc = "answered"].pc = "answered"
      BY DEF Idle
    <3> QED
      BY <2>1, <2>2, <3>2 DEF RequestStep, Arrive, CheckTimestamp, CheckNonce, VerifySignature,
         RecordNonce, Admit, RegisterForRequest, RegistrationEnds, Establish, CallTool, Authorize,
         GuardForSession, Finish, Goto, Answer, At, frontVars
  <2>4. Seen(req[r].msg)
    <3>1. now \in Int /\ req[r].msg \in Messages /\ NonceInv
      BY SigningAssumption DEF GatewayInv, Typed, SideInv
    <3> QED
      BY <3>1, UsedIsSeen
  <2>5. Answer(r)
    BY <2>3, <2>4 DEF RecordNonce
  <2> QED
    BY <2>1, <2>5 DEF Answer, Idle
<1> QED
  BY <1>1, GatewayInvariant, PTL DEF Spec, NoReplay

\* Servers, cached or in use, offer every tool their identity may use, for all
\* backends, policies, also none, and interleavings of registrations (routed.go).
THEOREM ServersAreComplete == Spec => []ServersComplete
<1>1. GatewayInv => ServersComplete
  <2> SUFFICES ASSUME GatewayInv PROVE ServersComplete
    OBVIOUS
  <2>1. ASSUME NEW k \in DOMAIN servers PROVE servers[k].tools = AgentView(k[1], k[2])
    <3>1. servers[k].tools = View(k[1], k[2], "policy")
      BY DEF GatewayInv, CacheInv
    <3> QED
      BY <3>1 DEF View
  <2>2. ASSUME NEW k \in DOMAIN delegated PROVE delegated[k].tools = ExecutorView(k[1])
    <3>1. delegated[k].tools = View(k[1], k[2], "delegation")
      BY DEF GatewayInv, CacheInv
    <3> QED
      BY <3>1 DEF View
  <2>3. ASSUME NEW r \in Requests, req[r].server # NoServer
        PROVE  \/ /\ req[r].who # Executor \/ (~live /\ ~Enforced)
                  /\ req[r].server = AgentView(req[r].backend, req[r].who)
               \/ req[r].who = Executor /\ req[r].server = ExecutorView(req[r].backend)
    BY <2>3 DEF GatewayInv, RequestInv, ServerFits, Unasked
  <2> QED
    BY <2>1, <2>2, <2>3 DEF ServersComplete, AgentView, ExecutorView, KnownTools
<1> QED
  BY <1>1, GatewayInvariant, PTL

\* Where agents have policies, a delegated call goes on only with the store's consent,
\* also when the bearer dies under way; where they have none, the call of a live
\* bearer does (authorizeDelegatedToolCall).
THEOREM DelegationIsAsked == Spec => []DelegatedCallsAuthorized
<1>1. GatewayInv => DelegatedCallsAuthorized
  BY DEF GatewayInv, RequestInv, Unasked, DelegatedCallsAuthorized
<1> QED
  BY <1>1, GatewayInvariant, PTL

\* No step of any process unregisters a backend or changes the tools of one that is
\* registered (ensureToolsRegistered: the second look under the lock).
THEOREM RegistrationIsFinal == Spec => RegisteredIsFinal
<1>1. GatewayInv /\ [Next]_vars =>
        [\A b \in Backends : registered[b] => registered'[b] /\ tools'[b] = tools[b]]_vars
  <2> SUFFICES ASSUME GatewayInv, Next, NEW c \in Backends, registered[c]
               PROVE  registered'[c] /\ tools'[c] = tools[c]
    OBVIOUS
  <2>1. ASSUME NEW p \in Processes, NEW b \in Backends, b = Target(p), UNCHANGED frontVars,
               RegisterStep(p, b, now)
        PROVE  registered'[c] /\ tools'[c] = tools[c]
    <3>1. reg[p] # "none"
      BY <2>1 DEF RegisterStep, RegRead, RegLock, RegRecheck, RegUnavailable,
         RegDiscover, StoreDescription, StoreHandler, RegFinish
    <3> QED
      BY <2>1, <3>1, RegisterStepCalm DEF GatewayInv, frontVars
  <2>2. ASSUME NEW b \in Backends, StartupStep(b)
        PROVE  registered'[c] /\ tools'[c] = tools[c]
    BY <2>1, <2>2, GatewayAssumption DEF StartupStep, Target
  <2>3. ASSUME NEW r \in Requests, RegisterForRequest(r)
        PROVE  registered'[c] /\ tools'[c] = tools[c]
    <3>1. req[r].backend \in Backends /\ Target(r) = req[r].backend /\ r \in Processes
      BY <2>3, UnderWay, GatewayAssumption DEF RegisterForRequest, At, RequestInv, Target
    <3> QED
      BY <2>1, <2>3, <3>1 DEF RegisterForRequest
  <2>4. ASSUME NEW r \in Requests, RequestStep(r), ~RegisterForRequest(r)
        PROVE  UNCHANGED <<registered, tools>>
    BY <2>4 DEF RequestStep, Arrive, CheckTimestamp, CheckNonce, VerifySignature, RecordNonce, Admit,
       RegistrationEnds, Establish, CallTool, Authorize, GuardForSession, Finish, registryVars
  <2>5. ASSUME NEW b \in Backends, StartupBegins(b) PROVE UNCHANGED <<registered, tools>>
    BY <2>5 DEF StartupBegins
  <2>6. ASSUME StartupEnds \/ ExecutorEnds \/ ClockTicks \/ Shutdown \/ Exited
        PROVE  UNCHANGED <<registered, tools>>
    BY <2>6 DEF StartupEnds, ExecutorEnds, ClockTicks, Shutdown, Exited, vars, registryVars
  <2> QED
    BY <2>2, <2>3, <2>4, <2>5, <2>6 DEF Next
<1> QED
  BY <1>1, GatewayInvariant, PTL DEF Spec, RegisteredIsFinal
===============================================================================
