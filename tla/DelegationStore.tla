--------------------------- MODULE DelegationStore ---------------------------
(***************************************************************************)
(* The delegation controller (internal/delegation): the in-memory Store of *)
(* invocation-scoped identities, the control-plane handler that changes it *)
(* and persists it, and the recovery of the Store from the state file.     *)
(*                                                                         *)
(* Several HTTP handlers run concurrently.  Store.mu makes each operation  *)
(* on the Store one atomic step; Store.persistMu makes "take a snapshot,   *)
(* write the file" a critical section of its own, during which other       *)
(* handlers keep changing the Store.  The process may die between any two  *)
(* steps and restarts from whatever the state file holds.                  *)
(*                                                                         *)
(* A handle and its executor bearer are minted together and serve only as  *)
(* random names of one identity: a token stands for the pair.              *)
(***************************************************************************)
EXTENDS Naturals, FiniteSets

CONSTANTS
  Handlers,     \* control-plane requests that may be in flight together
  Tokens,       \* handle/bearer pairs generateOpaqueToken can draw
  Requests,     \* the create-or-confirm requests AWF may send
  Envelope,     \* the compiler-installed policy envelope
  Generations,  \* policy generations the process may be started with
  None,         \* absence: a nil pointer, an unlocked mutex
  MaxTime,      \* bound: last instant of the clock
  MaxRequests,  \* bound: control requests served over a behaviour
  MaxCrashes    \* bound: times the process dies

(***************************************************************************)
(* Requests, envelope and identities                                       *)
(***************************************************************************)

\* Time 0 is Go's zero time.Time: a deadline of 0 is no deadline.
Time == Nat

\* invocationScopeKey and labelKey.
Key(req)   == <<req.run, req.entry, req.inv>>
Label(req) == <<req.run, req.entry>>

Keys         == {Key(r) : r \in Requests}
Labels       == {Label(r) : r \in Requests}
SchemaHashes == {r.schema : r \in Requests}

Identity == [token     : Tokens,
             req       : Requests,
             createdAt : Time,
             expiresAt : Time,
             gen       : Generations,
             revoked   : BOOLEAN]

ASSUME NoneAssumption ==
  None \notin Tokens /\ None \notin Handlers /\ None \notin Identity

ASSUME RequestAssumption ==
  \A r \in Requests : r.deadline \in Time /\ r.ttl \in Nat

\* Part of Envelope.Validate, which NewStore runs first.
ASSUME EnvelopeAssumption ==
  /\ Envelope.expiresAt \in Time \ {0}
  /\ Envelope.maxTTL \in Nat \ {0}
  /\ Envelope.maxDynamic \in Nat
  /\ Envelope.schemas = {} => Envelope.maxDynamic > 0

ASSUME BoundsAssumption ==
  MaxTime \in Nat /\ MaxRequests \in Nat /\ MaxCrashes \in Nat

\* Envelope.AllowsRepository; Envelope.owned is the set of canonical
\* repositories whose owner is one of the allowed owners.
AllowsRepository(repo) == repo \in Envelope.repos \union Envelope.owned

ClosedSchemaSet == Envelope.schemas # {}

\* validateAgainstEnvelope.
ValidAgainstEnvelope(req, now) ==
  /\ now <= Envelope.expiresAt
  /\ req.run = Envelope.run /\ req.backend = Envelope.backend
  /\ "" \notin {req.run, req.backend, req.entry, req.inv, req.idem, req.schema}
  /\ req.repo \in Envelope.canonical /\ AllowsRepository(req.repo)
  /\ req.policy = Envelope.policy
  /\ IF ClosedSchemaSet THEN req.schema \in Envelope.schemas
                        ELSE Envelope.maxDynamic > 0
  /\ req.ttl > 0 /\ req.ttl <= Envelope.maxTTL
  /\ req.deadline # 0 => now < req.deadline

\* Identity.bindingEquals: everything but the idempotency key.
BindingEquals(a, b) == [a EXCEPT !.idem = ""] = [b EXCEPT !.idem = ""]

\* identityExpiry: the requested lifetime, cut at each deadline that is set.
Sooner(expiry, deadline) ==
  IF deadline # 0 /\ deadline < expiry THEN deadline ELSE expiry

IdentityExpiry(req, now) ==
  Sooner(Sooner(now + req.ttl, Envelope.expiresAt), req.deadline)

(***************************************************************************)
(* The Store.  objs is the heap of Identity objects the four indexes point *)
(* to; an index entry is the token of the object it points to.             *)
(***************************************************************************)

StoreType == [objs         : [Tokens -> Identity \union {None}],
              byHandle     : SUBSET Tokens,
              byBearer     : SUBSET Tokens,
              byInvocation : [Keys -> Tokens \union {None}],
              byLabel      : [Labels -> SUBSET Tokens],
              hashes       : SUBSET SchemaHashes,
              incomplete   : BOOLEAN]

NewStore == [objs         |-> [t \in Tokens |-> None],
             byHandle     |-> {},
             byBearer     |-> {},
             byInvocation |-> [k \in Keys |-> None],
             byLabel      |-> [l \in Labels |-> {}],
             hashes       |-> {},
             incomplete   |-> FALSE]

FailedRecoveryStore == [NewStore EXCEPT !.incomplete = TRUE]

\* indexLocked.
IndexLocked(s, id) ==
  [s EXCEPT !.objs[id.token]            = id,
            !.byHandle                  = @ \union {id.token},
            !.byBearer                  = @ \union {id.token},
            !.byInvocation[Key(id.req)] = id.token,
            !.byLabel[Label(id.req)]    = @ \union {id.token}]

\* revokeLocked, of every identity of T in turn: each leaves the live
\* indexes and stays in byInvocation as a terminal tombstone.
RevokeLocked(s, T) ==
  LET ofKey(k) == {t \in T : Key(s.objs[t].req) = k} IN
  [s EXCEPT
     !.objs = [t \in Tokens |->
                 IF t \in T THEN [s.objs[t] EXCEPT !.revoked = TRUE] ELSE s.objs[t]],
     !.byHandle = @ \ T,
     !.byBearer = @ \ T,
     !.byInvocation = [k \in Keys |->
                 IF ofKey(k) = {} THEN s.byInvocation[k] ELSE CHOOSE t \in ofKey(k) : TRUE],
     !.byLabel = [l \in Labels |->
                 s.byLabel[l] \ {t \in T : Label(s.objs[t].req) = l}]]

\* cleanupExpiredLocked.
CleanupExpired(s, now) ==
  RevokeLocked(s, {t \in s.byHandle : now >= s.objs[t].expiresAt})

\* Mutant: the schema bound is off by one.
AdmitsOneHashTooMany(s, hash) ==
  \/ hash \in Envelope.schemas
  \/ ~ClosedSchemaSet /\ Cardinality(s.hashes) <= Envelope.maxDynamic

\* admitSchemaHashLocked: its answer, and the slot it takes.
AdmitsSchemaHash(s, hash) ==
  \/ hash \in Envelope.schemas
  \/ /\ ~ClosedSchemaSet
     /\ hash \in s.hashes \/ Cardinality(s.hashes) < Envelope.maxDynamic

TakeSchemaSlot(s, hash) ==
  IF ClosedSchemaSet THEN s ELSE [s EXCEPT !.hashes = @ \union {hash}]

\* authorize and HasLiveExecutorBearer: the tokens a data-plane call at time
\* now is accepted for, on the repository its identity is bound to.
LiveExecutors(s, now) ==
  IF s.incomplete \/ now >= Envelope.expiresAt
  THEN {}
  ELSE CleanupExpired(s, now).byBearer

(***************************************************************************)
(* The state file                                                          *)
(***************************************************************************)

\* Mutant: only the live identities are saved, as Store.Snapshot returns them.
SnapshotLive(s, g, forceReconciled) ==
  [gen        |-> g,
   incomplete |-> s.incomplete /\ ~forceReconciled,
   ids        |-> [k \in Keys |-> IF s.byInvocation[k] \in s.byHandle
                                  THEN s.objs[s.byInvocation[k]] ELSE None],
   hashes     |-> s.hashes]

\* A snapshot: the body saveStateLocked encodes.
Snapshot(s, g, forceReconciled) ==
  [gen        |-> g,
   incomplete |-> s.incomplete /\ ~forceReconciled,
   ids        |-> [k \in Keys |-> IF s.byInvocation[k] = None THEN None
                                  ELSE s.objs[s.byInvocation[k]]],
   hashes     |-> s.hashes]

SnapshotType == [gen        : Generations,
                 incomplete : BOOLEAN,
                 ids        : [Keys -> Identity \union {None}],
                 hashes     : SUBSET SchemaHashes]

Missing == "missing"   \* no file yet
Corrupt == "corrupt"   \* parsePersistedState refuses it
FileType == [status : {"valid"}, body : SnapshotType] \union
            [status : {Missing, Corrupt}, body : {None}]

Persisted(f) == {f.ids[k] : k \in Keys} \ {None}

\* validatePersistedSchemaHashes.
ValidSchemaHashes(f) ==
  IF ClosedSchemaSet
  THEN f.hashes = {}
  ELSE Cardinality(f.hashes \union {id.req.schema : id \in Persisted(f)})
         <= Envelope.maxDynamic

\* validateRestoredIdentity.
ValidRestored(id, g) ==
  /\ id.gen = g
  /\ id.expiresAt <= Envelope.expiresAt
  /\ id.req.deadline # 0 => id.expiresAt <= id.req.deadline
  /\ ValidAgainstEnvelope(id.req, id.createdAt)

\* validatePersistedState.
ValidPersistedState(f, g) ==
  /\ f.gen = g
  /\ ValidSchemaHashes(f)
  /\ \A id \in Persisted(f) : ValidRestored(id, g)
  /\ \A a, b \in Persisted(f) :
        a.token = b.token \/ Key(a.req) = Key(b.req) => a = b

\* The body of loadStoreAt once the file is validated: index everything,
\* then revoke what is revoked or has expired.
IndexAll(f) ==
  LET toks == {id.token : id \in Persisted(f)}
  IN [objs         |-> [t \in Tokens |->
                          IF t \in toks THEN CHOOSE id \in Persisted(f) : id.token = t
                          ELSE None],
      byHandle     |-> toks,
      byBearer     |-> toks,
      byInvocation |-> [k \in Keys |-> IF f.ids[k] = None THEN None ELSE f.ids[k].token],
      byLabel      |-> [l \in Labels |->
                          {t \in toks : \E id \in Persisted(f) :
                                           id.token = t /\ Label(id.req) = l}],
      hashes       |-> f.hashes,
      incomplete   |-> f.incomplete]

RestoredTerminal(f, now) ==
  {t \in Tokens : \E id \in Persisted(f) :
                     id.token = t /\ (id.revoked \/ now >= id.expiresAt)}

\* Mutant: a restored tombstone stays under its label.
RestoreLabelled(f, now) ==
  [RevokeLocked(IndexAll(f), RestoredTerminal(f, now)) EXCEPT !.byLabel = IndexAll(f).byLabel]

Restore(f, now) == RevokeLocked(IndexAll(f), RestoredTerminal(f, now))

\* Mutant: a file that fails validation is restored in part, gate closed.
LoadStorePartial(f, readable, g, now) ==
  IF f.status = Missing
  THEN NewStore
  ELSE IF readable /\ f.status = "valid"
  THEN [Restore(f.body, now) EXCEPT !.incomplete = @ \/ ~ValidPersistedState(f.body, g)]
  ELSE FailedRecoveryStore

\* loadStoreAt.  readable is FALSE when os.ReadFile fails.
LoadStore(f, readable, g, now) ==
  IF f.status = Missing
  THEN NewStore
  ELSE IF readable /\ f.status = "valid" /\ ValidPersistedState(f.body, g)
  THEN Restore(f.body, now)
  ELSE FailedRecoveryStore

(***************************************************************************)
(* State                                                                   *)
(***************************************************************************)

VARIABLES
  clock,       \* wall clock
  up,          \* the process is running
  gen,         \* the policy generation it was started with
  store,       \* the Store
  persistMu,   \* the handler holding Store.persistMu, or None
  handler,     \* the control request each handler is serving
  file,        \* the state file
  minted,      \* tokens drawn so far
  disclosed,   \* history: invocation and token of each 200 create-or-confirm answer
  terminal,    \* history: tokens whose end was acknowledged to AWF
  overridden,  \* history: reconcile opened the gate of a failed recovery
  served,      \* control requests received
  crashes      \* times the process died

vars == <<clock, up, gen, store, persistMu, handler, file, minted, disclosed,
          terminal, overridden, served, crashes>>

\* toks are the identities the operation of the handler was about, out what
\* it will answer, snap the snapshot it is writing.
HandlerType ==
  [pc   : {"idle", "create", "save", "write", "clear", "respond"},
   op   : {"none", "create", "revoke", "reconcile"},
   req  : Requests \union {None},
   now  : Time,
   toks : SUBSET Tokens,
   out  : {"none", "ok", "terminal", "denied"},
   snap : SnapshotType \union {None}]

Idle == [pc |-> "idle", op |-> "none", req |-> None, now |-> 0,
         toks |-> {}, out |-> "none", snap |-> None]

Init ==
  /\ clock = 0
  /\ up = TRUE
  /\ gen \in Generations
  /\ store = NewStore
  /\ persistMu = None
  /\ handler = [h \in Handlers |-> Idle]
  /\ file = [status |-> Missing, body |-> None]
  /\ minted = {} /\ disclosed = {} /\ terminal = {}
  /\ overridden = FALSE
  /\ served = 0
  /\ crashes = 0

(***************************************************************************)
(* create-or-confirm                                                       *)
(***************************************************************************)

\* A handler takes up a new control request.
Receive(h) ==
  /\ up
  /\ handler[h].pc = "idle"
  /\ served < MaxRequests
  /\ served' = served + 1

\* What the request leaves alone until it persists the Store.
InMemoryOnly ==
  UNCHANGED <<clock, up, gen, persistMu, file, disclosed, terminal, overridden, crashes>>

\* CreateOrConfirm reads the clock and validates before it takes the lock.
CreateOrConfirm(h, req) ==
  /\ Receive(h)
  /\ handler' = [handler EXCEPT ![h] =
       IF ValidAgainstEnvelope(req, clock)
       THEN [Idle EXCEPT !.op = "create", !.pc = "create", !.req = req, !.now = clock]
       ELSE [Idle EXCEPT !.op = "create", !.pc = "save", !.out = "denied"]]
  /\ UNCHANGED <<store, minted>>
  /\ InMemoryOnly

\* The locked part, with the time read above: what the Store is after the
\* expired identities are swept, and the identity of the invocation if any.
Swept(h)    == CleanupExpired(store, handler[h].now)
Existing(h) == Swept(h).byInvocation[Key(handler[h].req)]

\* The locked part ends: the Store becomes s and the handler goes on to
\* persist it, to answer out about the identities T.
EndLocked(h, s, out, T) ==
  /\ store' = s
  /\ handler' = [handler EXCEPT ![h].pc = "save", ![h].out = out, ![h].toks = T,
                                     ![h].now = 0]
  /\ UNCHANGED served
  /\ InMemoryOnly

\* The invocation has an identity with the same binding.
Confirm(h) ==
  /\ handler[h].pc = "create"
  /\ Existing(h) # None
  /\ LET id == Swept(h).objs[Existing(h)] IN
       /\ BindingEquals(id.req, handler[h].req)
       /\ EndLocked(h, Swept(h), IF id.revoked THEN "terminal" ELSE "ok", {Existing(h)})
  /\ UNCHANGED minted

\* The invocation has an identity with another binding, which ends it.
Mismatch(h) ==
  /\ handler[h].pc = "create"
  /\ Existing(h) # None
  /\ ~BindingEquals(Swept(h).objs[Existing(h)].req, handler[h].req)
  /\ EndLocked(h, RevokeLocked(Swept(h), {Existing(h)}), "terminal", {Existing(h)})
  /\ UNCHANGED minted

\* The admission gate is closed, or the schema bound is used up.
Deny(h) ==
  /\ handler[h].pc = "create"
  /\ Existing(h) = None
  /\ \/ store.incomplete
     \/ ~AdmitsSchemaHash(store, handler[h].req.schema)
  /\ EndLocked(h, Swept(h), "denied", {})
  /\ UNCHANGED minted

Admissible(h) ==
  /\ handler[h].pc = "create"
  /\ Existing(h) = None
  /\ ~store.incomplete
  /\ AdmitsSchemaHash(store, handler[h].req.schema)

\* The identity a handler would mint under the token t.
NewIdentity(h, t) ==
  [token     |-> t,
   req       |-> handler[h].req,
   createdAt |-> handler[h].now,
   expiresAt |-> IdentityExpiry(handler[h].req, handler[h].now),
   gen       |-> gen,
   revoked   |-> FALSE]

\* generateOpaqueToken fails: the schema slot stays taken.
MintFails(h) ==
  /\ Admissible(h)
  /\ EndLocked(h, TakeSchemaSlot(Swept(h), handler[h].req.schema), "denied", {})
  /\ UNCHANGED minted

\* A new identity.
Mint(h) ==
  /\ Admissible(h)
  /\ \E t \in Tokens \ minted :
       /\ EndLocked(h, IndexLocked(TakeSchemaSlot(Swept(h), handler[h].req.schema),
                                   NewIdentity(h, t)), "ok", {t})
       /\ minted' = minted \union {t}

(***************************************************************************)
(* revoke, revoke-by-labels, reconcile                                     *)
(***************************************************************************)

\* Revoke: AWF only knows handles of identities that were minted.  A handle
\* that is not live is revoked already.
Revoke(h, t) ==
  /\ Receive(h)
  /\ t \in minted
  /\ store' = IF t \in store.byHandle THEN RevokeLocked(store, {t}) ELSE store
  /\ handler' = [handler EXCEPT ![h] =
       [Idle EXCEPT !.op = "revoke", !.pc = "save", !.toks = {t}, !.out = "terminal"]]
  /\ UNCHANGED minted
  /\ InMemoryOnly

RevokeByLabels(h, l) ==
  /\ Receive(h)
  /\ LET T == store.byLabel[l] \intersect store.byHandle IN
       /\ store' = RevokeLocked(store, T)
       /\ handler' = [handler EXCEPT ![h] =
            [Idle EXCEPT !.op = "revoke", !.pc = "save", !.toks = T, !.out = "terminal"]]
  /\ UNCHANGED minted
  /\ InMemoryOnly

MarkReconciled(h) ==
  /\ Receive(h)
  /\ handler' = [handler EXCEPT ![h] =
       [Idle EXCEPT !.op = "reconcile", !.pc = "save", !.out = "ok"]]
  /\ UNCHANGED <<store, minted>>
  /\ InMemoryOnly

(***************************************************************************)
(* Persistence and answers                                                 *)
(***************************************************************************)

\* Mutant: SaveState without persistMu.
TakeSnapshotUnserialised(h) ==
  /\ handler[h].pc = "save"
  /\ handler' = [handler EXCEPT ![h].pc = "write",
                   ![h].snap = Snapshot(store, gen, handler[h].op = "reconcile")]
  /\ UNCHANGED <<clock, up, gen, store, persistMu, file, minted, disclosed, terminal,
                 overridden, served, crashes>>

\* SaveState, up to the snapshot: persistMu first, then a copy of the Store
\* under mu.
TakeSnapshot(h) ==
  /\ handler[h].pc = "save"
  /\ persistMu = None
  /\ persistMu' = h
  /\ handler' = [handler EXCEPT ![h].pc = "write",
                   ![h].snap = Snapshot(store, gen, handler[h].op = "reconcile")]
  /\ UNCHANGED <<clock, up, gen, store, file, minted, disclosed, terminal,
                 overridden, served, crashes>>

\* AtomicWriteFile succeeds.  SaveState returns and releases persistMu; a
\* reconcile keeps it until the gate is open.
WriteFile(h) ==
  /\ handler[h].pc = "write"
  /\ file' = [status |-> "valid", body |-> handler[h].snap]
  /\ IF handler[h].op = "reconcile"
       THEN /\ handler' = [handler EXCEPT ![h].pc = "clear", ![h].snap = None]
            /\ overridden' = (overridden \/ store.incomplete)
            /\ UNCHANGED persistMu
       ELSE /\ handler' = [handler EXCEPT ![h].pc = "respond", ![h].snap = None]
            /\ persistMu' = None
            /\ UNCHANGED overridden
  /\ UNCHANGED <<clock, up, gen, store, minted, disclosed, terminal, served, crashes>>

\* Mutant: the error of SaveState is logged and the request answered.
WriteFailsSilently(h) ==
  /\ handler[h].pc = "write"
  /\ handler' = [handler EXCEPT ![h].pc = "respond", ![h].snap = None]
  /\ persistMu' = None
  /\ UNCHANGED <<clock, up, gen, store, file, minted, disclosed, terminal, overridden, served, crashes>>

\* AtomicWriteFile fails, before the rename or, when the directory cannot
\* be synced, after it.  The caller is answered 500 and learns nothing.
WriteFails(h) ==
  /\ handler[h].pc = "write"
  /\ \E renamed \in BOOLEAN :
       /\ file' = IF renamed THEN [status |-> "valid", body |-> handler[h].snap] ELSE file
       /\ overridden' = (overridden \/ (renamed /\ handler[h].op = "reconcile"
                                                /\ store.incomplete))
  /\ persistMu' = None
  /\ handler' = [handler EXCEPT ![h] = Idle]
  /\ UNCHANGED <<clock, up, gen, store, minted, disclosed, terminal, served, crashes>>

\* The end of MarkReconciledAndSaveState.
OpenGate(h) ==
  /\ handler[h].pc = "clear"
  /\ store' = [store EXCEPT !.incomplete = FALSE]
  /\ persistMu' = None
  /\ handler' = [handler EXCEPT ![h].pc = "respond"]
  /\ UNCHANGED <<clock, up, gen, file, minted, disclosed, terminal, overridden,
                 served, crashes>>

\* The answer reaches AWF.
Respond(h) ==
  /\ handler[h].pc = "respond"
  /\ disclosed' = IF handler[h].out = "ok"
                  THEN disclosed \union
                         {[key |-> Key(handler[h].req), token |-> t] : t \in handler[h].toks}
                  ELSE disclosed
  /\ terminal' = IF handler[h].out = "terminal" THEN terminal \union handler[h].toks ELSE terminal
  /\ handler' = [handler EXCEPT ![h] = Idle]
  /\ UNCHANGED <<clock, up, gen, store, persistMu, file, minted, overridden, served, crashes>>

\* status, authorize and HasLiveExecutorBearer change the Store only by the
\* sweep they start with.
Sweep ==
  /\ up
  /\ store' = CleanupExpired(store, clock)
  /\ store' # store
  /\ UNCHANGED <<clock, up, gen, persistMu, handler, file, minted, disclosed, terminal,
                 overridden, served, crashes>>

(***************************************************************************)
(* Environment: time, crashes, damage to the file, restarts                *)
(***************************************************************************)

Tick ==
  /\ clock < MaxTime
  /\ clock' = clock + 1
  /\ UNCHANGED <<up, gen, store, persistMu, handler, file, minted, disclosed, terminal,
                 overridden, served, crashes>>

\* The process dies: memory and requests in flight are gone.
Crash ==
  /\ up
  /\ crashes < MaxCrashes
  /\ up' = FALSE
  /\ crashes' = crashes + 1
  /\ store' = NewStore
  /\ persistMu' = None
  /\ handler' = [h \in Handlers |-> Idle]
  /\ UNCHANGED <<clock, gen, file, minted, disclosed, terminal, overridden, served>>

Damage ==
  /\ ~up
  /\ file.status = "valid"
  /\ file' = [status |-> Corrupt, body |-> None]
  /\ UNCHANGED <<clock, up, gen, store, persistMu, handler, minted, disclosed, terminal,
                 overridden, served, crashes>>

Restart(g, readable) ==
  /\ ~up
  /\ up' = TRUE
  /\ gen' = g
  /\ store' = LoadStore(file, readable, g, clock)
  /\ UNCHANGED <<clock, persistMu, handler, file, minted, disclosed, terminal,
                 overridden, served, crashes>>

HandlerStep(h) ==
  \/ Confirm(h) \/ Mismatch(h) \/ Deny(h) \/ MintFails(h) \/ Mint(h)
  \/ TakeSnapshot(h) \/ WriteFile(h) \/ WriteFails(h) \/ OpenGate(h) \/ Respond(h)

Arrival(h) ==
  \/ \E req \in Requests : CreateOrConfirm(h, req)
  \/ \E t \in Tokens : Revoke(h, t)
  \/ \E l \in Labels : RevokeByLabels(h, l)
  \/ MarkReconciled(h)

Environment ==
  \/ Sweep \/ Tick \/ Crash \/ Damage
  \/ \E g \in Generations, readable \in BOOLEAN : Restart(g, readable)

Next ==
  \/ \E h \in Handlers : Arrival(h) \/ HandlerStep(h)
  \/ Environment

Spec == Init /\ [][Next]_vars

(***************************************************************************)
(* Properties                                                              *)
(***************************************************************************)

\* Type invariant: the Store, its indexes, the state file and the handlers'
\* requests keep their types; in particular every index entry is an identity
\* that was minted, and every snapshot is one LoadStore can decode.
TypeOK ==
  /\ clock \in Time
  /\ up \in BOOLEAN
  /\ gen \in Generations
  /\ store \in StoreType
  /\ persistMu \in Handlers \union {None}
  /\ handler \in [Handlers -> HandlerType]
  /\ file \in FileType
  /\ minted \in SUBSET Tokens
  /\ disclosed \in SUBSET [key : Keys, token : Tokens]
  /\ terminal \in SUBSET Tokens
  /\ overridden \in BOOLEAN
  /\ served \in Nat
  /\ crashes \in Nat

\* The four indexes of the Store agree on which identities are live: the
\* same tokens in byHandle, byBearer and byLabel (each under its own label),
\* each the unrevoked identity its invocation points to.
IndexConsistent ==
  \A t \in Tokens :
    LET id == store.objs[t]
        live == id # None /\ ~id.revoked /\ store.byInvocation[Key(id.req)] = t
    IN /\ t \in store.byHandle <=> live
       /\ t \in store.byBearer <=> live
       /\ \A l \in Labels : t \in store.byLabel[l] <=> live /\ Label(id.req) = l

\* While the recovery gate is closed the Store is empty, and so is the file
\* that carries the closed gate to the next process.
ClosedGateIsEmpty ==
  /\ store.incomplete => \A k \in Keys : store.byInvocation[k] = None
  /\ file.status = "valid" /\ file.body.incomplete => Persisted(file.body) = {}

\* An end AWF was told of (a revocation, a binding mismatch, a terminal
\* invocation) is final: no data-plane call is accepted for the identity
\* again, through writes that fail, crashes, damage and restarts.
TerminalIsForever ==
  \A t \in terminal : t \notin LiveExecutors(store, clock)

\* What SaveState wrote, LoadStore accepts: a restart with the same
\* generation never fails closed on an intact file, so the dynamic schema
\* bound and every deadline hold of all that was ever saved.
SavedStateIsRecoverable ==
  file.status = "valid" => ValidPersistedState(file.body, file.body.gen)

\* The file only advances: unless the process is in a failed recovery, no
\* write replaces the identity recorded for an invocation, forgets it, or
\* brings a tombstone back to life.
FileOnlyAdvances ==
  [][ (file.status = "valid" /\ file'.status = "valid" /\ ~store.incomplete) =>
        \A k \in Keys : file.body.ids[k] # None =>
          /\ file'.body.ids[k] # None
          /\ file'.body.ids[k].token = file.body.ids[k].token
          /\ file.body.ids[k].revoked => file'.body.ids[k].revoked ]_vars

\* The controller keeps the promise DelegatedBearer states: whatever handlers
\* interleave, writes fail and processes die, a bearer is accepted once and up
\* to its end, comes back with a new process only if its end was not
\* acknowledged, and no two answers disclose different bearers for an
\* invocation, unless an operator reconciles a failed recovery away.
Promise == INSTANCE DelegatedBearer WITH
  Invocations <- Keys, live <- LiveExecutors(store, clock), seen <- minted,
  told <- disclosed, ended <- terminal
KeepsPromise == Promise!Spec

\* docs/DELEGATION.md, "Restart recovery": after a restart with outstanding
\* labelled state the store reports recovery_incomplete until AWF reconciles.
RestartGatesOutstandingState ==
  [][ (~up /\ up' /\ \E l \in Labels : store'.byLabel[l] # {}) => store'.incomplete ]_vars

=============================================================================
