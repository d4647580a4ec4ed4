------------------------ MODULE DelegationStoreProofs ------------------------
(***************************************************************************)
(* What the delegation controller guarantees, for any number of handlers,  *)
(* tokens and requests, any envelope, and any number of crashes.           *)
(***************************************************************************)
EXTENDS DelegationStore, FiniteSetTheorems, TLAPS

(***************************************************************************)
(* A Store on its own.                                                     *)
(***************************************************************************)

LiveOf(s) == {t \in Tokens : s.objs[t] # None /\ ~s.objs[t].revoked}

\* The schema hashes H bound those of the identities I.
HashesBound(H, I) ==
  IF ClosedSchemaSet THEN H = {}
  ELSE /\ IsFiniteSet(H) /\ Cardinality(H) <= Envelope.maxDynamic
       /\ \A id \in I : id.req.schema \in H

\* The parts of a Store that hold also while it is being recovered, before
\* what has ended leaves the live indexes.
CoreInv(s, g) ==
  /\ s \in StoreType
  /\ \A t \in Tokens : s.objs[t] # None =>
       /\ s.objs[t].token = t
       /\ s.byInvocation[Key(s.objs[t].req)] = t
       /\ ValidRestored(s.objs[t], g)
  /\ \A k \in Keys : s.byInvocation[k] # None =>
       /\ s.objs[s.byInvocation[k]] # None
       /\ Key(s.objs[s.byInvocation[k]].req) = k
  /\ HashesBound(s.hashes, {s.objs[t] : t \in Tokens} \ {None})
  /\ s.incomplete => \A t \in Tokens : s.objs[t] = None

\* The live indexes hold the identities of H, and no others.
Indexed(s, H) ==
  /\ s.byHandle = H /\ s.byBearer = H
  /\ \A l \in Labels : s.byLabel[l] = {t \in H : Label(s.objs[t].req) = l}

\* The Store of a process that runs with generation g.
StoreInv(s, g) == CoreInv(s, g) /\ Indexed(s, LiveOf(s))

\* A snapshot, in the file or on its way to it, of tokens of M.
SnapInv(f, M) ==
  /\ f \in SnapshotType
  /\ \A k \in Keys : f.ids[k] # None =>
       Key(f.ids[k].req) = k /\ ValidRestored(f.ids[k], f.gen) /\ f.ids[k].token \in M
  /\ \A j, k \in Keys : f.ids[j] # None /\ f.ids[k] # None /\ f.ids[j].token = f.ids[k].token
                          => j = k
  /\ HashesBound(f.hashes, Persisted(f))
  /\ f.incomplete => \A k \in Keys : f.ids[k] = None

(***************************************************************************)
(* Stores and snapshots over time.                                         *)
(***************************************************************************)

Dead(s, t)   == s.objs[t] = None \/ s.objs[t].revoked
DeadIn(f, t) == \A k \in Keys : f.ids[k] # None /\ f.ids[k].token = t => f.ids[k].revoked

\* What f records of an invocation, s and g still record, or its end.
CoveredBy(f, s) ==
  \A k \in Keys : f.ids[k] # None =>
    /\ s.byInvocation[k] = f.ids[k].token
    /\ f.ids[k].revoked => s.objs[f.ids[k].token].revoked
Advances(f, g) ==
  \A k \in Keys : f.ids[k] # None =>
    /\ g.ids[k] # None
    /\ g.ids[k].token = f.ids[k].token
    /\ f.ids[k].revoked => g.ids[k].revoked

Has(f, k, t) == f.ids[k] # None /\ f.ids[k].token = t

(***************************************************************************)
(* The invariant.                                                          *)
(***************************************************************************)

Valid(fl) == fl.status = "valid"

\* A process that is down has no memory.
DownInv ==
  ~up => /\ store = NewStore
         /\ persistMu = None
         /\ \A h \in Handlers : handler[h].pc = "idle"

\* The handler that writes the file is the one that holds persistMu.
LockInv == \A h \in Handlers : persistMu = h <=> handler[h].pc \in {"write", "clear"}

\* An identity was minted before it is anywhere.
MintedInv ==
  /\ \A t \in Tokens : store.objs[t] # None => t \in minted
  /\ terminal \subseteq minted

\* A handler x between two steps of its request, with the Store st, the file
\* fl, the tokens M minted and the time now.
HandlerInv(x, st, fl, M, now, ov) ==
  /\ x.toks \subseteq M
  /\ x.pc = "create" => /\ x.op = "create" /\ x.req \in Requests /\ x.now <= now
                        /\ ValidAgainstEnvelope(x.req, x.now)
  /\ x.op = "reconcile" => x.toks = {}
  /\ x.pc = "write" =>
       /\ SnapInv(x.snap, M) /\ CoveredBy(x.snap, st)
       /\ ~st.incomplete /\ Valid(fl) => Advances(fl.body, x.snap)
       /\ st.incomplete /\ x.op # "reconcile" => x.snap.incomplete
  /\ x.pc = "clear" => /\ x.op = "reconcile" /\ Valid(fl) /\ CoveredBy(fl.body, st)
                       /\ st.incomplete => ov

\* What a handler x is to answer is so in the Store, and in the file once
\* it has saved the Store.
AnswerInv(x, hd, st, fl) ==
  /\ x.pc \in {"save", "write", "respond"} /\ x.out = "terminal" => \A t \in x.toks :
       /\ Dead(st, t)
       /\ x.pc = "write" => DeadIn(x.snap, t)
       /\ x.pc = "respond" => /\ Valid(fl) => DeadIn(fl.body, t)
                              /\ \A g \in Handlers : hd[g].pc = "write" => DeadIn(hd[g].snap, t)
  /\ x.pc \in {"save", "write", "respond"} /\ x.out = "ok" => \A t \in x.toks :
       /\ x.req \in Requests /\ x.toks = {t} /\ st.byInvocation[Key(x.req)] = t
       /\ x.pc = "write" => Has(x.snap, Key(x.req), t)
       /\ x.pc = "respond" => Valid(fl) /\ Has(fl.body, Key(x.req), t)

HandlersInv ==
  \A h \in Handlers : /\ HandlerInv(handler[h], store, file, minted, clock, overridden)
                      /\ AnswerInv(handler[h], handler, store, file)

\* An acknowledged end is in the Store and wherever a Store may be
\* recovered from.
TerminalInv ==
  \A t \in terminal :
    /\ Dead(store, t)
    /\ Valid(file) => DeadIn(file.body, t)
    /\ \A h \in Handlers : handler[h].pc = "write" => DeadIn(handler[h].snap, t)

\* Unless the gate is closed, the Store knows all the file does.
FileInv ==
  /\ Valid(file) => SnapInv(file.body, minted)
  /\ up /\ ~store.incomplete /\ Valid(file) => CoveredBy(file.body, store)

\* A bearer that was disclosed stays the one of its invocation.
ToldInv ==
  ~overridden => \A d \in disclosed :
    /\ file.status # Missing
    /\ Valid(file) => file.body.incomplete \/ Has(file.body, d.key, d.token)
    /\ up /\ ~store.incomplete => store.byInvocation[d.key] = d.token
    /\ \A h \in Handlers : handler[h].pc = "write" /\ ~store.incomplete
         => Has(handler[h].snap, d.key, d.token)

DelegationInv ==
  /\ TypeOK /\ StoreInv(store, gen)
  /\ DownInv /\ LockInv /\ MintedInv /\ HandlersInv
  /\ TerminalInv /\ FileInv /\ ToldInv

(***************************************************************************)
(* Operators on a Store.                                                   *)
(***************************************************************************)

\* A request has its key, its label and its schema hash.
LEMMA RequestKeys ==
  \A r \in Requests : Key(r) \in Keys /\ Label(r) \in Labels /\ r.schema \in SchemaHashes
BY DEF Keys, Labels, SchemaHashes

\* Revoking an identity changes nothing else about it.
LEMMA RevokedIdentity ==
  ASSUME NEW id \in Identity
  PROVE  LET r == [id EXCEPT !.revoked = TRUE] IN
         /\ r \in Identity /\ r.revoked /\ r # None
         /\ r.token = id.token /\ r.req = id.req /\ r.gen = id.gen
         /\ r.createdAt = id.createdAt /\ r.expiresAt = id.expiresAt
         /\ \A g : ValidRestored(id, g) => ValidRestored(r, g)
<1> DEFINE r == [id EXCEPT !.revoked = TRUE]
<1>1. /\ r \in Identity /\ r.revoked
      /\ r.token = id.token /\ r.req = id.req /\ r.gen = id.gen
      /\ r.createdAt = id.createdAt /\ r.expiresAt = id.expiresAt
  BY DEF Identity
<1>2. r # None
  BY <1>1, NoneAssumption
<1> HIDE DEF r
<1>3. \A g : ValidRestored(id, g) => ValidRestored(r, g)
  BY <1>1 DEF ValidRestored
<1> QED
  BY <1>1, <1>2, <1>3 DEF r

\* What a Store r is once the identities T of the Store s are revoked.
Revoked(s, r, T) ==
  /\ r.objs = [t \in Tokens |->
                 IF t \in T THEN [s.objs[t] EXCEPT !.revoked = TRUE] ELSE s.objs[t]]
  /\ r.byInvocation = s.byInvocation
  /\ r.hashes = s.hashes
  /\ r.incomplete = s.incomplete

\* An object of the Store is an identity.
LEMMA Objects ==
  ASSUME NEW g, NEW s, CoreInv(s, g), NEW t \in Tokens, s.objs[t] # None
  PROVE  /\ s.objs[t] \in Identity /\ s.objs[t].req \in Requests
         /\ s.objs[t].revoked \in BOOLEAN /\ s.objs[t].expiresAt \in Nat
         /\ Key(s.objs[t].req) \in Keys /\ Label(s.objs[t].req) \in Labels
BY RequestKeys DEF CoreInv, StoreType, Identity, Time

\* revokeLocked: the fields of the Store it returns.
LEMMA RevokeFields ==
  ASSUME NEW g, NEW s, CoreInv(s, g), NEW T \in SUBSET Tokens, \A t \in T : s.objs[t] # None
  PROVE  /\ Revoked(s, RevokeLocked(s, T), T)
         /\ RevokeLocked(s, T).byHandle = s.byHandle \ T
         /\ RevokeLocked(s, T).byBearer = s.byBearer \ T
         /\ RevokeLocked(s, T).byLabel =
              [l \in Labels |-> s.byLabel[l] \ {t \in T : Label(s.objs[t].req) = l}]
         /\ DOMAIN RevokeLocked(s, T) = DOMAIN s
<1> DEFINE ofKey(k) == {t \in T : Key(s.objs[t].req) = k}
           F == [k \in Keys |->
                   IF ofKey(k) = {} THEN s.byInvocation[k] ELSE CHOOSE t \in ofKey(k) : TRUE]
<1>1. F = s.byInvocation
  <2>1. s.byInvocation \in [Keys -> Tokens \union {None}]
    BY DEF CoreInv, StoreType
  <2>2. ASSUME NEW k \in Keys PROVE F[k] = s.byInvocation[k]
    <3>1. CASE ofKey(k) = {}
      BY <3>1
    <3>2. CASE ofKey(k) # {}
      <4>1. (CHOOSE t \in ofKey(k) : TRUE) \in ofKey(k)
        BY <3>2, Zenon
      <4>2. F[k] \in ofKey(k)
        BY <3>2, <4>1
      <4>3. \A t \in ofKey(k) : s.byInvocation[k] = t
        BY DEF CoreInv
      <4> QED
        BY <4>2, <4>3
    <3> QED
      BY <3>1, <3>2
  <2> QED
    BY <2>1, <2>2
<1>2. RevokeLocked(s, T) =
        [s EXCEPT
           !.objs = [t \in Tokens |->
                       IF t \in T THEN [s.objs[t] EXCEPT !.revoked = TRUE] ELSE s.objs[t]],
           !.byHandle = @ \ T,
           !.byBearer = @ \ T,
           !.byInvocation = F,
           !.byLabel = [l \in Labels |-> s.byLabel[l] \ {t \in T : Label(s.objs[t].req) = l}]]
  BY DEF RevokeLocked
<1> HIDE DEF F
<1> QED
  BY <1>1, <1>2 DEF Revoked, CoreInv, StoreType

\* r has the identities of s, those of T ended.
SameButEnded(s, r, T) ==
  /\ \A t \in Tokens : s.objs[t] # None <=> r.objs[t] # None
  /\ \A t \in Tokens : s.objs[t] # None =>
       /\ r.objs[t].req = s.objs[t].req
       /\ r.objs[t].expiresAt = s.objs[t].expiresAt
       /\ r.objs[t].revoked <=> t \in T \/ s.objs[t].revoked

\* A Store stays sound when identities are revoked.
LEMMA RevokeCore ==
  ASSUME NEW g, NEW s, CoreInv(s, g), NEW T \in SUBSET Tokens, \A t \in T : s.objs[t] # None,
         NEW r \in StoreType, Revoked(s, r, T)
  PROVE  /\ CoreInv(r, g)
         /\ SameButEnded(s, r, T)
<1>1. ASSUME NEW t \in Tokens, s.objs[t] # None
      PROVE  /\ r.objs[t] # None
             /\ r.objs[t].token = s.objs[t].token
             /\ r.objs[t].req = s.objs[t].req
             /\ r.objs[t].expiresAt = s.objs[t].expiresAt
             /\ r.objs[t].revoked <=> t \in T \/ s.objs[t].revoked
             /\ ValidRestored(r.objs[t], g)
  <2>1. s.objs[t] \in Identity /\ ValidRestored(s.objs[t], g)
    BY <1>1, Objects DEF CoreInv
  <2>2. CASE t \in T
    <3>1. r.objs[t] = [s.objs[t] EXCEPT !.revoked = TRUE]
      BY <2>2 DEF Revoked
    <3> QED
      BY <2>1, <2>2, <3>1, RevokedIdentity
  <2>3. CASE t \notin T
    <3>1. r.objs[t] = s.objs[t]
      BY <2>3 DEF Revoked
    <3> QED
      BY <1>1, <2>1, <2>3, <3>1
  <2> QED
    BY <2>2, <2>3
<1>2. \A t \in Tokens : s.objs[t] = None => r.objs[t] = None
  BY DEF Revoked
<1>3. HashesBound(r.hashes, {r.objs[t] : t \in Tokens} \ {None})
  <2>1. HashesBound(s.hashes, {s.objs[t] : t \in Tokens} \ {None}) /\ r.hashes = s.hashes
    BY DEF CoreInv, Revoked
  <2>2. \A t \in Tokens : r.objs[t] # None => s.objs[t] # None /\ r.objs[t].req = s.objs[t].req
    BY <1>1, <1>2
  <2> QED
    BY <2>1, <2>2 DEF HashesBound
<1>4. CoreInv(r, g)
  <2>1. \A t \in Tokens : r.objs[t] # None =>
         /\ r.objs[t].token = t
         /\ r.byInvocation[Key(r.objs[t].req)] = t
         /\ ValidRestored(r.objs[t], g)
    BY <1>1, <1>2 DEF CoreInv, Revoked
  <2>2. \A k \in Keys : r.byInvocation[k] # None =>
         /\ r.objs[r.byInvocation[k]] # None
         /\ Key(r.objs[r.byInvocation[k]].req) = k
    <3>1. \A k \in Keys : s.byInvocation[k] # None => s.byInvocation[k] \in Tokens
      BY DEF CoreInv, StoreType
    <3> QED
      BY <1>1, <3>1 DEF CoreInv, Revoked
  <2>3. r.incomplete => \A t \in Tokens : r.objs[t] = None
    BY <1>2 DEF CoreInv, Revoked
  <2> QED
    BY <1>3, <2>1, <2>2, <2>3 DEF CoreInv
<1> QED
  BY <1>1, <1>2, <1>4 DEF SameButEnded

\* revokeLocked leaves the live identities, and no others, in the indexes.
LEMMA RevokeKeeps ==
  ASSUME NEW g, NEW s, CoreInv(s, g), NEW T \in SUBSET Tokens, \A t \in T : s.objs[t] # None,
         NEW H \in SUBSET Tokens, Indexed(s, H), H \ T = LiveOf(s) \ T,
         NEW r, r = RevokeLocked(s, T)
  PROVE  /\ StoreInv(r, g) /\ Revoked(s, r, T)
         /\ SameButEnded(s, r, T)
<1>1. /\ Revoked(s, r, T)
      /\ r.byHandle = H \ T /\ r.byBearer = H \ T
      /\ r.byLabel = [l \in Labels |-> s.byLabel[l] \ {t \in T : Label(s.objs[t].req) = l}]
  BY RevokeFields DEF Indexed
<1>2. r \in StoreType
  <2>1. s \in StoreType
    BY DEF CoreInv
  <2>2. \A t \in T : [s.objs[t] EXCEPT !.revoked = TRUE] \in Identity
    BY Objects, RevokedIdentity
  <2>3. [t \in Tokens |-> IF t \in T THEN [s.objs[t] EXCEPT !.revoked = TRUE] ELSE s.objs[t]]
          \in [Tokens -> Identity \union {None}]
    BY <2>1, <2>2 DEF StoreType
  <2>4. r.objs \in [Tokens -> Identity \union {None}]
    BY <1>1, <2>3 DEF Revoked
  <2>5. r.byLabel \in [Labels -> SUBSET Tokens]
    BY <1>1, <2>1 DEF StoreType
  <2>6. r = [objs |-> r.objs, byHandle |-> r.byHandle, byBearer |-> r.byBearer,
             byInvocation |-> r.byInvocation, byLabel |-> r.byLabel, hashes |-> r.hashes,
             incomplete |-> r.incomplete]
    BY <2>1 DEF RevokeLocked, StoreType
  <2> QED
    BY <1>1, <2>1, <2>4, <2>5, <2>6 DEF Revoked, StoreType
<1>3. /\ CoreInv(r, g)
      /\ SameButEnded(s, r, T)
  BY <1>1, <1>2, RevokeCore
<1>4. LiveOf(r) = LiveOf(s) \ T
  BY <1>3 DEF LiveOf, SameButEnded
<1>5. Indexed(r, LiveOf(r))
  <2>1. \A t \in LiveOf(s) : r.objs[t].req = s.objs[t].req
    BY <1>3 DEF LiveOf, SameButEnded
  <2>2. ASSUME NEW l \in Labels
        PROVE  r.byLabel[l] = {t \in LiveOf(r) : Label(r.objs[t].req) = l}
    <3>1. r.byLabel[l] = {t \in H : Label(s.objs[t].req) = l} \ {t \in T : Label(s.objs[t].req) = l}
      BY <1>1 DEF Indexed
    <3>2. r.byLabel[l] = {t \in H \ T : Label(s.objs[t].req) = l}
      BY <3>1
    <3> QED
      BY <1>4, <2>1, <3>2
  <2> QED
    BY <1>1, <1>4, <2>2 DEF Indexed
<1> QED
  BY <1>1, <1>3, <1>5 DEF StoreInv

\* A Store r continues the Store s: nothing s knows is forgotten or comes
\* back to life, and what is new is not a token of M.
Continues(s, r, M) ==
  /\ \A k \in Keys : s.byInvocation[k] # None => r.byInvocation[k] = s.byInvocation[k]
  /\ \A t \in Tokens : s.objs[t] # None => r.objs[t] # None /\ (s.objs[t].revoked => r.objs[t].revoked)
  /\ \A t \in M : s.objs[t] = None => r.objs[t] = None
  /\ r.incomplete = s.incomplete

\* Revoking live identities continues the Store.
LEMMA RevokeContinues ==
  ASSUME NEW g, NEW s, StoreInv(s, g), NEW T \in SUBSET Tokens, \A t \in T : s.objs[t] # None,
         NEW r, r = RevokeLocked(s, T), NEW M \in SUBSET Tokens
  PROVE  /\ StoreInv(r, g) /\ Continues(s, r, M)
         /\ SameButEnded(s, r, T) /\ Revoked(s, r, T)
         /\ LiveOf(r) = LiveOf(s) \ T
<1>1. CoreInv(s, g) /\ Indexed(s, LiveOf(s)) /\ LiveOf(s) \in SUBSET Tokens
  BY DEF StoreInv, LiveOf
<1>2. StoreInv(r, g) /\ Revoked(s, r, T) /\ SameButEnded(s, r, T)
  BY <1>1, RevokeKeeps
<1>3. Continues(s, r, M)
  BY <1>2 DEF Continues, Revoked, SameButEnded
<1>4. LiveOf(r) = LiveOf(s) \ T
  BY <1>2 DEF LiveOf, SameButEnded
<1> QED
  BY <1>2, <1>3, <1>4

\* The live identities a sweep at now ends.
Expired(s, now) == {t \in LiveOf(s) : now >= s.objs[t].expiresAt}

\* cleanupExpiredLocked ends the expired identities, and no others.
LEMMA SweepContinues ==
  ASSUME NEW g, NEW s, StoreInv(s, g), NEW now, NEW r, r = CleanupExpired(s, now),
         NEW M \in SUBSET Tokens
  PROVE  /\ StoreInv(r, g) /\ Continues(s, r, M)
         /\ SameButEnded(s, r, Expired(s, now)) /\ Revoked(s, r, Expired(s, now))
         /\ LiveOf(r) = LiveOf(s) \ Expired(s, now)
<1>1. s.byHandle = LiveOf(s)
  BY DEF StoreInv, Indexed
<1>2. r = RevokeLocked(s, Expired(s, now))
  BY <1>1 DEF CleanupExpired, Expired
<1>3. Expired(s, now) \in SUBSET Tokens /\ \A t \in Expired(s, now) : s.objs[t] # None
  BY DEF Expired, LiveOf
<1> HIDE DEF Expired
<1> QED
  BY <1>2, <1>3, RevokeContinues

\* The bearers the data plane accepts are the live ones that have not expired.
LEMMA LiveExecutorsAre ==
  ASSUME NEW g, NEW s, StoreInv(s, g), NEW now \in Nat
  PROVE  LiveExecutors(s, now) = IF now >= Envelope.expiresAt THEN {}
                                 ELSE {t \in LiveOf(s) : now < s.objs[t].expiresAt}
<1> DEFINE r == CleanupExpired(s, now)
<1>1. StoreInv(r, g) /\ LiveOf(r) = LiveOf(s) \ Expired(s, now)
  BY SweepContinues
<1>2. r.byBearer = LiveOf(s) \ Expired(s, now)
  BY <1>1 DEF StoreInv, Indexed
<1>3. \A t \in LiveOf(s) : s.objs[t].expiresAt \in Nat
  BY Objects DEF StoreInv, LiveOf
<1>4. r.byBearer = {t \in LiveOf(s) : now < s.objs[t].expiresAt}
  BY <1>2, <1>3 DEF Expired
<1>5. s.incomplete => LiveOf(s) = {}
  BY DEF StoreInv, CoreInv, LiveOf
<1> QED
  BY <1>4, <1>5 DEF LiveExecutors

\* A schema hash that is admitted keeps within the bound.
LEMMA SlotKeeps ==
  ASSUME NEW g, NEW s, StoreInv(s, g), NEW hash \in SchemaHashes, AdmitsSchemaHash(s, hash),
         NEW r, r = TakeSchemaSlot(s, hash), NEW M \in SUBSET Tokens
  PROVE  /\ StoreInv(r, g) /\ Continues(s, r, M) /\ LiveOf(r) = LiveOf(s)
         /\ r.objs = s.objs /\ r.byInvocation = s.byInvocation /\ r.incomplete = s.incomplete
         /\ ~ClosedSchemaSet => hash \in r.hashes
<1>1. CASE ClosedSchemaSet
  <2>1. r = s
    BY <1>1 DEF TakeSchemaSlot
  <2> QED
    BY <1>1, <2>1 DEF Continues
<1>2. CASE ~ClosedSchemaSet
  <2>0. s \in StoreType
    BY DEF StoreInv, CoreInv
  <2>1. r = [s EXCEPT !.hashes = @ \union {hash}]
    BY <1>2 DEF TakeSchemaSlot
  <2>2. /\ r \in StoreType /\ r.objs = s.objs /\ r.byInvocation = s.byInvocation
        /\ r.incomplete = s.incomplete /\ r.hashes = s.hashes \union {hash}
        /\ r.byHandle = s.byHandle /\ r.byBearer = s.byBearer /\ r.byLabel = s.byLabel
    BY <2>0, <2>1 DEF StoreType
  <2>3. IsFiniteSet(s.hashes) /\ Cardinality(s.hashes) <= Envelope.maxDynamic
    BY <1>2 DEF StoreInv, CoreInv, HashesBound
  <2>4. hash \in s.hashes \/ Cardinality(s.hashes) < Envelope.maxDynamic
    BY <1>2 DEF AdmitsSchemaHash, ClosedSchemaSet
  <2>5. IsFiniteSet(r.hashes) /\ Cardinality(r.hashes) <= Envelope.maxDynamic
    <3>1. CASE hash \in s.hashes
      <4>1. r.hashes = s.hashes
        BY <2>2, <3>1
      <4> QED
        BY <2>3, <4>1
    <3>2. CASE hash \notin s.hashes
      <4>1. IsFiniteSet(r.hashes) /\ Cardinality(r.hashes) = Cardinality(s.hashes) + 1
        <5> DEFINE S == s.hashes
        <5> HIDE DEF S
        <5>1. IsFiniteSet(S \union {hash})
              /\ Cardinality(S \union {hash}) = IF hash \in S THEN Cardinality(S) ELSE Cardinality(S) + 1
          BY <2>3, FS_AddElement DEF S
        <5> QED
          BY <2>2, <3>2, <5>1 DEF S
      <4>2. Cardinality(s.hashes) \in Nat
        BY <2>3, FS_CardinalityType
      <4> QED
        BY <2>4, <3>2, <4>1, <4>2, EnvelopeAssumption
    <3> QED
      BY <3>1, <3>2
  <2>6. HashesBound(r.hashes, {r.objs[t] : t \in Tokens} \ {None})
    BY <1>2, <2>2, <2>5 DEF HashesBound, StoreInv, CoreInv
  <2>7. CoreInv(r, g)
    BY <2>2, <2>6 DEF StoreInv, CoreInv
  <2>8. LiveOf(r) = LiveOf(s) /\ Continues(s, r, M)
    BY <2>2 DEF LiveOf, Continues
  <2>9. Indexed(r, LiveOf(r))
    BY <2>2, <2>8 DEF StoreInv, Indexed
  <2> QED
    BY <2>2, <2>7, <2>8, <2>9 DEF StoreInv
<1> QED
  BY <1>1, <1>2

\* indexLocked of a new identity, of an invocation that has none.
LEMMA IndexKeeps ==
  ASSUME NEW g, NEW s, StoreInv(s, g), ~s.incomplete, NEW t \in Tokens, s.objs[t] = None,
         NEW id \in Identity, id.token = t, ~id.revoked, ValidRestored(id, g),
         s.byInvocation[Key(id.req)] = None,
         ~ClosedSchemaSet => id.req.schema \in s.hashes,
         NEW r, r = IndexLocked(s, id), NEW M \in SUBSET Tokens, t \notin M
  PROVE  /\ StoreInv(r, g) /\ Continues(s, r, M)
         /\ r.objs = [s.objs EXCEPT ![t] = id]
         /\ r.byInvocation = [s.byInvocation EXCEPT ![Key(id.req)] = t]
         /\ LiveOf(r) = LiveOf(s) \union {t}
<1>0. /\ s \in StoreType /\ id.req \in Requests /\ Key(id.req) \in Keys /\ Label(id.req) \in Labels
      /\ id # None
  BY RequestKeys, NoneAssumption DEF StoreInv, CoreInv, Identity
<1>1. /\ r.objs = [s.objs EXCEPT ![t] = id]
      /\ r.byInvocation = [s.byInvocation EXCEPT ![Key(id.req)] = t]
      /\ r.byHandle = s.byHandle \union {t} /\ r.byBearer = s.byBearer \union {t}
      /\ r.byLabel = [s.byLabel EXCEPT ![Label(id.req)] = @ \union {t}]
      /\ r.hashes = s.hashes /\ r.incomplete = s.incomplete
  BY <1>0 DEF IndexLocked, StoreType
<1>2. r \in StoreType
  BY <1>0 DEF IndexLocked, StoreType
<1>3. r.objs[t] = id /\ \A u \in Tokens \ {t} : r.objs[u] = s.objs[u]
  BY <1>0, <1>1 DEF StoreType
<1>4. /\ r.byInvocation[Key(id.req)] = t
      /\ \A k \in Keys \ {Key(id.req)} : r.byInvocation[k] = s.byInvocation[k]
  BY <1>0, <1>1 DEF StoreType
<1>5. \A u \in Tokens : s.objs[u] # None => Key(s.objs[u].req) # Key(id.req)
  BY NoneAssumption DEF StoreInv, CoreInv
<1>6. CoreInv(r, g)
  <2>1. ASSUME NEW u \in Tokens, r.objs[u] # None
        PROVE  /\ r.objs[u].token = u
               /\ r.byInvocation[Key(r.objs[u].req)] = u
               /\ ValidRestored(r.objs[u], g)
    <3>1. CASE u = t
      BY <1>3, <1>4, <3>1
    <3>2. CASE u # t
      <4>1. r.objs[u] = s.objs[u] /\ s.objs[u] # None
        BY <1>3, <2>1, <3>2
      <4>2. Key(s.objs[u].req) \in Keys
        BY <4>1, Objects DEF StoreInv
      <4> QED
        BY <1>4, <1>5, <4>1, <4>2 DEF StoreInv, CoreInv
    <3> QED
      BY <3>1, <3>2
  <2>2. ASSUME NEW k \in Keys, r.byInvocation[k] # None
        PROVE  r.objs[r.byInvocation[k]] # None /\ Key(r.objs[r.byInvocation[k]].req) = k
    <3>1. CASE k = Key(id.req)
      BY <1>0, <1>3, <1>4, <3>1
    <3>2. CASE k # Key(id.req)
      <4>1. r.byInvocation[k] = s.byInvocation[k] /\ s.byInvocation[k] \in Tokens
        BY <1>0, <1>4, <2>2, <3>2 DEF StoreType
      <4>2. s.objs[s.byInvocation[k]] # None /\ Key(s.objs[s.byInvocation[k]].req) = k
        BY <2>2, <4>1 DEF StoreInv, CoreInv
      <4> QED
        BY <1>3, <4>1, <4>2
    <3> QED
      BY <3>1, <3>2
  <2>3. HashesBound(r.hashes, {r.objs[u] : u \in Tokens} \ {None})
    <3>1. {r.objs[u] : u \in Tokens} \ {None} \subseteq ({s.objs[u] : u \in Tokens} \ {None}) \union {id}
      BY <1>3
    <3>2. HashesBound(s.hashes, {s.objs[u] : u \in Tokens} \ {None})
      BY DEF StoreInv, CoreInv
    <3> QED
      BY <1>1, <3>1, <3>2 DEF HashesBound
  <2> QED
    BY <1>1, <1>2, <2>1, <2>2, <2>3 DEF CoreInv
<1>7. LiveOf(r) = LiveOf(s) \union {t}
  BY <1>0, <1>3 DEF LiveOf
<1>8. Indexed(r, LiveOf(r))
  <2>1. r.byHandle = LiveOf(r) /\ r.byBearer = LiveOf(r)
    BY <1>1, <1>7 DEF StoreInv, Indexed
  <2>2. ASSUME NEW l \in Labels
        PROVE  r.byLabel[l] = {u \in LiveOf(r) : Label(r.objs[u].req) = l}
    <3>1. s.byLabel[l] = {u \in LiveOf(s) : Label(s.objs[u].req) = l}
      BY DEF StoreInv, Indexed
    <3>2. \A u \in LiveOf(s) : u # t /\ r.objs[u] = s.objs[u]
      BY <1>3 DEF LiveOf
    <3>3. r.byLabel[l] = IF l = Label(id.req) THEN s.byLabel[l] \union {t} ELSE s.byLabel[l]
      BY <1>0, <1>1 DEF StoreType
    <3> QED
      BY <1>3, <1>7, <3>1, <3>2, <3>3
  <2> QED
    BY <2>1, <2>2 DEF Indexed
<1>9. Continues(s, r, M)
  <2>1. \A k \in Keys : s.byInvocation[k] # None => r.byInvocation[k] = s.byInvocation[k]
    BY <1>4
  <2>2. \A u \in Tokens : s.objs[u] # None => r.objs[u] = s.objs[u]
    BY <1>3
  <2>3. \A u \in M : s.objs[u] = None => r.objs[u] = None
    BY <1>3
  <2> QED
    BY <1>1, <2>1, <2>2, <2>3 DEF Continues
<1> QED
  BY <1>1, <1>6, <1>7, <1>8, <1>9 DEF StoreInv

\* The Store of a process that starts without a file is empty.
LEMMA NewStoreSound ==
  ASSUME NEW g, NEW incomplete \in BOOLEAN
  PROVE  /\ StoreInv([NewStore EXCEPT !.incomplete = incomplete], g)
         /\ StoreInv(NewStore, g)
         /\ LiveOf(NewStore) = {}
<1> DEFINE s == [NewStore EXCEPT !.incomplete = incomplete]
<1>0. NewStore \in StoreType /\ s \in StoreType
  BY DEF NewStore, StoreType
<1>1. /\ s.objs = NewStore.objs /\ s.byHandle = {} /\ s.byBearer = {}
      /\ s.byInvocation = NewStore.byInvocation /\ s.byLabel = NewStore.byLabel /\ s.hashes = {}
      /\ NewStore.byHandle = {} /\ NewStore.byBearer = {} /\ NewStore.hashes = {}
      /\ \A t \in Tokens : NewStore.objs[t] = None
      /\ \A k \in Keys : NewStore.byInvocation[k] = None
      /\ \A l \in Labels : NewStore.byLabel[l] = {}
      /\ NewStore.incomplete = FALSE
  BY DEF NewStore
<1> HIDE DEF s
<1>2. HashesBound({}, {NewStore.objs[t] : t \in Tokens} \ {None})
  <2>1. {NewStore.objs[t] : t \in Tokens} \ {None} = {}
    BY <1>1
  <2>2. IsFiniteSet({}) /\ Cardinality({}) = 0
    BY FS_EmptySet
  <2> QED
    BY <2>1, <2>2, EnvelopeAssumption DEF HashesBound
<1>3. LiveOf(s) = {} /\ LiveOf(NewStore) = {}
  BY <1>1 DEF LiveOf
<1>4. CoreInv(s, g)
  BY <1>0, <1>1, <1>2 DEF CoreInv
<1>5. CoreInv(NewStore, g)
  BY <1>0, <1>1, <1>2 DEF CoreInv
<1>6. Indexed(s, {}) /\ Indexed(NewStore, {})
  BY <1>1 DEF Indexed
<1> QED
  BY <1>3, <1>4, <1>5, <1>6 DEF StoreInv, s

(***************************************************************************)
(* Snapshots.                                                              *)
(***************************************************************************)

\* What a snapshot records is what the Store knows.
LEMMA SnapshotSound ==
  ASSUME NEW g \in Generations, NEW s, StoreInv(s, g), NEW force \in BOOLEAN,
         NEW M, \A t \in Tokens : s.objs[t] # None => t \in M,
         NEW f, f = Snapshot(s, g, force)
  PROVE  /\ SnapInv(f, M) /\ CoveredBy(f, s)
         /\ f.incomplete = (s.incomplete /\ ~force)
         /\ \A k \in Keys : f.ids[k] = IF s.byInvocation[k] = None THEN None
                                       ELSE s.objs[s.byInvocation[k]]
         /\ \A k \in Keys, t \in Tokens : s.byInvocation[k] = t => Has(f, k, t)
         /\ \A t \in Tokens : Dead(s, t) => DeadIn(f, t)
         /\ \A e \in SnapshotType : CoveredBy(e, s) => Advances(e, f)
<1>0. s \in StoreType /\ CoreInv(s, g)
  BY DEF StoreInv, CoreInv
<1>1. /\ f.gen = g /\ f.hashes = s.hashes /\ f.incomplete = (s.incomplete /\ ~force)
      /\ \A k \in Keys : f.ids[k] = IF s.byInvocation[k] = None THEN None
                                    ELSE s.objs[s.byInvocation[k]]
  BY DEF Snapshot
<1>2. ASSUME NEW k \in Keys, s.byInvocation[k] # None
      PROVE  /\ s.byInvocation[k] \in Tokens
             /\ f.ids[k] = s.objs[s.byInvocation[k]] /\ f.ids[k] # None /\ f.ids[k] \in Identity
             /\ f.ids[k].token = s.byInvocation[k] /\ Key(f.ids[k].req) = k
             /\ ValidRestored(f.ids[k], g)
  <2>1. s.byInvocation[k] \in Tokens
    BY <1>0, <1>2 DEF StoreType
  <2>2. f.ids[k] = s.objs[s.byInvocation[k]]
    BY <1>1, <1>2
  <2> DEFINE t == s.byInvocation[k]
  <2>3. s.objs[t] # None /\ Key(s.objs[t].req) = k
    BY <1>0, <1>2 DEF CoreInv
  <2>4. s.objs[t].token = t /\ ValidRestored(s.objs[t], g)
    BY <1>0, <2>1, <2>3 DEF CoreInv
  <2>5. s.objs[t] \in Identity
    BY <1>0, <2>1, <2>3, Objects
  <2> QED
    BY <2>1, <2>2, <2>3, <2>4, <2>5
<1>3. \A k \in Keys : f.ids[k] # None => s.byInvocation[k] # None
  BY <1>1
<1>4. f \in SnapshotType
  <2>1. [k \in Keys |-> IF s.byInvocation[k] = None THEN None ELSE s.objs[s.byInvocation[k]]]
          \in [Keys -> Identity \union {None}]
    BY <1>1, <1>2
  <2>2. (s.incomplete /\ ~force) \in BOOLEAN /\ s.hashes \in SUBSET SchemaHashes
    BY <1>0 DEF StoreType
  <2> DEFINE I == [k \in Keys |-> IF s.byInvocation[k] = None THEN None
                                  ELSE s.objs[s.byInvocation[k]]]
             B == s.incomplete /\ ~force
  <2>3. f = [gen |-> g, incomplete |-> B, ids |-> I, hashes |-> s.hashes]
    BY DEF Snapshot
  <2> HIDE DEF I, B
  <2>4. I \in [Keys -> Identity \union {None}] /\ B \in BOOLEAN
    BY <2>1, <2>2 DEF I, B
  <2> QED
    BY <2>2, <2>3, <2>4 DEF SnapshotType
<1>5. HashesBound(f.hashes, Persisted(f))
  <2>1. Persisted(f) \subseteq {s.objs[t] : t \in Tokens} \ {None}
    BY <1>2, <1>3 DEF Persisted
  <2> QED
    BY <1>0, <1>1, <2>1 DEF HashesBound, CoreInv
<1>6. f.incomplete => \A k \in Keys : f.ids[k] = None
  <2>1. f.incomplete => s.incomplete
    BY <1>1
  <2>2. s.incomplete => \A t \in Tokens : s.objs[t] = None
    BY <1>0 DEF CoreInv
  <2> QED
    BY <1>2, <1>3, <2>1, <2>2
<1>7. SnapInv(f, M)
  <2>1. \A k \in Keys : f.ids[k] # None =>
          Key(f.ids[k].req) = k /\ ValidRestored(f.ids[k], f.gen) /\ f.ids[k].token \in M
    BY <1>1, <1>2, <1>3
  <2>2. \A j, k \in Keys : f.ids[j] # None /\ f.ids[k] # None /\ f.ids[j].token = f.ids[k].token
          => j = k
    BY <1>2, <1>3
  <2> QED
    BY <1>4, <1>5, <1>6, <2>1, <2>2 DEF SnapInv
<1>8. CoveredBy(f, s)
  BY <1>2, <1>3 DEF CoveredBy
<1>9. \A k \in Keys, t \in Tokens : s.byInvocation[k] = t => Has(f, k, t)
  BY <1>2, NoneAssumption DEF Has
<1>10. \A t \in Tokens : Dead(s, t) => DeadIn(f, t)
  BY <1>2, <1>3 DEF Dead, DeadIn
<1>11. ASSUME NEW e \in SnapshotType, CoveredBy(e, s) PROVE Advances(e, f)
  <2>1. \A k \in Keys : e.ids[k] # None => s.byInvocation[k] = e.ids[k].token /\ e.ids[k].token \in Tokens
    BY <1>11 DEF CoveredBy, SnapshotType, Identity
  <2> SUFFICES ASSUME NEW k \in Keys, e.ids[k] # None
               PROVE  /\ f.ids[k] # None /\ f.ids[k].token = e.ids[k].token
                      /\ e.ids[k].revoked => f.ids[k].revoked
    BY DEF Advances
  <2>2. s.byInvocation[k] # None /\ s.byInvocation[k] = e.ids[k].token
    BY <2>1, NoneAssumption
  <2>3. f.ids[k] = s.objs[e.ids[k].token] /\ f.ids[k] # None /\ f.ids[k].token = e.ids[k].token
    BY <1>2, <2>2
  <2>4. e.ids[k].revoked => s.objs[e.ids[k].token].revoked
    BY <1>11 DEF CoveredBy
  <2> QED
    BY <2>3, <2>4
<1> QED
  BY <1>1, <1>7, <1>8, <1>9, <1>10, <1>11

\* LoadStore accepts what was saved.
LEMMA SnapshotValid ==
  ASSUME NEW f, NEW M, SnapInv(f, M)
  PROVE  ValidPersistedState(f, f.gen)
<1>1. \A id \in Persisted(f) : \E k \in Keys : f.ids[k] = id /\ id # None
  BY DEF Persisted
<1>2. ValidSchemaHashes(f)
  <2>1. CASE ClosedSchemaSet
    BY <2>1 DEF SnapInv, HashesBound, ValidSchemaHashes
  <2>2. CASE ~ClosedSchemaSet
    <3>1. /\ Cardinality(f.hashes) <= Envelope.maxDynamic
          /\ \A id \in Persisted(f) : id.req.schema \in f.hashes
      BY <2>2 DEF SnapInv, HashesBound
    <3>2. f.hashes \union {id.req.schema : id \in Persisted(f)} = f.hashes
      BY <3>1
    <3> QED
      BY <2>2, <3>1, <3>2 DEF ValidSchemaHashes
  <2> QED
    BY <2>1, <2>2
<1>3. \A id \in Persisted(f) : ValidRestored(id, f.gen)
  BY <1>1 DEF SnapInv
<1>4. \A a, b \in Persisted(f) : a.token = b.token \/ Key(a.req) = Key(b.req) => a = b
  BY <1>1 DEF SnapInv
<1> QED
  BY <1>2, <1>3, <1>4 DEF ValidPersistedState

\* What loadStoreAt makes of a file it accepts.
LEMMA IndexAllSound ==
  ASSUME NEW f, NEW M, SnapInv(f, M), NEW s, s = IndexAll(f)
  PROVE  /\ CoreInv(s, f.gen)
         /\ Indexed(s, {t \in Tokens : s.objs[t] # None})
         /\ \A k \in Keys : s.byInvocation[k] = IF f.ids[k] = None THEN None ELSE f.ids[k].token
         /\ \A k \in Keys : f.ids[k] # None => s.objs[f.ids[k].token] = f.ids[k]
         /\ \A t \in Tokens : s.objs[t] # None => \E k \in Keys : f.ids[k] # None /\ f.ids[k].token = t
         /\ s.incomplete = f.incomplete
<1> DEFINE toks == {id.token : id \in Persisted(f)}
<1>0. f \in SnapshotType
  BY DEF SnapInv
<1>1. /\ s.byHandle = toks /\ s.byBearer = toks
      /\ s.objs = [t \in Tokens |->
                     IF t \in toks THEN CHOOSE id \in Persisted(f) : id.token = t ELSE None]
      /\ s.byInvocation = [k \in Keys |-> IF f.ids[k] = None THEN None ELSE f.ids[k].token]
      /\ s.byLabel = [l \in Labels |-> {t \in toks : \E id \in Persisted(f) :
                                                       id.token = t /\ Label(id.req) = l}]
      /\ s.hashes = f.hashes /\ s.incomplete = f.incomplete
  BY DEF IndexAll
<1>2. \A id \in Persisted(f) : id \in Identity /\ id # None /\ \E k \in Keys : f.ids[k] = id
  BY <1>0 DEF Persisted, SnapshotType
<1>3. \A k \in Keys : f.ids[k] # None => f.ids[k] \in Persisted(f)
  BY DEF Persisted
<1>4. toks \subseteq Tokens
  BY <1>2 DEF Identity
<1>5. \A a, b \in Persisted(f) : a.token = b.token => a = b
  BY <1>2 DEF SnapInv
<1>6. ASSUME NEW id \in Persisted(f)
      PROVE  id.token \in Tokens /\ s.objs[id.token] = id
  <2>1. id.token \in toks /\ id.token \in Tokens
    BY <1>4
  <2> DEFINE c == CHOOSE x \in Persisted(f) : x.token = id.token
  <2>2. c \in Persisted(f) /\ c.token = id.token
    BY Zenon
  <2>3. s.objs[id.token] = c
    BY <1>1, <2>1
  <2> HIDE DEF c
  <2> QED
    BY <1>5, <2>1, <2>2, <2>3
<1>7. ASSUME NEW t \in Tokens, s.objs[t] # None
      PROVE  t \in toks /\ \E id \in Persisted(f) : id.token = t /\ s.objs[t] = id
  <2>1. t \in toks
    BY <1>1, <1>7
  <2> QED
    BY <1>6, <2>1
<1>8. \A t \in toks : s.objs[t] # None
  BY <1>2, <1>6
<1> HIDE DEF toks
<1>9. s \in StoreType
  <2>1. s.objs \in [Tokens -> Identity \union {None}]
    <3>1. \A t \in Tokens : s.objs[t] \in Identity \union {None}
      BY <1>2, <1>7
    <3> QED
      BY <1>1, <3>1
  <2>2. s.byInvocation \in [Keys -> Tokens \union {None}]
    BY <1>1, <1>3, <1>6
  <2>3. s.byLabel \in [Labels -> SUBSET Tokens]
    BY <1>1, <1>4
  <2>4. s.hashes \in SUBSET SchemaHashes /\ s.incomplete \in BOOLEAN
    BY <1>0, <1>1 DEF SnapshotType
  <2>5. s = [objs |-> s.objs, byHandle |-> s.byHandle, byBearer |-> s.byBearer,
             byInvocation |-> s.byInvocation, byLabel |-> s.byLabel, hashes |-> s.hashes,
             incomplete |-> s.incomplete]
    BY DEF IndexAll
  <2> QED
    BY <1>1, <1>4, <2>1, <2>2, <2>3, <2>4, <2>5 DEF StoreType
<1>10. ASSUME NEW t \in Tokens, s.objs[t] # None
       PROVE  /\ s.objs[t].token = t
              /\ s.byInvocation[Key(s.objs[t].req)] = t
              /\ ValidRestored(s.objs[t], f.gen)
              /\ \E k \in Keys : f.ids[k] # None /\ f.ids[k].token = t
  <2>1. PICK id \in Persisted(f) : id.token = t /\ s.objs[t] = id
    BY <1>7, <1>10
  <2>2. PICK k \in Keys : f.ids[k] = id /\ id # None
    BY <1>2
  <2>3. Key(id.req) = k /\ ValidRestored(id, f.gen)
    BY <2>2 DEF SnapInv
  <2>4. s.byInvocation[k] = t
    BY <1>1, <2>1, <2>2
  <2>5. s.byInvocation[Key(s.objs[t].req)] = t
    BY <2>1, <2>3, <2>4
  <2> QED
    BY <2>1, <2>2, <2>3, <2>5
<1>11. ASSUME NEW k \in Keys, s.byInvocation[k] # None
       PROVE  s.objs[s.byInvocation[k]] # None /\ Key(s.objs[s.byInvocation[k]].req) = k
  <2>1. f.ids[k] # None /\ s.byInvocation[k] = f.ids[k].token
    BY <1>1, <1>11
  <2>2. f.ids[k] \in Persisted(f) /\ Key(f.ids[k].req) = k
    BY <1>3, <2>1 DEF SnapInv
  <2>3. s.objs[f.ids[k].token] = f.ids[k]
    BY <1>6, <2>2
  <2> QED
    BY <2>1, <2>2, <2>3
<1>12. HashesBound(s.hashes, {s.objs[t] : t \in Tokens} \ {None})
  <2>1. {s.objs[t] : t \in Tokens} \ {None} \subseteq Persisted(f)
    BY <1>7
  <2>2. HashesBound(f.hashes, Persisted(f))
    BY DEF SnapInv
  <2> QED
    BY <1>1, <2>1, <2>2 DEF HashesBound
<1>13. s.incomplete => \A t \in Tokens : s.objs[t] = None
  BY <1>1, <1>10 DEF SnapInv
<1>14. CoreInv(s, f.gen)
  BY <1>9, <1>10, <1>11, <1>12, <1>13 DEF CoreInv
<1>15. toks = {t \in Tokens : s.objs[t] # None}
  BY <1>4, <1>7, <1>8
<1>16. Indexed(s, toks)
  <2>1. ASSUME NEW l \in Labels
        PROVE  s.byLabel[l] = {t \in toks : Label(s.objs[t].req) = l}
    <3>1. s.byLabel[l] = {t \in toks : \E id \in Persisted(f) : id.token = t /\ Label(id.req) = l}
      BY <1>1
    <3>2. \A t \in toks : (\E id \in Persisted(f) : id.token = t /\ Label(id.req) = l)
                            <=> Label(s.objs[t].req) = l
      BY <1>6, <1>7, <1>8, <1>4
    <3> QED
      BY <3>1, <3>2
  <2> QED
    BY <1>1, <2>1 DEF Indexed
<1>17. \A k \in Keys : f.ids[k] # None => s.objs[f.ids[k].token] = f.ids[k]
  BY <1>3, <1>6
<1>18. \A t \in Tokens : s.objs[t] # None => \E k \in Keys : f.ids[k] # None /\ f.ids[k].token = t
  BY <1>10
<1>19. /\ s.incomplete = f.incomplete
       /\ \A k \in Keys : s.byInvocation[k] = IF f.ids[k] = None THEN None ELSE f.ids[k].token
  BY <1>1
<1>20. Indexed(s, {t \in Tokens : s.objs[t] # None})
  BY <1>15, <1>16
<1> QED
  BY <1>14, <1>17, <1>18, <1>19, <1>20, Zenon

\* A Store recovered from what was saved knows it all, and what had ended
\* or has expired is dead in it.
LEMMA RestoreSound ==
  ASSUME NEW f, NEW M, SnapInv(f, M), NEW now, NEW r, r = Restore(f, now)
  PROVE  /\ StoreInv(r, f.gen) /\ CoveredBy(f, r)
         /\ \A t \in Tokens : r.objs[t] # None => t \in M
         /\ \A t \in Tokens : DeadIn(f, t) => Dead(r, t)
         /\ r.incomplete = f.incomplete
<1> DEFINE s == IndexAll(f)
           T == RestoredTerminal(f, now)
           H == {t \in Tokens : s.objs[t] # None}
<1>1. /\ CoreInv(s, f.gen) /\ Indexed(s, H)
      /\ \A k \in Keys : s.byInvocation[k] = IF f.ids[k] = None THEN None ELSE f.ids[k].token
      /\ \A k \in Keys : f.ids[k] # None => s.objs[f.ids[k].token] = f.ids[k]
      /\ \A t \in Tokens : s.objs[t] # None => \E k \in Keys : f.ids[k] # None /\ f.ids[k].token = t
      /\ s.incomplete = f.incomplete
  BY IndexAllSound
<1>2. r = RevokeLocked(s, T)
  BY DEF Restore
<1>3. /\ \A t \in T : \E k \in Keys : f.ids[k] # None /\ f.ids[k].token = t
      /\ \A k \in Keys : f.ids[k] # None /\ f.ids[k].token \in Tokens /\ f.ids[k].revoked
                           => f.ids[k].token \in T
  BY Zenon DEF RestoredTerminal, Persisted
<1>4. T \in SUBSET Tokens
  BY DEF RestoredTerminal
<1>5. \A k \in Keys : f.ids[k] # None => f.ids[k] \in Identity /\ f.ids[k].token \in Tokens
  BY DEF SnapInv, SnapshotType, Identity
<1> HIDE DEF s, T
<1>6. \A t \in T : s.objs[t] # None
  BY <1>1, <1>3, <1>4
<1>7. \A t \in H : s.objs[t].revoked => t \in T
  <2> SUFFICES ASSUME NEW t \in H, s.objs[t].revoked PROVE t \in T
    OBVIOUS
  <2>1. PICK k \in Keys : f.ids[k] # None /\ f.ids[k].token = t
    BY <1>1
  <2>2. s.objs[t] = f.ids[k]
    BY <1>1, <2>1
  <2> QED
    BY <1>3, <2>1, <2>2
<1>8. H \in SUBSET Tokens /\ H \ T = LiveOf(s) \ T
  BY <1>7 DEF LiveOf
<1> HIDE DEF H
<1>9. StoreInv(r, f.gen) /\ Revoked(s, r, T) /\ SameButEnded(s, r, T)
  BY <1>1, <1>2, <1>4, <1>6, <1>8, RevokeKeeps
<1>10. CoveredBy(f, r)
  <2> SUFFICES ASSUME NEW k \in Keys, f.ids[k] # None
               PROVE  /\ r.byInvocation[k] = f.ids[k].token
                      /\ f.ids[k].revoked => r.objs[f.ids[k].token].revoked
    BY DEF CoveredBy
  <2>1. s.byInvocation[k] = f.ids[k].token /\ s.objs[f.ids[k].token] = f.ids[k] /\ f.ids[k].token \in Tokens
    BY <1>1, <1>5
  <2>2. r.byInvocation[k] = f.ids[k].token
    BY <1>9, <2>1 DEF Revoked
  <2>3. f.ids[k].revoked => r.objs[f.ids[k].token].revoked
    BY <1>9, <2>1 DEF SameButEnded
  <2> QED
    BY <2>2, <2>3
<1>11. \A t \in Tokens : r.objs[t] # None => t \in M
  BY <1>1, <1>9 DEF SameButEnded, SnapInv
<1>12. ASSUME NEW t \in Tokens, DeadIn(f, t) PROVE Dead(r, t)
  <2>1. CASE s.objs[t] = None
    BY <1>9, <2>1 DEF SameButEnded, Dead
  <2>2. CASE s.objs[t] # None
    <3>1. PICK k \in Keys : f.ids[k] # None /\ f.ids[k].token = t
      BY <1>1, <2>2
    <3>2. t \in T
      BY <1>3, <1>12, <3>1 DEF DeadIn
    <3> QED
      BY <1>9, <2>2, <3>2 DEF SameButEnded, Dead
  <2> QED
    BY <2>1, <2>2
<1>13. r.incomplete = f.incomplete
  BY <1>1, <1>9 DEF Revoked
<1> QED
  BY <1>9, <1>10, <1>11, <1>12, <1>13

(***************************************************************************)
(* A Store that goes on.                                                   *)
(***************************************************************************)

\* Continuing is transitive.
LEMMA ContinuesOn ==
  ASSUME NEW s, NEW r, NEW q, NEW M \in SUBSET Tokens,
         Continues(s, r, M), Continues(r, q, M)
  PROVE  Continues(s, q, M)
<1>1. \A k \in Keys : s.byInvocation[k] # None => q.byInvocation[k] = s.byInvocation[k]
  BY DEF Continues
<1>2. \A t \in Tokens : s.objs[t] # None => q.objs[t] # None /\ (s.objs[t].revoked => q.objs[t].revoked)
  BY DEF Continues
<1>3. \A t \in M : s.objs[t] = None => q.objs[t] = None
  BY DEF Continues
<1>4. q.incomplete = s.incomplete
  BY DEF Continues
<1> QED
  BY <1>1, <1>2, <1>3, <1>4 DEF Continues

\* Every Store continues itself.
LEMMA ContinuesSelf ==
  ASSUME NEW s, NEW M
  PROVE  Continues(s, s, M)
BY DEF Continues

\* What a Store covers, its continuation covers.
LEMMA CoverageGrows ==
  ASSUME NEW g, NEW s, StoreInv(s, g), NEW M, NEW r, Continues(s, r, M),
         NEW f \in SnapshotType, CoveredBy(f, s)
  PROVE  CoveredBy(f, r)
<1> SUFFICES ASSUME NEW k \in Keys, f.ids[k] # None
             PROVE  /\ r.byInvocation[k] = f.ids[k].token
                    /\ f.ids[k].revoked => r.objs[f.ids[k].token].revoked
  BY DEF CoveredBy
<1>1. f.ids[k].token \in Tokens
  BY DEF SnapshotType, Identity
<1>2. /\ s.byInvocation[k] = f.ids[k].token
      /\ f.ids[k].revoked => s.objs[f.ids[k].token].revoked
  BY DEF CoveredBy
<1>3. s.byInvocation[k] # None
  BY <1>1, <1>2, NoneAssumption
<1>4. s.objs[f.ids[k].token] # None
  BY <1>2, <1>3 DEF StoreInv, CoreInv
<1>5. r.byInvocation[k] = f.ids[k].token
  BY <1>2, <1>3 DEF Continues
<1>6. s.objs[f.ids[k].token].revoked => r.objs[f.ids[k].token].revoked
  BY <1>1, <1>4 DEF Continues
<1> QED
  BY <1>2, <1>5, <1>6

\* A token that is dead stays dead.
LEMMA DeadForGood ==
  ASSUME NEW s, NEW r, NEW M \in SUBSET Tokens, Continues(s, r, M), NEW t \in M, Dead(s, t)
  PROVE  Dead(r, t)
<1>1. CASE s.objs[t] = None
  BY <1>1 DEF Continues, Dead
<1>2. CASE s.objs[t] # None
  <2>1. s.objs[t].revoked
    BY <1>2 DEF Dead
  <2> QED
    BY <1>2, <2>1 DEF Continues, Dead
<1> QED
  BY <1>1, <1>2

\* The invocation of a token stays its invocation.
LEMMA InvocationForGood ==
  ASSUME NEW s, NEW r, NEW M, Continues(s, r, M), NEW k \in Keys, NEW t \in Tokens,
         s.byInvocation[k] = t
  PROVE  r.byInvocation[k] = t
BY NoneAssumption DEF Continues

\* More tokens may be minted.
LEMMA SnapMonotone ==
  ASSUME NEW f, NEW M, NEW N, M \subseteq N, SnapInv(f, M)
  PROVE  SnapInv(f, N)
BY DEF SnapInv

\* A handler that waits is not disturbed when the Store goes on.
LEMMA HandlerCalm ==
  ASSUME NEW g, NEW s, StoreInv(s, g), NEW M \in SUBSET Tokens, NEW r, Continues(s, r, M),
         NEW N, M \subseteq N, NEW now \in Nat, NEW then \in Nat, now <= then,
         NEW x \in HandlerType, NEW fl \in FileType, NEW ov,
         HandlerInv(x, s, fl, M, now, ov)
  PROVE  HandlerInv(x, r, fl, N, then, ov)
<1>0. r.incomplete = s.incomplete
  BY DEF Continues
<1>1. x.pc = "write" =>
       /\ SnapInv(x.snap, N) /\ CoveredBy(x.snap, r)
       /\ ~r.incomplete /\ Valid(fl) => Advances(fl.body, x.snap)
       /\ r.incomplete /\ x.op # "reconcile" => x.snap.incomplete
  <2> SUFFICES ASSUME x.pc = "write"
               PROVE  /\ SnapInv(x.snap, N) /\ CoveredBy(x.snap, r)
                      /\ ~r.incomplete /\ Valid(fl) => Advances(fl.body, x.snap)
                      /\ r.incomplete /\ x.op # "reconcile" => x.snap.incomplete
    OBVIOUS
  <2>1. SnapInv(x.snap, M) /\ CoveredBy(x.snap, s)
    BY DEF HandlerInv
  <2>2. x.snap \in SnapshotType
    BY <2>1 DEF SnapInv
  <2>3. SnapInv(x.snap, N)
    BY <2>1, SnapMonotone
  <2>4. CoveredBy(x.snap, r)
    BY <2>1, <2>2, CoverageGrows
  <2> QED
    BY <1>0, <2>3, <2>4 DEF HandlerInv
<1>2. x.pc = "clear" => /\ x.op = "reconcile" /\ Valid(fl) /\ CoveredBy(fl.body, r)
                        /\ r.incomplete => ov
  <2> SUFFICES ASSUME x.pc = "clear"
               PROVE  /\ x.op = "reconcile" /\ Valid(fl) /\ CoveredBy(fl.body, r)
                      /\ r.incomplete => ov
    OBVIOUS
  <2>1. Valid(fl) /\ CoveredBy(fl.body, s)
    BY DEF HandlerInv
  <2>2. fl.body \in SnapshotType
    BY <2>1 DEF FileType, Valid, Missing, Corrupt
  <2>3. CoveredBy(fl.body, r)
    BY <2>1, <2>2, CoverageGrows
  <2> QED
    BY <1>0, <2>3 DEF HandlerInv
<1>3. x.pc = "create" => /\ x.op = "create" /\ x.req \in Requests /\ x.now <= then
                         /\ ValidAgainstEnvelope(x.req, x.now)
  BY DEF HandlerInv, HandlerType, Time
<1>4. x.toks \subseteq N /\ (x.op = "reconcile" => x.toks = {})
  BY DEF HandlerInv
<1> QED
  BY <1>1, <1>2, <1>3, <1>4 DEF HandlerInv

\* Nor is what it is to answer.
LEMMA AnswerCalm ==
  ASSUME NEW s, NEW M \in SUBSET Tokens, NEW r, Continues(s, r, M),
         NEW x \in HandlerType, NEW fl, NEW hd, NEW hd2, x.toks \subseteq M,
         \A g \in Handlers : hd2[g].pc = "write" => hd2[g] = hd[g],
         AnswerInv(x, hd, s, fl)
  PROVE  AnswerInv(x, hd2, r, fl)
<1>1. ASSUME x.pc \in {"save", "write", "respond"}, x.out = "terminal", NEW t \in x.toks
      PROVE  /\ Dead(r, t)
             /\ x.pc = "write" => DeadIn(x.snap, t)
             /\ x.pc = "respond" => /\ Valid(fl) => DeadIn(fl.body, t)
                                    /\ \A g \in Handlers : hd2[g].pc = "write" => DeadIn(hd2[g].snap, t)
  <2>1. t \in M /\ Dead(s, t)
    BY <1>1 DEF AnswerInv
  <2>2. Dead(r, t)
    BY <2>1, DeadForGood
  <2> QED
    BY <1>1, <2>2 DEF AnswerInv
<1>2. ASSUME x.pc \in {"save", "write", "respond"}, x.out = "ok", NEW t \in x.toks
      PROVE  /\ x.req \in Requests /\ x.toks = {t} /\ r.byInvocation[Key(x.req)] = t
             /\ x.pc = "write" => Has(x.snap, Key(x.req), t)
             /\ x.pc = "respond" => Valid(fl) /\ Has(fl.body, Key(x.req), t)
  <2>1. x.req \in Requests /\ s.byInvocation[Key(x.req)] = t /\ t \in Tokens /\ Key(x.req) \in Keys
    BY <1>2, RequestKeys DEF AnswerInv
  <2>2. r.byInvocation[Key(x.req)] = t
    BY <2>1, InvocationForGood
  <2> QED
    BY <1>2, <2>2 DEF AnswerInv
<1> QED
  BY <1>1, <1>2 DEF AnswerInv

\* A step of a running process in which the Store goes on and no handler
\* touches the file.
LEMMA AdvanceKeeps ==
  ASSUME DelegationInv, up, StoreInv(store', gen), Continues(store, store', minted),
         minted \subseteq minted', minted' \in SUBSET Tokens,
         \A t \in Tokens : store'.objs[t] # None => t \in minted',
         UNCHANGED <<clock, up, gen, persistMu, file, disclosed, terminal, overridden, crashes>>,
         served' \in Nat, handler' \in [Handlers -> HandlerType],
         \A h \in Handlers :
           \/ handler'[h] = handler[h]
           \/ /\ handler[h].pc \notin {"write", "clear"} /\ handler'[h].pc \notin {"write", "clear"}
              /\ HandlerInv(handler'[h], store', file, minted', clock, overridden)
              /\ AnswerInv(handler'[h], handler', store', file)
  PROVE  DelegationInv'
<1>0. /\ TypeOK /\ StoreInv(store, gen) /\ minted \in SUBSET Tokens /\ clock \in Nat /\ file \in FileType
      /\ store'.incomplete = store.incomplete
  BY DEF DelegationInv, TypeOK, Time, Continues
<1>1. TypeOK'
  BY <1>0 DEF TypeOK, StoreInv, CoreInv
<1>2. StoreInv(store, gen)'
  OBVIOUS
<1>3. DownInv' /\ MintedInv'
  BY DEF DelegationInv, DownInv, MintedInv
<1>4. LockInv'
  BY DEF DelegationInv, LockInv
<1>5. \A h \in Handlers : handler'[h].pc = "write" => handler'[h] = handler[h]
  OBVIOUS
<1>6. HandlersInv'
  <2> SUFFICES ASSUME NEW h \in Handlers
               PROVE  /\ HandlerInv(handler'[h], store', file, minted', clock, overridden)
                      /\ AnswerInv(handler'[h], handler', store', file)
    BY DEF HandlersInv
  <2>1. CASE handler'[h] = handler[h]
    <3>1. /\ handler[h] \in HandlerType
          /\ HandlerInv(handler[h], store, file, minted, clock, overridden)
          /\ AnswerInv(handler[h], handler, store, file)
      BY DEF DelegationInv, TypeOK, HandlersInv
    <3>2. clock <= clock /\ handler[h].toks \subseteq minted
      BY <1>0, <3>1 DEF HandlerInv
    <3>3. HandlerInv(handler[h], store', file, minted', clock, overridden)
      BY <1>0, <3>1, <3>2, HandlerCalm
    <3>4. AnswerInv(handler[h], handler', store', file)
      BY <1>0, <1>5, <3>1, <3>2, AnswerCalm
    <3> QED
      BY <2>1, <3>3, <3>4
  <2> QED
    BY <2>1
<1>7. TerminalInv'
  <2>1. \A t \in terminal : t \in minted /\ Dead(store, t)
    BY DEF DelegationInv, MintedInv, TerminalInv
  <2>2. \A t \in terminal : Dead(store', t)
    BY <1>0, <2>1, DeadForGood
  <2> QED
    BY <1>5, <2>2 DEF DelegationInv, TerminalInv
<1>8. FileInv'
  <2>1. Valid(file) => file.body \in SnapshotType /\ SnapInv(file.body, minted)
    BY DEF DelegationInv, FileInv, SnapInv
  <2>2. Valid(file) => SnapInv(file.body, minted')
    BY <2>1, SnapMonotone
  <2>3. up /\ ~store'.incomplete /\ Valid(file) => CoveredBy(file.body, store')
    BY <1>0, <2>1, CoverageGrows DEF DelegationInv, FileInv
  <2> QED
    BY <2>2, <2>3 DEF FileInv
<1>9. ToldInv'
  <2>1. \A d \in disclosed : d.key \in Keys /\ d.token \in Tokens
    BY <1>0 DEF TypeOK
  <2> SUFFICES ASSUME ~overridden, NEW d \in disclosed
               PROVE  /\ file.status # Missing
                      /\ Valid(file) => file.body.incomplete \/ Has(file.body, d.key, d.token)
                      /\ up /\ ~store'.incomplete => store'.byInvocation[d.key] = d.token
                      /\ \A h \in Handlers : handler'[h].pc = "write" /\ ~store'.incomplete
                           => Has(handler'[h].snap, d.key, d.token)
    BY DEF ToldInv
  <2>2. up /\ ~store'.incomplete => store'.byInvocation[d.key] = d.token
    BY <1>0, <2>1, InvocationForGood DEF DelegationInv, ToldInv
  <2>3. \A h \in Handlers : handler'[h].pc = "write" /\ ~store'.incomplete
                           => Has(handler'[h].snap, d.key, d.token)
    BY <1>0, <1>5 DEF DelegationInv, ToldInv
  <2> QED
    BY <2>2, <2>3 DEF DelegationInv, ToldInv
<1> QED
  BY <1>1, <1>2, <1>3, <1>4, <1>6, <1>7, <1>8, <1>9 DEF DelegationInv

(***************************************************************************)
(* create-or-confirm, revoke, revoke-by-labels, reconcile.                 *)
(***************************************************************************)

\* A step in which only the handler h moves, to x, and the Store goes on.
LEMMA HandlerMoves ==
  ASSUME DelegationInv, up, StoreInv(store', gen), Continues(store, store', minted),
         minted \subseteq minted', minted' \in SUBSET Tokens,
         \A t \in Tokens : store'.objs[t] # None => t \in minted',
         InMemoryOnly, served' \in Nat,
         NEW h \in Handlers, NEW x \in HandlerType, handler' = [handler EXCEPT ![h] = x],
         handler[h].pc \notin {"write", "clear"}, x.pc \in {"create", "save"},
         x.pc = "create" => /\ x.op = "create" /\ x.req \in Requests /\ x.now <= clock
                            /\ ValidAgainstEnvelope(x.req, x.now),
         x.toks \subseteq minted', x.op = "reconcile" => x.toks = {},
         x.out = "terminal" => \A t \in x.toks : Dead(store', t),
         x.out = "ok" => \A t \in x.toks : /\ x.req \in Requests /\ x.toks = {t}
                                           /\ store'.byInvocation[Key(x.req)] = t
  PROVE  DelegationInv'
<1>1. /\ handler' \in [Handlers -> HandlerType] /\ handler'[h] = x
      /\ \A g \in Handlers \ {h} : handler'[g] = handler[g]
  BY DEF DelegationInv, TypeOK
<1>2. HandlerInv(x, store', file, minted', clock, overridden)
  BY DEF HandlerInv
<1>3. AnswerInv(x, handler', store', file)
  BY DEF AnswerInv
<1> QED
  BY <1>1, <1>2, <1>3, AdvanceKeeps DEF InMemoryOnly

\* The record of a handler that has nothing to do.
LEMMA IdleHandler ==
  /\ Idle \in HandlerType /\ Idle.pc = "idle" /\ Idle.op = "none" /\ Idle.toks = {}
  /\ Idle.out = "none"
BY DEF Idle, HandlerType, Time

\* A new request finds an idle handler.
LEMMA Received ==
  ASSUME DelegationInv, NEW h \in Handlers, Receive(h)
  PROVE  /\ up /\ handler[h].pc = "idle" /\ served' \in Nat
         /\ StoreInv(store, gen) /\ minted \in SUBSET Tokens
         /\ \A t \in Tokens : store.objs[t] # None => t \in minted
BY DEF DelegationInv, TypeOK, Receive, MintedInv

\* create-or-confirm begins.
LEMMA CreateOrConfirmKeeps ==
  ASSUME DelegationInv, NEW h \in Handlers, NEW req \in Requests, CreateOrConfirm(h, req)
  PROVE  DelegationInv'
<1>0. /\ up /\ handler[h].pc = "idle" /\ served' \in Nat
      /\ StoreInv(store, gen) /\ minted \in SUBSET Tokens
      /\ \A t \in Tokens : store.objs[t] # None => t \in minted
      /\ store' = store /\ minted' = minted /\ InMemoryOnly /\ clock \in Nat
  BY Received DEF CreateOrConfirm, DelegationInv, TypeOK, Time
<1>1. Continues(store, store', minted)
  BY <1>0, ContinuesSelf
<1>2. CASE ValidAgainstEnvelope(req, clock)
  <2> DEFINE x == [Idle EXCEPT !.op = "create", !.pc = "create", !.req = req, !.now = clock]
  <2>1. /\ x \in HandlerType /\ x.pc = "create" /\ x.req = req /\ x.now = clock
        /\ x.toks = {} /\ x.out = "none" /\ x.op = "create"
    BY <1>0 DEF Idle, HandlerType, Time
  <2>2. handler' = [handler EXCEPT ![h] = x]
    BY <1>2 DEF CreateOrConfirm
  <2> HIDE DEF x
  <2>3. x.now <= clock /\ ValidAgainstEnvelope(x.req, x.now)
    BY <1>0, <1>2, <2>1
  <2> QED
    BY <1>0, <1>1, <2>1, <2>2, <2>3, HandlerMoves
<1>3. CASE ~ValidAgainstEnvelope(req, clock)
  <2> DEFINE x == [Idle EXCEPT !.op = "create", !.pc = "save", !.out = "denied"]
  <2>1. /\ x \in HandlerType /\ x.pc = "save" /\ x.toks = {} /\ x.out = "denied" /\ x.op = "create"
    BY DEF Idle, HandlerType, Time
  <2>2. handler' = [handler EXCEPT ![h] = x]
    BY <1>3 DEF CreateOrConfirm
  <2> HIDE DEF x
  <2> QED
    BY <1>0, <1>1, <2>1, <2>2, HandlerMoves
<1> QED
  BY <1>2, <1>3

\* What the locked part of create-or-confirm starts from.
LEMMA LockedPart ==
  ASSUME DelegationInv, NEW h \in Handlers, handler[h].pc = "create"
  PROVE  /\ up /\ handler[h] \in HandlerType /\ handler[h].req \in Requests
         /\ Key(handler[h].req) \in Keys /\ handler[h].now <= clock /\ handler[h].now \in Nat
         /\ ValidAgainstEnvelope(handler[h].req, handler[h].now)
         /\ StoreInv(store, gen) /\ minted \in SUBSET Tokens
         /\ \A t \in Tokens : store.objs[t] # None => t \in minted
         /\ StoreInv(Swept(h), gen) /\ Continues(store, Swept(h), minted)
         /\ \A t \in Tokens : store.objs[t] # None <=> Swept(h).objs[t] # None
         /\ Swept(h).byInvocation = store.byInvocation
         /\ Swept(h).hashes = store.hashes /\ Swept(h).incomplete = store.incomplete
         /\ LiveOf(Swept(h)) = LiveOf(store) \ Expired(store, handler[h].now)
<1>1. /\ up /\ handler[h] \in HandlerType /\ handler[h].req \in Requests
      /\ handler[h].now <= clock /\ handler[h].now \in Nat
      /\ ValidAgainstEnvelope(handler[h].req, handler[h].now)
      /\ StoreInv(store, gen) /\ minted \in SUBSET Tokens
      /\ \A t \in Tokens : store.objs[t] # None => t \in minted
  BY DEF DelegationInv, TypeOK, DownInv, HandlersInv, HandlerInv, MintedInv, HandlerType, Time
<1>2. Key(handler[h].req) \in Keys
  BY <1>1, RequestKeys
<1> DEFINE r == Swept(h)
           now == handler[h].now
<1>3. r = CleanupExpired(store, now)
  BY DEF Swept
<1> HIDE DEF r
<1>4. /\ StoreInv(r, gen) /\ Continues(store, r, minted)
      /\ SameButEnded(store, r, Expired(store, now)) /\ Revoked(store, r, Expired(store, now))
      /\ LiveOf(r) = LiveOf(store) \ Expired(store, now)
  BY <1>1, <1>3, SweepContinues
<1>5. /\ \A t \in Tokens : store.objs[t] # None <=> r.objs[t] # None
      /\ r.byInvocation = store.byInvocation
      /\ r.hashes = store.hashes /\ r.incomplete = store.incomplete
  BY <1>4 DEF SameButEnded, Revoked
<1> QED
  BY <1>1, <1>2, <1>4, <1>5 DEF r

\* The locked part ends with the Store s.
LEMMA EndLockedKeeps ==
  ASSUME DelegationInv, NEW h \in Handlers, handler[h].pc = "create",
         NEW s, NEW out \in {"ok", "terminal", "denied"}, NEW T \in SUBSET Tokens,
         EndLocked(h, s, out, T), StoreInv(s, gen), Continues(store, s, minted),
         minted \subseteq minted', minted' \in SUBSET Tokens, T \subseteq minted',
         \A t \in Tokens : s.objs[t] # None => t \in minted',
         out = "terminal" => \A t \in T : Dead(s, t),
         out = "ok" => \A t \in T : T = {t} /\ s.byInvocation[Key(handler[h].req)] = t
  PROVE  DelegationInv'
<1> DEFINE x == [handler[h] EXCEPT !.pc = "save", !.out = out, !.toks = T, !.now = 0]
<1>1. /\ up /\ handler[h] \in HandlerType /\ handler[h].req \in Requests
  BY LockedPart
<1>2. /\ x \in HandlerType /\ x.pc = "save" /\ x.out = out /\ x.toks = T /\ x.req = handler[h].req
      /\ x.op = handler[h].op
  BY <1>1 DEF HandlerType, Time
<1>3. /\ handler' = [handler EXCEPT ![h] = x] /\ store' = s /\ served' = served /\ InMemoryOnly
  BY DEF EndLocked
<1>4. served' \in Nat
  BY <1>3 DEF DelegationInv, TypeOK
<1>5. x.op = "create"
  BY <1>2 DEF DelegationInv, HandlersInv, HandlerInv
<1> HIDE DEF x
<1> QED
  BY <1>1, <1>2, <1>3, <1>4, <1>5, HandlerMoves

\* The invocation's identity, when it has one.
LEMMA ExistingIdentity ==
  ASSUME DelegationInv, NEW h \in Handlers, handler[h].pc = "create", Existing(h) # None
  PROVE  /\ Existing(h) \in Tokens /\ Existing(h) \in minted
         /\ Swept(h).objs[Existing(h)] # None
         /\ Swept(h).byInvocation[Key(handler[h].req)] = Existing(h)
<1> DEFINE r == Swept(h)
           k == Key(handler[h].req)
<1>1. /\ k \in Keys /\ StoreInv(r, gen)
      /\ \A t \in Tokens : store.objs[t] # None => t \in minted
      /\ \A t \in Tokens : store.objs[t] # None <=> r.objs[t] # None
  BY LockedPart
<1>2. Existing(h) = r.byInvocation[k]
  BY DEF Existing
<1> HIDE DEF r, k
<1>3. r.byInvocation[k] \in Tokens /\ r.objs[r.byInvocation[k]] # None
  BY <1>1, <1>2 DEF StoreInv, CoreInv, StoreType
<1> QED
  BY <1>1, <1>2, <1>3 DEF r, k

\* An identity that exists is confirmed, or reported terminal.
LEMMA ConfirmKeeps ==
  ASSUME DelegationInv, NEW h \in Handlers, Confirm(h)
  PROVE  DelegationInv'
<1> DEFINE r == Swept(h)
           t == Existing(h)
           out == IF r.objs[t].revoked THEN "terminal" ELSE "ok"
<1>1. handler[h].pc = "create" /\ t # None /\ EndLocked(h, r, out, {t}) /\ minted' = minted
  BY DEF Confirm
<1>2. t \in Tokens /\ t \in minted /\ r.objs[t] # None /\ r.byInvocation[Key(handler[h].req)] = t
  BY <1>1, ExistingIdentity
<1>3. /\ StoreInv(r, gen) /\ Continues(store, r, minted) /\ minted \in SUBSET Tokens
      /\ \A u \in Tokens : r.objs[u] # None => u \in minted
  BY <1>1, LockedPart
<1>4. out \in {"ok", "terminal", "denied"} /\ (out = "terminal" => Dead(r, t))
  BY DEF Dead
<1> HIDE DEF r, t, out
<1> QED
  BY <1>1, <1>2, <1>3, <1>4, EndLockedKeeps

\* Another binding ends the identity.
LEMMA MismatchKeeps ==
  ASSUME DelegationInv, NEW h \in Handlers, Mismatch(h)
  PROVE  DelegationInv'
<1> DEFINE r == Swept(h)
           t == Existing(h)
           q == RevokeLocked(r, {t})
<1>1. handler[h].pc = "create" /\ t # None /\ EndLocked(h, q, "terminal", {t}) /\ minted' = minted
  BY DEF Mismatch
<1>2. t \in Tokens /\ t \in minted /\ r.objs[t] # None
  BY <1>1, ExistingIdentity
<1>3. /\ StoreInv(r, gen) /\ Continues(store, r, minted) /\ minted \in SUBSET Tokens
      /\ \A u \in Tokens : r.objs[u] # None => u \in minted
  BY <1>1, LockedPart
<1> HIDE DEF r, t
<1>4. {t} \in SUBSET Tokens /\ \A u \in {t} : r.objs[u] # None
  BY <1>2
<1>5. StoreInv(q, gen) /\ Continues(r, q, minted) /\ SameButEnded(r, q, {t})
  BY <1>3, <1>4, RevokeContinues
<1> HIDE DEF q
<1>6. Continues(store, q, minted)
  BY <1>3, <1>5, ContinuesOn
<1>7. Dead(q, t) /\ \A u \in Tokens : q.objs[u] # None => u \in minted
  BY <1>2, <1>3, <1>5 DEF SameButEnded, Dead
<1> QED
  BY <1>1, <1>2, <1>3, <1>5, <1>6, <1>7, EndLockedKeeps

\* The gate is closed, or the schema bound used up.
LEMMA DenyKeeps ==
  ASSUME DelegationInv, NEW h \in Handlers, Deny(h)
  PROVE  DelegationInv'
<1> DEFINE r == Swept(h)
           T == {}
<1>1. handler[h].pc = "create" /\ EndLocked(h, r, "denied", T) /\ minted' = minted
  BY DEF Deny
<1>2. /\ StoreInv(r, gen) /\ Continues(store, r, minted) /\ minted \in SUBSET Tokens
      /\ \A u \in Tokens : r.objs[u] # None => u \in minted
  BY <1>1, LockedPart
<1>3. T \in SUBSET Tokens /\ T \subseteq minted /\ \A t \in T : FALSE
  OBVIOUS
<1> HIDE DEF r, T
<1> QED
  BY <1>1, <1>2, <1>3, EndLockedKeeps

\* What the Store is once the schema slot is taken.
LEMMA SlotTaken ==
  ASSUME DelegationInv, NEW h \in Handlers, Admissible(h),
         NEW q, q = TakeSchemaSlot(Swept(h), handler[h].req.schema)
  PROVE  /\ handler[h].pc = "create"
         /\ StoreInv(q, gen) /\ Continues(store, q, minted) /\ minted \in SUBSET Tokens
         /\ \A t \in Tokens : q.objs[t] # None => t \in minted
         /\ ~q.incomplete /\ q.byInvocation[Key(handler[h].req)] = None
         /\ ~ClosedSchemaSet => handler[h].req.schema \in q.hashes
         /\ LiveOf(q) = LiveOf(store) \ Expired(store, handler[h].now)
         /\ \A t \in Tokens : store.objs[t] = None <=> q.objs[t] = None
         /\ q.objs = Swept(h).objs
<1> DEFINE r == Swept(h)
           hash == handler[h].req.schema
<1>1. /\ handler[h].pc = "create" /\ r.byInvocation[Key(handler[h].req)] = None
      /\ ~store.incomplete /\ AdmitsSchemaHash(store, hash)
  BY DEF Admissible, Existing
<1>2. /\ StoreInv(r, gen) /\ Continues(store, r, minted) /\ minted \in SUBSET Tokens
      /\ \A t \in Tokens : store.objs[t] # None => t \in minted
      /\ \A t \in Tokens : store.objs[t] # None <=> r.objs[t] # None
      /\ r.hashes = store.hashes /\ r.incomplete = store.incomplete
      /\ handler[h].req \in Requests
      /\ LiveOf(r) = LiveOf(store) \ Expired(store, handler[h].now)
  BY <1>1, LockedPart
<1>3. hash \in SchemaHashes /\ AdmitsSchemaHash(r, hash) /\ q = TakeSchemaSlot(r, hash)
  BY <1>1, <1>2, RequestKeys DEF AdmitsSchemaHash
<1> HIDE DEF r
<1>4. /\ StoreInv(q, gen) /\ Continues(r, q, minted) /\ LiveOf(q) = LiveOf(r)
      /\ q.objs = r.objs /\ q.byInvocation = r.byInvocation /\ q.incomplete = r.incomplete
      /\ ~ClosedSchemaSet => hash \in q.hashes
  BY <1>2, <1>3, SlotKeeps
<1>5. Continues(store, q, minted)
  BY <1>2, <1>4, ContinuesOn
<1> QED
  BY <1>1, <1>2, <1>4, <1>5 DEF r

\* generateOpaqueToken fails.
LEMMA MintFailsKeeps ==
  ASSUME DelegationInv, NEW h \in Handlers, MintFails(h)
  PROVE  DelegationInv'
<1> DEFINE q == TakeSchemaSlot(Swept(h), handler[h].req.schema)
           T == {}
<1>1. Admissible(h) /\ EndLocked(h, q, "denied", T) /\ minted' = minted
  BY DEF MintFails
<1>2. /\ handler[h].pc = "create"
      /\ StoreInv(q, gen) /\ Continues(store, q, minted) /\ minted \in SUBSET Tokens
      /\ \A t \in Tokens : q.objs[t] # None => t \in minted
  BY <1>1, SlotTaken
<1>3. T \in SUBSET Tokens /\ T \subseteq minted /\ \A t \in T : FALSE
  OBVIOUS
<1> HIDE DEF q, T
<1> QED
  BY <1>1, <1>2, <1>3, EndLockedKeeps

\* A deadline that is set cuts the lifetime.
LEMMA ExpiryBounds ==
  ASSUME NEW req \in Requests, NEW now \in Nat
  PROVE  /\ IdentityExpiry(req, now) \in Nat
         /\ IdentityExpiry(req, now) <= Envelope.expiresAt
         /\ req.deadline # 0 => IdentityExpiry(req, now) <= req.deadline
<1>1. /\ req.ttl \in Nat /\ req.deadline \in Nat
      /\ Envelope.expiresAt \in Nat /\ Envelope.expiresAt # 0
  BY RequestAssumption, EnvelopeAssumption DEF Time
<1>2. \A e, d \in Nat : /\ Sooner(e, d) \in Nat /\ Sooner(e, d) <= e
                        /\ d # 0 => Sooner(e, d) <= d
  BY DEF Sooner
<1>3. now + req.ttl \in Nat
  BY <1>1
<1> DEFINE e == Sooner(now + req.ttl, Envelope.expiresAt)
<1>4. e \in Nat /\ e <= Envelope.expiresAt
  BY <1>1, <1>2, <1>3
<1> HIDE DEF e
<1>5. /\ Sooner(e, req.deadline) \in Nat /\ Sooner(e, req.deadline) <= e
      /\ req.deadline # 0 => Sooner(e, req.deadline) <= req.deadline
  BY <1>1, <1>2, <1>4
<1> QED
  BY <1>1, <1>4, <1>5 DEF IdentityExpiry, e

\* What is minted is sound.
LEMMA NewIdentitySound ==
  ASSUME DelegationInv, NEW h \in Handlers, handler[h].pc = "create", NEW t \in Tokens,
         NEW id, id = NewIdentity(h, t)
  PROVE  /\ id \in Identity /\ id.token = t /\ ~id.revoked /\ id.req = handler[h].req
         /\ id.expiresAt = IdentityExpiry(handler[h].req, handler[h].now)
         /\ ValidRestored(id, gen)
<1> DEFINE req == handler[h].req
           now == handler[h].now
           e == IdentityExpiry(req, now)
<1>1. req \in Requests /\ now \in Nat /\ ValidAgainstEnvelope(req, now) /\ gen \in Generations
  BY LockedPart DEF DelegationInv, TypeOK
<1>2. /\ e \in Nat /\ e <= Envelope.expiresAt
      /\ req.deadline # 0 => e <= req.deadline
  BY <1>1, ExpiryBounds
<1>3. id = [token |-> t, req |-> req, createdAt |-> now, expiresAt |-> e, gen |-> gen, revoked |-> FALSE]
  BY DEF NewIdentity
<1> HIDE DEF req, now, e
<1>4. /\ id \in Identity /\ id.token = t /\ ~id.revoked /\ id.req = req /\ id.expiresAt = e
      /\ id.createdAt = now /\ id.gen = gen
  BY <1>1, <1>2, <1>3 DEF Identity, Time
<1>5. ValidRestored(id, gen)
  BY <1>1, <1>2, <1>4 DEF ValidRestored
<1> QED
  BY <1>4, <1>5 DEF req, now, e

\* What the Store p is once the handler h has minted an identity under t.
MintedStore(h, t, p) ==
  /\ handler[h].pc = "create"
  /\ StoreInv(p, gen) /\ Continues(store, p, minted) /\ minted \in SUBSET Tokens
  /\ \A u \in Tokens : p.objs[u] # None => u \in minted \union {t}
  /\ p.byInvocation[Key(handler[h].req)] = t
  /\ LiveOf(p) = (LiveOf(store) \ Expired(store, handler[h].now)) \union {t}
  /\ p.objs = [Swept(h).objs EXCEPT ![t] = NewIdentity(h, t)]

\* A new identity joins the swept Store.
LEMMA Minted ==
  ASSUME DelegationInv, NEW h \in Handlers, Admissible(h), NEW t \in Tokens, t \notin minted
  PROVE  MintedStore(h, t, IndexLocked(TakeSchemaSlot(Swept(h), handler[h].req.schema),
                                       NewIdentity(h, t)))
<1> DEFINE q == TakeSchemaSlot(Swept(h), handler[h].req.schema)
           id == NewIdentity(h, t)
           p == IndexLocked(q, id)
<1>1. /\ handler[h].pc = "create"
      /\ StoreInv(q, gen) /\ Continues(store, q, minted) /\ minted \in SUBSET Tokens
      /\ \A u \in Tokens : q.objs[u] # None => u \in minted
      /\ ~q.incomplete /\ q.byInvocation[Key(handler[h].req)] = None
      /\ ~ClosedSchemaSet => handler[h].req.schema \in q.hashes
      /\ LiveOf(q) = LiveOf(store) \ Expired(store, handler[h].now)
      /\ q.objs = Swept(h).objs
  BY SlotTaken
<1>2. id \in Identity /\ id.token = t /\ ~id.revoked /\ id.req = handler[h].req /\ ValidRestored(id, gen)
  BY <1>1, NewIdentitySound
<1>3. Key(id.req) \in Keys
  BY <1>2, RequestKeys DEF Identity
<1>4. p = IndexLocked(q, id) /\ t \in Tokens /\ t \notin minted /\ q.objs[t] = None
  BY <1>1
<1> HIDE DEF q, id, p
<1>5. /\ StoreInv(p, gen) /\ Continues(q, p, minted)
      /\ p.objs = [q.objs EXCEPT ![t] = id]
      /\ p.byInvocation = [q.byInvocation EXCEPT ![Key(id.req)] = t]
      /\ LiveOf(p) = LiveOf(q) \union {t}
  BY <1>1, <1>2, <1>4, IndexKeeps
<1>6. q.objs \in [Tokens -> Identity \union {None}] /\ q.byInvocation \in [Keys -> Tokens \union {None}]
  BY <1>1 DEF StoreInv, CoreInv, StoreType
<1>7. Continues(store, p, minted)
  BY <1>1, <1>5, ContinuesOn
<1>8. p.byInvocation[Key(handler[h].req)] = t
  BY <1>2, <1>3, <1>5, <1>6
<1>9. \A u \in Tokens : p.objs[u] # None => u \in minted \union {t}
  BY <1>1, <1>5, <1>6
<1>10. MintedStore(h, t, p)
  BY <1>1, <1>5, <1>7, <1>8, <1>9 DEF id, MintedStore
<1> QED
  BY <1>10 DEF p, q, id

\* A new identity.
LEMMA MintKeeps ==
  ASSUME DelegationInv, NEW h \in Handlers, Mint(h)
  PROVE  DelegationInv'
<1>1. PICK t \in Tokens \ minted :
        /\ EndLocked(h, IndexLocked(TakeSchemaSlot(Swept(h), handler[h].req.schema),
                                    NewIdentity(h, t)), "ok", {t})
        /\ minted' = minted \union {t}
  BY DEF Mint
<1>p. PICK p : p = IndexLocked(TakeSchemaSlot(Swept(h), handler[h].req.schema), NewIdentity(h, t))
  OBVIOUS
<1>0. Admissible(h) /\ t \in Tokens \ minted
  BY DEF Mint
<1>4. MintedStore(h, t, p)
  BY <1>0, <1>p, Minted
<1>2. /\ handler[h].pc = "create"
      /\ StoreInv(p, gen) /\ Continues(store, p, minted) /\ minted \in SUBSET Tokens
      /\ \A u \in Tokens : p.objs[u] # None => u \in minted \union {t}
      /\ p.byInvocation[Key(handler[h].req)] = t
  BY <1>4 DEF MintedStore
<1>3. EndLocked(h, p, "ok", {t})
  BY <1>1, <1>p
<1> QED
  BY <1>1, <1>2, <1>3, EndLockedKeeps

\* A revocation ends live identities and is to be acknowledged.
LEMMA RevocationKeeps ==
  ASSUME DelegationInv, NEW h \in Handlers, Receive(h), InMemoryOnly, minted' = minted,
         NEW T \in SUBSET minted, NEW L \in SUBSET T, \A t \in L : store.objs[t] # None,
         \A t \in T \ L : Dead(store, t), store' = RevokeLocked(store, L) \/ (L = {} /\ store' = store),
         handler' = [handler EXCEPT ![h] =
            [Idle EXCEPT !.op = "revoke", !.pc = "save", !.toks = T, !.out = "terminal"]]
  PROVE  DelegationInv'
<1>0. /\ up /\ handler[h].pc = "idle" /\ served' \in Nat
      /\ StoreInv(store, gen) /\ minted \in SUBSET Tokens
      /\ \A t \in Tokens : store.objs[t] # None => t \in minted
  BY Received
<1>1. T \in SUBSET Tokens /\ L \in SUBSET Tokens
  BY <1>0
<1>2. /\ StoreInv(store', gen) /\ Continues(store, store', minted) /\ SameButEnded(store, store', L)
  <2>1. CASE store' = RevokeLocked(store, L)
    BY <1>0, <1>1, <2>1, RevokeContinues
  <2>2. CASE L = {} /\ store' = store
    BY <1>0, <2>2, ContinuesSelf DEF SameButEnded
  <2> QED
    BY <2>1, <2>2
<1>3. \A t \in T : Dead(store', t)
  BY <1>0, <1>1, <1>2, DeadForGood DEF SameButEnded, Dead
<1>4. \A t \in Tokens : store'.objs[t] # None => t \in minted'
  BY <1>0, <1>2 DEF SameButEnded
<1> DEFINE x == [Idle EXCEPT !.op = "revoke", !.pc = "save", !.toks = T, !.out = "terminal"]
<1>5. /\ x \in HandlerType /\ x.pc = "save" /\ x.toks = T /\ x.out = "terminal" /\ x.op = "revoke"
  BY <1>1 DEF Idle, HandlerType, Time
<1>6. handler' = [handler EXCEPT ![h] = x]
  OBVIOUS
<1> HIDE DEF x
<1> QED
  BY <1>0, <1>2, <1>3, <1>4, <1>5, <1>6, HandlerMoves

\* Revoke.
LEMMA RevokeStepKeeps ==
  ASSUME DelegationInv, NEW h \in Handlers, NEW t \in Tokens, Revoke(h, t)
  PROVE  DelegationInv'
<1> DEFINE T == {t}
           L == IF t \in store.byHandle THEN {t} ELSE {}
<1>0. Receive(h) /\ InMemoryOnly /\ minted' = minted /\ t \in minted
  BY DEF Revoke
<1>1. store.byHandle = LiveOf(store)
  BY DEF DelegationInv, StoreInv, Indexed
<1>2. /\ T \in SUBSET minted /\ L \in SUBSET T /\ \A u \in L : store.objs[u] # None
      /\ \A u \in T \ L : Dead(store, u)
  BY <1>0, <1>1 DEF LiveOf, Dead
<1>3. store' = RevokeLocked(store, L) \/ (L = {} /\ store' = store)
  BY DEF Revoke
<1>4. handler' = [handler EXCEPT ![h] =
            [Idle EXCEPT !.op = "revoke", !.pc = "save", !.toks = T, !.out = "terminal"]]
  BY DEF Revoke
<1> HIDE DEF T, L
<1> QED
  BY <1>0, <1>2, <1>3, <1>4, RevocationKeeps

\* RevokeByLabels.
LEMMA RevokeByLabelsKeeps ==
  ASSUME DelegationInv, NEW h \in Handlers, NEW l \in Labels, RevokeByLabels(h, l)
  PROVE  DelegationInv'
<1> DEFINE T == store.byLabel[l] \intersect store.byHandle
<1>0. Receive(h) /\ InMemoryOnly /\ minted' = minted
  BY DEF RevokeByLabels
<1>1. store.byHandle = LiveOf(store)
  BY DEF DelegationInv, StoreInv, Indexed
<1>2. T \in SUBSET minted /\ T \in SUBSET T /\ \A u \in T : store.objs[u] # None
  BY <1>0, <1>1 DEF LiveOf, DelegationInv, MintedInv
<1>3. store' = RevokeLocked(store, T)
  BY DEF RevokeByLabels
<1>4. handler' = [handler EXCEPT ![h] =
            [Idle EXCEPT !.op = "revoke", !.pc = "save", !.toks = T, !.out = "terminal"]]
  BY DEF RevokeByLabels
<1> HIDE DEF T
<1> QED
  BY <1>0, <1>2, <1>3, <1>4, RevocationKeeps

\* A reconcile arrives.
LEMMA MarkReconciledKeeps ==
  ASSUME DelegationInv, NEW h \in Handlers, MarkReconciled(h)
  PROVE  DelegationInv'
<1> DEFINE x == [Idle EXCEPT !.op = "reconcile", !.pc = "save", !.out = "ok"]
<1>0. /\ up /\ handler[h].pc = "idle" /\ served' \in Nat
      /\ StoreInv(store, gen) /\ minted \in SUBSET Tokens
      /\ \A t \in Tokens : store.objs[t] # None => t \in minted
      /\ store' = store /\ minted' = minted /\ InMemoryOnly
  BY Received DEF MarkReconciled
<1>1. Continues(store, store', minted)
  BY <1>0, ContinuesSelf
<1>2. x \in HandlerType /\ x.pc = "save" /\ x.toks = {} /\ x.out = "ok"
  BY DEF Idle, HandlerType, Time
<1>3. handler' = [handler EXCEPT ![h] = x]
  BY DEF MarkReconciled
<1> HIDE DEF x
<1> QED
  BY <1>0, <1>1, <1>2, <1>3, HandlerMoves

\* The sweep that a data-plane call starts with.
LEMMA SweepKeeps ==
  ASSUME DelegationInv, Sweep
  PROVE  DelegationInv'
<1>0. /\ up /\ StoreInv(store, gen) /\ minted \in SUBSET Tokens /\ served \in Nat
      /\ handler \in [Handlers -> HandlerType]
      /\ \A t \in Tokens : store.objs[t] # None => t \in minted
      /\ store' = CleanupExpired(store, clock)
  BY DEF DelegationInv, TypeOK, Sweep, MintedInv
<1>1. /\ StoreInv(store', gen) /\ Continues(store, store', minted)
      /\ SameButEnded(store, store', Expired(store, clock))
  BY <1>0, SweepContinues
<1>2. \A t \in Tokens : store'.objs[t] # None => t \in minted
  BY <1>0, <1>1 DEF SameButEnded
<1> QED
  BY <1>0, <1>1, <1>2, AdvanceKeeps DEF Sweep

(***************************************************************************)
(* Persistence and answers.                                                *)
(***************************************************************************)

\* Who writes the file holds persistMu, so nobody else does.
LEMMA OneWriter ==
  ASSUME LockInv, NEW h \in Handlers, NEW g \in Handlers,
         handler[h].pc \in {"write", "clear"}, handler[g].pc \in {"write", "clear"}
  PROVE  g = h
BY DEF LockInv

\* SaveState takes its snapshot.
LEMMA TakeSnapshotKeeps ==
  ASSUME DelegationInv, NEW h \in Handlers, TakeSnapshot(h)
  PROVE  DelegationInv'
<1> DEFINE force == handler[h].op = "reconcile"
           f == Snapshot(store, gen, force)
           x == [handler[h] EXCEPT !.pc = "write", !.snap = f]
<1>0. /\ TypeOK /\ StoreInv(store, gen) /\ gen \in Generations /\ minted \in SUBSET Tokens
      /\ \A t \in Tokens : store.objs[t] # None => t \in minted
      /\ handler[h] \in HandlerType /\ handler[h].pc = "save" /\ persistMu = None
      /\ HandlerInv(handler[h], store, file, minted, clock, overridden)
      /\ AnswerInv(handler[h], handler, store, file)
      /\ force \in BOOLEAN /\ h # None
  BY NoneAssumption DEF DelegationInv, TypeOK, MintedInv, HandlersInv, TakeSnapshot
<1>1. /\ SnapInv(f, minted) /\ CoveredBy(f, store)
      /\ f.incomplete = (store.incomplete /\ ~force)
      /\ \A k \in Keys, t \in Tokens : store.byInvocation[k] = t => Has(f, k, t)
      /\ \A t \in Tokens : Dead(store, t) => DeadIn(f, t)
      /\ \A e \in SnapshotType : CoveredBy(e, store) => Advances(e, f)
  <2> DEFINE b == force
  <2>1. b \in BOOLEAN /\ f = Snapshot(store, gen, b)
    BY <1>0
  <2> HIDE DEF f, b
  <2>2. /\ SnapInv(f, minted) /\ CoveredBy(f, store)
        /\ f.incomplete = (store.incomplete /\ ~b)
        /\ \A k \in Keys, t \in Tokens : store.byInvocation[k] = t => Has(f, k, t)
        /\ \A t \in Tokens : Dead(store, t) => DeadIn(f, t)
        /\ \A e \in SnapshotType : CoveredBy(e, store) => Advances(e, f)
    BY <1>0, <2>1, SnapshotSound
  <2> QED
    BY <2>2 DEF b
<1> HIDE DEF f
<1>2. /\ x \in HandlerType /\ x.pc = "write" /\ x.snap = f /\ x.toks = handler[h].toks
      /\ x.op = handler[h].op /\ x.out = handler[h].out /\ x.req = handler[h].req
  BY <1>0, <1>1 DEF HandlerType, SnapInv
<1>3. handler' = [handler EXCEPT ![h] = x] /\ persistMu' = h
  BY DEF TakeSnapshot, f
<1> HIDE DEF x
<1>4. /\ handler' \in [Handlers -> HandlerType] /\ handler'[h] = x
      /\ \A g \in Handlers \ {h} : handler'[g] = handler[g]
  BY <1>2, <1>3 DEF DelegationInv, TypeOK
<1>5. \A g \in Handlers : handler[g].pc \notin {"write", "clear"}
  BY <1>0, NoneAssumption DEF DelegationInv, LockInv
<1>6. UNCHANGED <<clock, up, gen, store, file, minted, disclosed, terminal, overridden, served, crashes>>
  BY DEF TakeSnapshot
<1>7. TypeOK' /\ StoreInv(store, gen)' /\ MintedInv' /\ FileInv'
  BY <1>0, <1>3, <1>4, <1>6 DEF DelegationInv, TypeOK, MintedInv, FileInv
<1>8. LockInv'
  BY <1>2, <1>3, <1>4, <1>5 DEF LockInv
<1>9. DownInv'
  BY <1>0, <1>6 DEF DelegationInv, DownInv
<1>10. \A t \in terminal : DeadIn(f, t)
  BY <1>0, <1>1 DEF DelegationInv, TerminalInv, TypeOK
<1>11. TerminalInv'
  BY <1>2, <1>4, <1>5, <1>6, <1>10 DEF DelegationInv, TerminalInv
<1>12. up
  BY <1>0 DEF DelegationInv, DownInv
<1>13. HandlerInv(x, store, file, minted, clock, overridden)
  <2>1. file.status = "valid" /\ ~store.incomplete => Advances(file.body, f)
    BY <1>1, <1>12 DEF DelegationInv, FileInv, SnapInv, Valid
  <2>2. x.toks \subseteq minted /\ (x.op = "reconcile" => x.toks = {})
    BY <1>0, <1>2 DEF HandlerInv
  <2>3. store.incomplete /\ x.op # "reconcile" => f.incomplete
    BY <1>1, <1>2
  <2> QED
    BY <1>1, <1>2, <2>1, <2>2, <2>3 DEF HandlerInv, Valid
<1>14. AnswerInv(x, handler', store, file)
  <2>1. ASSUME x.out = "terminal", NEW t \in x.toks PROVE Dead(store, t) /\ DeadIn(f, t)
    BY <1>0, <1>1, <1>2, <2>1 DEF AnswerInv, HandlerInv
  <2>2. ASSUME x.out = "ok", NEW t \in x.toks
        PROVE  /\ x.req \in Requests /\ x.toks = {t} /\ store.byInvocation[Key(x.req)] = t
               /\ Has(f, Key(x.req), t)
    BY <1>0, <1>1, <1>2, <2>2, RequestKeys DEF AnswerInv, HandlerInv
  <2>3. x.out = "terminal" => \A t \in x.toks : Dead(store, t) /\ DeadIn(x.snap, t)
    BY <1>2, <2>1
  <2>4. x.out = "ok" => \A t \in x.toks :
          /\ x.req \in Requests /\ x.toks = {t} /\ store.byInvocation[Key(x.req)] = t
          /\ Has(x.snap, Key(x.req), t)
    BY <1>2, <2>2
  <2>5. x.pc = "write"
    BY <1>2
  <2> QED
    BY <2>3, <2>4, <2>5 DEF AnswerInv
<1>15. HandlersInv'
  <2> SUFFICES ASSUME NEW g \in Handlers
               PROVE  /\ HandlerInv(handler'[g], store, file, minted, clock, overridden)
                      /\ AnswerInv(handler'[g], handler', store, file)
    BY <1>6 DEF HandlersInv
  <2>1. CASE g = h
    BY <1>4, <1>13, <1>14, <2>1
  <2>2. CASE g # h
    <3> DEFINE y == handler[g]
    <3>1. /\ handler'[g] = y /\ HandlerInv(y, store, file, minted, clock, overridden)
          /\ AnswerInv(y, handler, store, file)
      BY <1>4, <2>2 DEF DelegationInv, HandlersInv
    <3> HIDE DEF y
    <3>2. ASSUME y.pc \in {"save", "write", "respond"}, y.out = "terminal", NEW t \in y.toks
          PROVE  \A d \in Handlers : handler'[d].pc = "write" => DeadIn(handler'[d].snap, t)
      <4>1. Dead(store, t) /\ t \in Tokens
        BY <1>0, <3>1, <3>2 DEF AnswerInv, HandlerInv
      <4>2. DeadIn(f, t)
        BY <1>1, <4>1
      <4> QED
        BY <1>2, <1>4, <1>5, <4>2
    <3>3. AnswerInv(y, handler', store, file)
      BY <3>1, <3>2 DEF AnswerInv
    <3> QED
      BY <3>1, <3>3
  <2> QED
    BY <2>1, <2>2
<1>16. ToldInv'
  <2>1. ASSUME ~overridden, NEW d \in disclosed, ~store.incomplete PROVE Has(f, d.key, d.token)
    <3>1. d.key \in Keys /\ d.token \in Tokens
      BY <1>0 DEF TypeOK
    <3> QED
      BY <1>1, <1>12, <2>1, <3>1 DEF DelegationInv, ToldInv
  <2> QED
    BY <1>2, <1>4, <1>5, <1>6, <2>1 DEF DelegationInv, ToldInv
<1> QED
  BY <1>7, <1>8, <1>9, <1>11, <1>15, <1>16 DEF DelegationInv

\* Under a closed gate no invocation has an identity.
LEMMA ClosedIsEmpty ==
  ASSUME NEW s, NEW g, CoreInv(s, g), s.incomplete
  PROVE  \A k \in Keys : s.byInvocation[k] = None
<1>1. \A k \in Keys : s.byInvocation[k] \in Tokens \union {None}
  BY DEF CoreInv, StoreType
<1> QED
  BY <1>1 DEF CoreInv

\* The snapshot of h becomes the file, and h goes on as x.
LEMMA FileWritten ==
  ASSUME DelegationInv, NEW h \in Handlers, handler[h].pc = "write",
         file' = [status |-> "valid", body |-> handler[h].snap],
         NEW x \in HandlerType, handler' = [handler EXCEPT ![h] = x],
         UNCHANGED <<clock, up, gen, store, minted, disclosed, terminal, served, crashes>>,
         overridden' \in BOOLEAN, overridden = TRUE => overridden' = TRUE,
         handler[h].op = "reconcile" /\ store.incomplete = TRUE => overridden' = TRUE,
         x.pc \in {"idle", "clear", "respond"},
         persistMu' = IF x.pc = "clear" THEN h ELSE None,
         x.toks \subseteq handler[h].toks, x.op = "reconcile" => x.toks = {},
         x.pc = "clear" => x.op = "reconcile" /\ handler[h].op = "reconcile",
         x.pc = "respond" => /\ x.out = handler[h].out /\ x.req = handler[h].req
                             /\ x.toks = handler[h].toks
  PROVE  DelegationInv'
<1> DEFINE f == handler[h].snap
           y == handler[h]
<1>0. /\ TypeOK /\ StoreInv(store, gen) /\ minted \in SUBSET Tokens /\ file \in FileType
      /\ y \in HandlerType
      /\ HandlerInv(y, store, file, minted, clock, overridden)
      /\ AnswerInv(y, handler, store, file) /\ h # None
  BY NoneAssumption DEF DelegationInv, TypeOK, HandlersInv
<1>1. /\ SnapInv(f, minted) /\ CoveredBy(f, store) /\ f \in SnapshotType
      /\ ~store.incomplete /\ Valid(file) => Advances(file.body, f)
      /\ store.incomplete /\ y.op # "reconcile" => f.incomplete
      /\ x.toks \subseteq minted
  BY <1>0 DEF HandlerInv, SnapInv
<1>2. up
  BY DEF DelegationInv, DownInv
<1>3. \A g \in Handlers \ {h} : handler[g].pc \notin {"write", "clear"}
  BY OneWriter DEF DelegationInv
<1>4. /\ handler' \in [Handlers -> HandlerType] /\ handler'[h] = x
      /\ \A g \in Handlers \ {h} : handler'[g] = handler[g]
  BY DEF DelegationInv, TypeOK
<1>5. \A g \in Handlers : handler'[g].pc # "write"
  BY <1>3, <1>4
<1>6. /\ file' \in FileType /\ Valid(file') /\ file'.body = f /\ file'.status # Missing
  BY <1>1 DEF FileType, Valid, Missing
<1>7. TypeOK' /\ StoreInv(store, gen)' /\ MintedInv'
  BY <1>0, <1>4, <1>6 DEF DelegationInv, TypeOK, MintedInv
<1>8. LockInv'
  BY <1>0, <1>3, <1>4, NoneAssumption DEF LockInv
<1>9. DownInv'
  BY <1>2 DEF DownInv
<1>10. TerminalInv'
  BY <1>5, <1>6 DEF DelegationInv, TerminalInv
<1>11. FileInv'
  BY <1>1, <1>6 DEF FileInv
<1>12. HandlerInv(x, store, file', minted, clock, overridden')
  BY <1>1, <1>6 DEF HandlerInv
<1>13. AnswerInv(x, handler', store, file')
  <2>1. ASSUME x.pc = "respond", x.out = "terminal", NEW t \in x.toks
        PROVE  Dead(store, t) /\ DeadIn(f, t)
    BY <1>0, <2>1 DEF AnswerInv
  <2>2. ASSUME x.pc = "respond", x.out = "ok", NEW t \in x.toks
        PROVE  /\ x.req \in Requests /\ x.toks = {t} /\ store.byInvocation[Key(x.req)] = t
               /\ Has(f, Key(x.req), t)
    BY <1>0, <2>2 DEF AnswerInv
  <2> HIDE DEF f
  <2> QED
    BY <1>5, <1>6, <2>1, <2>2 DEF AnswerInv
<1>14. ASSUME NEW g \in Handlers, g # h
       PROVE  /\ HandlerInv(handler[g], store, file', minted, clock, overridden')
              /\ AnswerInv(handler[g], handler', store, file')
  <2> DEFINE z == handler[g]
  <2>1. /\ HandlerInv(z, store, file, minted, clock, overridden)
        /\ AnswerInv(z, handler, store, file) /\ z.pc \notin {"write", "clear"}
        /\ z \in HandlerType
    BY <1>0, <1>3, <1>14 DEF DelegationInv, HandlersInv, TypeOK
  <2>2. ASSUME z.pc = "respond", z.out = "terminal", NEW t \in z.toks PROVE DeadIn(f, t)
    BY <2>1, <2>2 DEF AnswerInv
  <2>3. ASSUME z.pc = "respond", z.out = "ok", NEW t \in z.toks PROVE Has(f, Key(z.req), t)
    <3> DEFINE k == Key(z.req)
    <3>1. /\ z.req \in Requests /\ store.byInvocation[k] = t
          /\ Valid(file) /\ Has(file.body, k, t)
      BY <2>1, <2>3 DEF AnswerInv
    <3>2. k \in Keys /\ t # None
      BY <2>1, <2>3, <3>1, RequestKeys, NoneAssumption DEF HandlerType
    <3> HIDE DEF k, f
    <3>3. ~store.incomplete
      BY <1>0, <3>1, <3>2, ClosedIsEmpty DEF StoreInv
    <3>4. Has(f, k, t)
      BY <1>1, <3>1, <3>2, <3>3 DEF Advances, Has
    <3> QED
      BY <3>4 DEF k
  <2> HIDE DEF z, f
  <2>4. HandlerInv(z, store, file', minted, clock, overridden')
    BY <2>1 DEF HandlerInv
  <2>5. AnswerInv(z, handler', store, file')
    BY <1>5, <1>6, <2>1, <2>2, <2>3 DEF AnswerInv
  <2> QED
    BY <2>4, <2>5 DEF z
<1>15. HandlersInv'
  BY <1>4, <1>12, <1>13, <1>14 DEF HandlersInv
<1>16. ToldInv'
  <2> SUFFICES ASSUME ~overridden', NEW d \in disclosed
               PROVE  /\ f.incomplete \/ Has(f, d.key, d.token)
                      /\ up /\ ~store.incomplete => store.byInvocation[d.key] = d.token
    BY <1>5, <1>6 DEF ToldInv
  <2>1. /\ ~store.incomplete => store.byInvocation[d.key] = d.token /\ Has(f, d.key, d.token)
    BY <1>2 DEF DelegationInv, ToldInv
  <2> QED
    BY <1>1, <2>1
<1> QED
  BY <1>7, <1>8, <1>9, <1>10, <1>11, <1>15, <1>16 DEF DelegationInv

\* AtomicWriteFile succeeds.
LEMMA WriteFileKeeps ==
  ASSUME DelegationInv, NEW h \in Handlers, WriteFile(h)
  PROVE  DelegationInv'
<1>0. /\ handler[h] \in HandlerType /\ overridden \in BOOLEAN /\ store.incomplete \in BOOLEAN
      /\ persistMu = h /\ handler[h].pc = "write"
      /\ handler[h].op = "reconcile" => handler[h].toks = {}
  BY DEF DelegationInv, TypeOK, StoreType, LockInv, HandlersInv, HandlerInv, WriteFile
<1>1. CASE handler[h].op = "reconcile"
  <2> DEFINE x == [handler[h] EXCEPT !.pc = "clear", !.snap = None]
  <2>1. /\ x \in HandlerType /\ x.pc = "clear" /\ x.op = handler[h].op /\ x.toks = handler[h].toks
    BY <1>0 DEF HandlerType
  <2>2. handler' = [handler EXCEPT ![h] = x] /\ persistMu' = h
    BY <1>0, <1>1 DEF WriteFile
  <2> HIDE DEF x
  <2>3. /\ overridden' \in BOOLEAN
        /\ overridden = TRUE => overridden' = TRUE
        /\ store.incomplete = TRUE => overridden' = TRUE
    BY <1>0, <1>1 DEF WriteFile
  <2>4. /\ file' = [status |-> "valid", body |-> handler[h].snap]
        /\ UNCHANGED <<clock, up, gen, store, minted, disclosed, terminal, served, crashes>>
    BY DEF WriteFile
  <2>5. /\ persistMu' = IF x.pc = "clear" THEN h ELSE None
        /\ x.pc \in {"idle", "clear", "respond"} /\ x.toks \subseteq handler[h].toks
        /\ x.op = "reconcile" /\ x.toks = {} /\ x.pc # "respond"
    BY <1>0, <1>1, <2>1, <2>2
  <2>6. handler[h].pc = "write" /\ handler[h].op = "reconcile"
    BY <1>0, <1>1
  <2> QED
    BY <2>1, <2>2, <2>3, <2>4, <2>5, <2>6, FileWritten
<1>2. CASE handler[h].op # "reconcile"
  <2> DEFINE x == [handler[h] EXCEPT !.pc = "respond", !.snap = None]
  <2>1. /\ x \in HandlerType /\ x.pc = "respond" /\ x.op = handler[h].op
        /\ x.toks = handler[h].toks /\ x.out = handler[h].out /\ x.req = handler[h].req
    BY <1>0 DEF HandlerType
  <2>2. handler' = [handler EXCEPT ![h] = x] /\ persistMu' = None /\ overridden' = overridden
    BY <1>0, <1>2 DEF WriteFile
  <2> HIDE DEF x
  <2>4. /\ file' = [status |-> "valid", body |-> handler[h].snap]
        /\ UNCHANGED <<clock, up, gen, store, minted, disclosed, terminal, served, crashes>>
    BY DEF WriteFile
  <2> QED
    BY <1>0, <1>2, <2>1, <2>2, <2>4, FileWritten
<1> QED
  BY <1>1, <1>2

\* A request ends: its handler is idle again, and whoever holds persistMu
\* is another one.
LEMMA RequestEnds ==
  ASSUME DelegationInv, NEW h \in Handlers, handler[h].pc \in {"write", "respond"},
         handler' = [handler EXCEPT ![h] = Idle],
         persistMu' = IF handler[h].pc = "write" THEN None ELSE persistMu,
         UNCHANGED <<clock, up, gen, store, file, minted, overridden, served, crashes>>
  PROVE  /\ handler' \in [Handlers -> HandlerType] /\ persistMu' \in Handlers \union {None}
         /\ \A g \in Handlers : handler'[g].pc = "write" => handler'[g] = handler[g]
         /\ StoreInv(store, gen)' /\ DownInv' /\ LockInv' /\ HandlersInv' /\ FileInv'
<1>0. TypeOK /\ h # None /\ handler[h] \in HandlerType
  BY NoneAssumption DEF DelegationInv, TypeOK
<1>1. /\ handler' \in [Handlers -> HandlerType] /\ handler'[h] = Idle
      /\ \A g \in Handlers \ {h} : handler'[g] = handler[g]
  BY <1>0, IdleHandler DEF TypeOK
<1>2. \A g \in Handlers : handler'[g].pc = "write" => handler'[g] = handler[g]
  BY <1>1, IdleHandler
<1>3. /\ StoreInv(store, gen)' /\ FileInv' /\ persistMu' \in Handlers \union {None}
  BY <1>0 DEF DelegationInv, FileInv, TypeOK
<1>4. LockInv'
  <2>1. \A g \in Handlers : persistMu = g <=> handler[g].pc \in {"write", "clear"}
    BY DEF DelegationInv, LockInv
  <2>2. CASE handler[h].pc = "write"
    BY <1>0, <1>1, <2>1, <2>2, IdleHandler, NoneAssumption DEF LockInv
  <2>3. CASE handler[h].pc = "respond"
    BY <1>0, <1>1, <2>1, <2>3, IdleHandler DEF LockInv
  <2> QED
    BY <2>2, <2>3
<1>5. DownInv'
  BY <1>0 DEF DelegationInv, DownInv
<1>6. HandlersInv'
  <2> SUFFICES ASSUME NEW g \in Handlers
               PROVE  /\ HandlerInv(handler'[g], store, file, minted, clock, overridden)
                      /\ AnswerInv(handler'[g], handler', store, file)
    BY DEF HandlersInv
  <2>1. CASE g = h
    BY <1>1, <2>1, IdleHandler DEF HandlerInv, AnswerInv
  <2>2. CASE g # h
    <3>1. /\ handler'[g] = handler[g]
          /\ HandlerInv(handler[g], store, file, minted, clock, overridden)
          /\ AnswerInv(handler[g], handler, store, file)
      BY <1>1, <2>2 DEF DelegationInv, HandlersInv
    <3>2. AnswerInv(handler[g], handler', store, file)
      BY <1>2, <3>1 DEF AnswerInv
    <3> QED
      BY <3>1, <3>2
  <2> QED
    BY <2>1, <2>2
<1> QED
  BY <1>1, <1>2, <1>3, <1>4, <1>5, <1>6

\* AtomicWriteFile fails, after or before the rename.
LEMMA WriteFailsKeeps ==
  ASSUME DelegationInv, NEW h \in Handlers, WriteFails(h)
  PROVE  DelegationInv'
<1>0. /\ handler[h].pc = "write" /\ TypeOK
      /\ handler' = [handler EXCEPT ![h] = Idle] /\ persistMu' = None
      /\ UNCHANGED <<clock, up, gen, store, minted, disclosed, terminal, served, crashes>>
      /\ overridden \in BOOLEAN /\ store.incomplete \in BOOLEAN
  BY DEF DelegationInv, TypeOK, StoreType, WriteFails
<1>1. PICK renamed \in BOOLEAN :
       /\ file' = IF renamed THEN [status |-> "valid", body |-> handler[h].snap] ELSE file
       /\ overridden' = (overridden \/ (renamed /\ handler[h].op = "reconcile" /\ store.incomplete))
  BY DEF WriteFails
<1>2. CASE renamed
  <2>1. /\ file' = [status |-> "valid", body |-> handler[h].snap]
        /\ overridden' = (overridden \/ (handler[h].op = "reconcile" /\ store.incomplete))
    BY <1>1, <1>2
  <2>2. /\ overridden' \in BOOLEAN
        /\ overridden = TRUE => overridden' = TRUE
        /\ handler[h].op = "reconcile" /\ store.incomplete = TRUE => overridden' = TRUE
    BY <1>0, <2>1
  <2> DEFINE x == Idle
  <2>3. /\ x \in HandlerType /\ x.pc = "idle" /\ x.op = "none" /\ x.toks = {}
        /\ handler' = [handler EXCEPT ![h] = x]
    BY <1>0, IdleHandler
  <2> HIDE DEF x
  <2> QED
    BY <1>0, <2>1, <2>2, <2>3, FileWritten
<1>3. CASE ~renamed
  <2>1. file' = file /\ overridden' = overridden
    BY <1>0, <1>1, <1>3
  <2>2. /\ handler' \in [Handlers -> HandlerType] /\ persistMu' \in Handlers \union {None}
        /\ \A g \in Handlers : handler'[g].pc = "write" => handler'[g] = handler[g]
        /\ StoreInv(store, gen)' /\ DownInv' /\ LockInv' /\ HandlersInv' /\ FileInv'
    BY <1>0, <2>1, RequestEnds
  <2>3. TypeOK' /\ MintedInv'
    BY <1>0, <2>1, <2>2 DEF DelegationInv, TypeOK, MintedInv
  <2>4. TerminalInv' /\ ToldInv'
    BY <1>0, <2>1, <2>2 DEF DelegationInv, TerminalInv, ToldInv
  <2> QED
    BY <2>2, <2>3, <2>4 DEF DelegationInv
<1> QED
  BY <1>2, <1>3

\* What an answer says is so in the Store, in the file, and in the snapshot
\* that is on its way to it.
LEMMA AnswerHolds ==
  ASSUME DelegationInv, NEW h \in Handlers, handler[h].pc = "respond", NEW t \in handler[h].toks
  PROVE  /\ t \in minted /\ t \in Tokens /\ up
         /\ handler[h].out = "terminal" =>
              /\ Dead(store, t) /\ (Valid(file) => DeadIn(file.body, t))
              /\ \A g \in Handlers : handler[g].pc = "write" => DeadIn(handler[g].snap, t)
         /\ handler[h].out = "ok" =>
              /\ handler[h].toks = {t} /\ Key(handler[h].req) \in Keys
              /\ Valid(file) /\ Has(file.body, Key(handler[h].req), t)
              /\ ~store.incomplete /\ store.byInvocation[Key(handler[h].req)] = t
              /\ \A g \in Handlers : handler[g].pc = "write" => Has(handler[g].snap, Key(handler[h].req), t)
<1> DEFINE x == handler[h]
<1>1. /\ t \in minted /\ t \in Tokens /\ up /\ t # None
      /\ AnswerInv(x, handler, store, file) /\ StoreInv(store, gen)
  BY NoneAssumption DEF DelegationInv, TypeOK, HandlersInv, HandlerInv, DownInv
<1>2. ASSUME x.out = "ok"
      PROVE  /\ x.toks = {t} /\ Key(x.req) \in Keys
             /\ Valid(file) /\ Has(file.body, Key(x.req), t)
             /\ ~store.incomplete /\ store.byInvocation[Key(x.req)] = t
             /\ \A g \in Handlers : handler[g].pc = "write" => Has(handler[g].snap, Key(x.req), t)
  <2> DEFINE k == Key(x.req)
  <2>1. /\ x.req \in Requests /\ x.toks = {t} /\ Valid(file) /\ Has(file.body, k, t)
        /\ store.byInvocation[k] = t
    BY <1>1, <1>2 DEF AnswerInv
  <2>2. k \in Keys
    BY <2>1, RequestKeys
  <2> HIDE DEF k
  <2>3. ~store.incomplete
    BY <1>1, <2>1, <2>2, ClosedIsEmpty DEF StoreInv
  <2>4. ASSUME NEW g \in Handlers, handler[g].pc = "write" PROVE Has(handler[g].snap, k, t)
    <3>1. Advances(file.body, handler[g].snap)
      BY <2>1, <2>3, <2>4 DEF DelegationInv, HandlersInv, HandlerInv
    <3> QED
      BY <2>1, <2>2, <3>1 DEF Advances, Has
  <2> QED
    BY <2>1, <2>2, <2>3, <2>4 DEF k
<1>3. x.out = "terminal" =>
              /\ Dead(store, t) /\ (Valid(file) => DeadIn(file.body, t))
              /\ \A g \in Handlers : handler[g].pc = "write" => DeadIn(handler[g].snap, t)
  BY <1>1 DEF AnswerInv
<1> QED
  BY <1>1, <1>2, <1>3

\* The answer reaches AWF.
LEMMA RespondKeeps ==
  ASSUME DelegationInv, NEW h \in Handlers, Respond(h)
  PROVE  DelegationInv'
<1> DEFINE x == handler[h]
           told == {[key |-> Key(x.req), token |-> t] : t \in x.toks}
<1>0. /\ x.pc = "respond" /\ TypeOK
      /\ handler' = [handler EXCEPT ![h] = Idle] /\ persistMu' = persistMu
      /\ UNCHANGED <<clock, up, gen, store, file, minted, overridden, served, crashes>>
      /\ disclosed' = IF x.out = "ok" THEN disclosed \union told ELSE disclosed
      /\ terminal' = IF x.out = "terminal" THEN terminal \union x.toks ELSE terminal
  BY DEF DelegationInv, Respond
<1>1. /\ handler' \in [Handlers -> HandlerType] /\ persistMu' \in Handlers \union {None}
      /\ \A g \in Handlers : handler'[g].pc = "write" => handler'[g] = handler[g]
      /\ StoreInv(store, gen)' /\ DownInv' /\ LockInv' /\ HandlersInv' /\ FileInv'
  BY <1>0, RequestEnds
<1>2. \A t \in x.toks :
         /\ t \in minted /\ t \in Tokens /\ up
         /\ x.out = "terminal" =>
              /\ Dead(store, t) /\ (Valid(file) => DeadIn(file.body, t))
              /\ \A g \in Handlers : handler[g].pc = "write" => DeadIn(handler[g].snap, t)
         /\ x.out = "ok" =>
              /\ x.toks = {t} /\ Key(x.req) \in Keys
              /\ Valid(file) /\ Has(file.body, Key(x.req), t)
              /\ ~store.incomplete /\ store.byInvocation[Key(x.req)] = t
              /\ \A g \in Handlers : handler[g].pc = "write" => Has(handler[g].snap, Key(x.req), t)
  BY <1>0, AnswerHolds
<1> HIDE DEF x
<1>3. x.out = "ok" => \A d \in told :
         /\ d \in [key : Keys, token : Tokens] /\ Valid(file) /\ Has(file.body, d.key, d.token)
         /\ store.byInvocation[d.key] = d.token
         /\ \A g \in Handlers : handler[g].pc = "write" => Has(handler[g].snap, d.key, d.token)
  BY <1>2
<1> HIDE DEF told
<1>4. /\ disclosed' \in SUBSET [key : Keys, token : Tokens]
      /\ terminal' \in SUBSET Tokens /\ terminal' \subseteq minted
  BY <1>0, <1>2, <1>3 DEF DelegationInv, TypeOK, MintedInv
<1>5. TypeOK' /\ MintedInv'
  BY <1>0, <1>1, <1>4 DEF DelegationInv, TypeOK, MintedInv
<1>6. TerminalInv'
  BY <1>0, <1>1, <1>2 DEF DelegationInv, TerminalInv
<1>7. ToldInv'
  <2> SUFFICES ASSUME ~overridden, NEW d \in disclosed'
               PROVE  /\ file.status # Missing
                      /\ Valid(file) => file.body.incomplete \/ Has(file.body, d.key, d.token)
                      /\ up /\ ~store.incomplete => store.byInvocation[d.key] = d.token
                      /\ \A g \in Handlers : handler'[g].pc = "write" /\ ~store.incomplete
                           => Has(handler'[g].snap, d.key, d.token)
    BY <1>0 DEF ToldInv
  <2>1. CASE d \in disclosed
    BY <1>0, <1>1, <2>1 DEF DelegationInv, ToldInv
  <2>2. CASE d \notin disclosed
    BY <1>0, <1>1, <1>3, <2>2 DEF Valid, Missing
  <2> QED
    BY <2>1, <2>2
<1> QED
  BY <1>1, <1>5, <1>6, <1>7 DEF DelegationInv

\* The end of MarkReconciledAndSaveState.
LEMMA OpenGateKeeps ==
  ASSUME DelegationInv, NEW h \in Handlers, OpenGate(h)
  PROVE  DelegationInv'
<1> DEFINE s == [store EXCEPT !.incomplete = FALSE]
           x == [handler[h] EXCEPT !.pc = "respond"]
<1>0. /\ TypeOK /\ StoreInv(store, gen) /\ handler[h].pc = "clear" /\ handler[h] \in HandlerType
      /\ handler[h].op = "reconcile" /\ handler[h].toks = {}
      /\ Valid(file) /\ CoveredBy(file.body, store)
      /\ store.incomplete => overridden
      /\ store \in StoreType
      /\ UNCHANGED <<clock, up, gen, file, minted, disclosed, terminal, overridden, served, crashes>>
      /\ persistMu' = None /\ h # None
  BY NoneAssumption DEF DelegationInv, TypeOK, HandlersInv, HandlerInv, OpenGate
<1>1. /\ s \in StoreType /\ s.objs = store.objs /\ s.byHandle = store.byHandle
      /\ s.byBearer = store.byBearer /\ s.byInvocation = store.byInvocation
      /\ s.byLabel = store.byLabel /\ s.hashes = store.hashes /\ s.incomplete = FALSE
  BY <1>0 DEF StoreType
<1>2. /\ x \in HandlerType /\ x.pc = "respond" /\ x.op = "reconcile" /\ x.toks = {}
  BY <1>0 DEF HandlerType
<1>3. store' = s /\ handler' = [handler EXCEPT ![h] = x]
  BY DEF OpenGate
<1> HIDE DEF s, x
<1>4. /\ handler' \in [Handlers -> HandlerType] /\ handler'[h] = x
      /\ \A g \in Handlers \ {h} : handler'[g] = handler[g]
  BY <1>0, <1>2, <1>3 DEF TypeOK
<1>5. \A g \in Handlers \ {h} : handler[g].pc \notin {"write", "clear"}
  BY <1>0, OneWriter DEF DelegationInv
<1>6. StoreInv(s, gen)
  BY <1>0, <1>1 DEF StoreInv, CoreInv, Indexed, LiveOf
<1>7. TypeOK'
  BY <1>0, <1>1, <1>3, <1>4 DEF TypeOK
<1>8. LockInv'
  BY <1>0, <1>2, <1>4, <1>5, NoneAssumption DEF LockInv
<1>9. DownInv' /\ MintedInv'
  BY <1>0, <1>1, <1>3 DEF DelegationInv, DownInv, MintedInv
<1>10. FileInv'
  BY <1>0, <1>1, <1>3 DEF DelegationInv, FileInv, CoveredBy
<1>11. \A g \in Handlers : handler'[g].pc # "write"
  BY <1>2, <1>4, <1>5
<1>12. TerminalInv'
  BY <1>0, <1>1, <1>3, <1>11 DEF DelegationInv, TerminalInv, Dead
<1>13. HandlersInv'
  <2> SUFFICES ASSUME NEW g \in Handlers
               PROVE  /\ HandlerInv(handler'[g], s, file, minted, clock, overridden)
                      /\ AnswerInv(handler'[g], handler', s, file)
    BY <1>0, <1>3 DEF HandlersInv
  <2>1. CASE g = h
    BY <1>2, <1>4, <2>1 DEF HandlerInv, AnswerInv
  <2>2. CASE g # h
    <3>1. /\ handler'[g] = handler[g] /\ handler[g].pc \notin {"write", "clear"}
          /\ HandlerInv(handler[g], store, file, minted, clock, overridden)
          /\ AnswerInv(handler[g], handler, store, file)
      BY <1>4, <1>5, <2>2 DEF DelegationInv, HandlersInv
    <3>2. HandlerInv(handler[g], s, file, minted, clock, overridden)
      BY <3>1 DEF HandlerInv
    <3>3. AnswerInv(handler[g], handler', s, file)
      BY <1>1, <1>11, <3>1 DEF AnswerInv, Dead
    <3> QED
      BY <3>1, <3>2, <3>3
  <2> QED
    BY <2>1, <2>2
<1>14. ToldInv'
  BY <1>0, <1>1, <1>3, <1>11 DEF DelegationInv, ToldInv
<1> QED
  BY <1>0, <1>3, <1>6, <1>7, <1>8, <1>9, <1>10, <1>12, <1>13, <1>14 DEF DelegationInv

(***************************************************************************)
(* Time, crashes, damage to the file, restarts.                            *)
(***************************************************************************)

\* Time passes.
LEMMA TickKeeps ==
  ASSUME DelegationInv, Tick
  PROVE  DelegationInv'
<1>0. /\ TypeOK /\ clock \in Nat /\ clock' = clock + 1 /\ StoreInv(store, gen)
      /\ minted \in SUBSET Tokens /\ file \in FileType
      /\ UNCHANGED <<up, gen, store, persistMu, handler, file, minted, disclosed, terminal,
                     overridden, served, crashes>>
  BY DEF DelegationInv, TypeOK, Time, Tick
<1>1. clock' \in Nat /\ clock <= clock'
  BY <1>0
<1>2. TypeOK' /\ StoreInv(store, gen)' /\ DownInv' /\ LockInv' /\ MintedInv' /\ TerminalInv'
      /\ FileInv' /\ ToldInv'
  BY <1>0, <1>1 DEF DelegationInv, TypeOK, Time, DownInv, LockInv, MintedInv, TerminalInv,
                    FileInv, ToldInv
<1>3. ASSUME NEW h \in Handlers
      PROVE  HandlerInv(handler[h], store, file, minted, clock', overridden)
  <2>1. handler[h] \in HandlerType /\ HandlerInv(handler[h], store, file, minted, clock, overridden)
    BY <1>0 DEF DelegationInv, HandlersInv, TypeOK
  <2>2. Continues(store, store, minted)
    BY ContinuesSelf
  <2> QED
    BY <1>0, <1>1, <2>1, <2>2, HandlerCalm
<1>4. HandlersInv'
  BY <1>0, <1>3 DEF DelegationInv, HandlersInv
<1> QED
  BY <1>2, <1>4 DEF DelegationInv

\* The process dies.
LEMMA CrashKeeps ==
  ASSUME DelegationInv, Crash
  PROVE  DelegationInv'
<1>0. /\ TypeOK /\ up' = FALSE /\ store' = NewStore /\ persistMu' = None
      /\ handler' = [h \in Handlers |-> Idle] /\ crashes' \in Nat
      /\ UNCHANGED <<clock, gen, file, minted, disclosed, terminal, overridden, served>>
  BY DEF DelegationInv, TypeOK, Crash
<1>1. StoreInv(NewStore, gen)
  BY NewStoreSound
<1>2. \A t \in Tokens : NewStore.objs[t] = None
  BY DEF NewStore
<1>3. NewStore \in StoreType
  BY <1>1 DEF StoreInv, CoreInv
<1>4. \A h \in Handlers : handler'[h] = Idle
  BY <1>0
<1>5. TypeOK'
  BY <1>0, <1>3, IdleHandler DEF TypeOK
<1>6. DownInv' /\ LockInv' /\ MintedInv'
  BY <1>0, <1>2, <1>4, IdleHandler, NoneAssumption DEF DelegationInv, DownInv, LockInv, MintedInv, TypeOK
<1>7. HandlersInv'
  BY <1>4, IdleHandler DEF HandlersInv, HandlerInv, AnswerInv
<1>8. TerminalInv' /\ FileInv' /\ ToldInv'
  BY <1>0, <1>2, <1>4, IdleHandler DEF DelegationInv, TypeOK, TerminalInv, FileInv, ToldInv, Dead
<1> QED
  BY <1>0, <1>1, <1>5, <1>6, <1>7, <1>8 DEF DelegationInv

\* The file is damaged while no process runs.
LEMMA DamageKeeps ==
  ASSUME DelegationInv, Damage
  PROVE  DelegationInv'
<1>0. /\ TypeOK /\ ~up /\ \A h \in Handlers : handler[h].pc = "idle"
      /\ file' = [status |-> Corrupt, body |-> None]
      /\ UNCHANGED <<clock, up, gen, store, persistMu, handler, minted, disclosed, terminal,
                     overridden, served, crashes>>
  BY DEF DelegationInv, DownInv, Damage
<1>1. file' \in FileType /\ ~Valid(file') /\ file'.status # Missing
  BY <1>0 DEF FileType, Valid, Missing, Corrupt
<1>2. TypeOK'
  BY <1>0, <1>1 DEF TypeOK
<1>3. StoreInv(store, gen)' /\ DownInv' /\ LockInv' /\ MintedInv' /\ TerminalInv' /\ FileInv' /\ ToldInv'
  BY <1>0, <1>1 DEF DelegationInv, DownInv, LockInv, MintedInv, TerminalInv, FileInv, ToldInv
<1>4. HandlersInv'
  BY <1>0 DEF DelegationInv, HandlersInv, HandlerInv, AnswerInv
<1> QED
  BY <1>2, <1>3, <1>4 DEF DelegationInv

\* The Store a process starts with, from the file f it finds.
Recovered(s, g, fl, M) ==
  /\ StoreInv(s, g)
  /\ \A t \in Tokens : s.objs[t] # None => t \in M
  /\ ~s.incomplete /\ Valid(fl) => CoveredBy(fl.body, s) /\ ~fl.body.incomplete
  /\ ~s.incomplete => fl.status = Missing \/ Valid(fl)
  /\ \A t \in Tokens : (Valid(fl) => DeadIn(fl.body, t)) => Dead(s, t)

\* loadStoreAt: an empty Store, the recovered one, or a closed gate.
LEMMA LoadStoreSound ==
  ASSUME NEW fl \in FileType, NEW M, Valid(fl) => SnapInv(fl.body, M),
         NEW readable \in BOOLEAN, NEW g, NEW now
  PROVE  Recovered(LoadStore(fl, readable, g, now), g, fl, M)
<1> DEFINE s == LoadStore(fl, readable, g, now)
<1>1. CASE fl.status = Missing
  <2>1. s = NewStore /\ StoreInv(NewStore, g) /\ \A t \in Tokens : NewStore.objs[t] = None
    BY <1>1, NewStoreSound DEF LoadStore, NewStore
  <2>2. ~Valid(fl)
    BY <1>1 DEF Valid, Missing
  <2> HIDE DEF s
  <2>3. Recovered(s, g, fl, M)
    BY <1>1, <2>1, <2>2 DEF Recovered, Dead
  <2> QED
    BY <2>3 DEF s
<1>2. CASE fl.status # Missing /\ readable /\ Valid(fl) /\ ValidPersistedState(fl.body, g)
  <2>1. s = Restore(fl.body, now) /\ fl.body.gen = g
    BY <1>2 DEF LoadStore, Valid, ValidPersistedState
  <2> HIDE DEF s
  <2>2. /\ StoreInv(s, g) /\ CoveredBy(fl.body, s)
        /\ \A t \in Tokens : s.objs[t] # None => t \in M
        /\ \A t \in Tokens : DeadIn(fl.body, t) => Dead(s, t)
        /\ s.incomplete = fl.body.incomplete
    BY <1>2, <2>1, RestoreSound
  <2>3. Recovered(s, g, fl, M)
    BY <1>2, <2>2 DEF Recovered
  <2> QED
    BY <2>3 DEF s
<1>3. CASE fl.status # Missing /\ ~(readable /\ Valid(fl) /\ ValidPersistedState(fl.body, g))
  <2>1. s = [NewStore EXCEPT !.incomplete = TRUE]
    BY <1>3 DEF LoadStore, Valid, FailedRecoveryStore
  <2>2. StoreInv([NewStore EXCEPT !.incomplete = TRUE], g)
    BY NewStoreSound
  <2>3. s.incomplete /\ s.objs = NewStore.objs
    BY <2>1 DEF NewStore
  <2>4. \A t \in Tokens : NewStore.objs[t] = None
    BY DEF NewStore
  <2>5. StoreInv(s, g)
    BY <2>1, <2>2
  <2> HIDE DEF s
  <2>6. Recovered(s, g, fl, M)
    BY <2>3, <2>4, <2>5 DEF Recovered, Dead
  <2> QED
    BY <2>6 DEF s
<1> QED
  BY <1>1, <1>2, <1>3

\* A process starts.
LEMMA RestartKeeps ==
  ASSUME DelegationInv, NEW g \in Generations, NEW readable \in BOOLEAN, Restart(g, readable)
  PROVE  DelegationInv'
<1>0. /\ TypeOK /\ ~up /\ \A h \in Handlers : handler[h].pc = "idle"
  BY DEF DelegationInv, DownInv, Restart
<1>1. Recovered(LoadStore(file, readable, g, clock), g, file, minted)
  BY LoadStoreSound DEF DelegationInv, TypeOK, FileInv
<1>2. /\ Recovered(store', gen', file, minted) /\ gen' \in Generations /\ up' = TRUE
      /\ UNCHANGED <<clock, persistMu, handler, file, minted, disclosed, terminal,
                     overridden, served, crashes>>
  BY <1>1 DEF Restart
<1>3. TypeOK'
  BY <1>0, <1>2 DEF TypeOK, Recovered, StoreInv, CoreInv
<1>4. StoreInv(store, gen)' /\ DownInv' /\ LockInv' /\ MintedInv'
  BY <1>0, <1>2 DEF DelegationInv, DownInv, LockInv, MintedInv, Recovered
<1>5. HandlersInv'
  BY <1>0, <1>2 DEF DelegationInv, HandlersInv, HandlerInv, AnswerInv
<1>6. TerminalInv'
  BY <1>0, <1>2 DEF DelegationInv, TypeOK, TerminalInv, Recovered
<1>7. FileInv'
  BY <1>0, <1>2 DEF DelegationInv, FileInv, Recovered
<1>8. ToldInv'
  <2> SUFFICES ASSUME ~overridden, NEW d \in disclosed
               PROVE  /\ file.status # Missing
                      /\ Valid(file) => file.body.incomplete \/ Has(file.body, d.key, d.token)
                      /\ ~store'.incomplete => store'.byInvocation[d.key] = d.token
    BY <1>0, <1>2 DEF ToldInv
  <2>1. /\ file.status # Missing /\ d.key \in Keys
        /\ Valid(file) => file.body.incomplete \/ Has(file.body, d.key, d.token)
    BY <1>0 DEF DelegationInv, ToldInv, TypeOK
  <2>2. ASSUME ~store'.incomplete PROVE store'.byInvocation[d.key] = d.token
    <3>1. Valid(file) /\ CoveredBy(file.body, store') /\ ~file.body.incomplete
      BY <1>2, <2>1, <2>2 DEF Recovered
    <3> QED
      BY <2>1, <3>1 DEF CoveredBy, Has
  <2> QED
    BY <2>1, <2>2
<1> QED
  BY <1>3, <1>4, <1>5, <1>6, <1>7, <1>8 DEF DelegationInv

(***************************************************************************)
(* The theorems.                                                           *)
(***************************************************************************)

\* The invariant holds when the first process starts, with no state file.
LEMMA InitEstablishes ==
  Init => DelegationInv
<1> SUFFICES ASSUME Init PROVE DelegationInv
  OBVIOUS
<1>1. /\ StoreInv(NewStore, gen) /\ store = NewStore /\ \A t \in Tokens : NewStore.objs[t] = None
  BY NewStoreSound DEF Init, NewStore
<1>2. handler \in [Handlers -> HandlerType] /\ \A h \in Handlers : handler[h] = Idle
  BY IdleHandler DEF Init
<1>3. file \in FileType /\ ~Valid(file)
  BY DEF Init, FileType, Valid, Missing
<1>4. TypeOK
  BY <1>1, <1>2, <1>3 DEF Init, TypeOK, Time, StoreInv, CoreInv
<1>5. DownInv /\ LockInv /\ MintedInv /\ TerminalInv /\ FileInv /\ ToldInv
  BY <1>1, <1>2, <1>3, IdleHandler, NoneAssumption
     DEF Init, DownInv, LockInv, MintedInv, TerminalInv, FileInv, ToldInv
<1>6. HandlersInv
  BY <1>2, IdleHandler DEF HandlersInv, HandlerInv, AnswerInv
<1> QED
  BY <1>1, <1>4, <1>5, <1>6 DEF DelegationInv

\* Every step of the controller and of its environment keeps it.
LEMMA StepKeeps ==
  DelegationInv /\ [Next]_vars => DelegationInv'
<1> SUFFICES ASSUME DelegationInv, [Next]_vars PROVE DelegationInv'
  OBVIOUS
<1>1. CASE UNCHANGED vars
  BY <1>1 DEF vars, DelegationInv, TypeOK, DownInv, LockInv, MintedInv, HandlersInv,
              TerminalInv, FileInv, ToldInv
<1>2. ASSUME NEW h \in Handlers, Arrival(h) PROVE DelegationInv'
  BY <1>2, CreateOrConfirmKeeps, RevokeStepKeeps, RevokeByLabelsKeeps, MarkReconciledKeeps DEF Arrival
<1>3. ASSUME NEW h \in Handlers, HandlerStep(h) PROVE DelegationInv'
  BY <1>3, ConfirmKeeps, MismatchKeeps, DenyKeeps, MintFailsKeeps, MintKeeps, TakeSnapshotKeeps,
     WriteFileKeeps, WriteFailsKeeps, OpenGateKeeps, RespondKeeps DEF HandlerStep
<1>4. CASE Environment
  BY <1>4, SweepKeeps, TickKeeps, CrashKeeps, DamageKeeps, RestartKeeps DEF Environment
<1> QED
  BY <1>1, <1>2, <1>3, <1>4 DEF Next

\* The inductive invariant holds throughout: handlers that interleave,
\* writes that fail, processes that die and files that are damaged included.
THEOREM DelegationInvariant == Spec => []DelegationInv
<1> QED
  BY InitEstablishes, StepKeeps, PTL DEF Spec

\* The Store, the state file and the handlers' requests keep their types.
THEOREM TypeCorrect == Spec => []TypeOK
<1>1. DelegationInv => TypeOK
  BY DEF DelegationInv
<1> QED
  BY <1>1, DelegationInvariant, PTL

\* byHandle, byBearer, byLabel and byInvocation agree on what is live.
THEOREM IndexesAgree == Spec => []IndexConsistent
<1>1. DelegationInv => IndexConsistent
  <2> SUFFICES ASSUME StoreInv(store, gen), NEW t \in Tokens
               PROVE  LET id == store.objs[t]
                          live == id # None /\ ~id.revoked /\ store.byInvocation[Key(id.req)] = t
                      IN /\ t \in store.byHandle <=> live
                         /\ t \in store.byBearer <=> live
                         /\ \A l \in Labels : t \in store.byLabel[l] <=> live /\ Label(id.req) = l
    BY DEF DelegationInv, IndexConsistent
  <2>1. t \in LiveOf(store) <=> /\ store.objs[t] # None /\ ~store.objs[t].revoked
                                /\ store.byInvocation[Key(store.objs[t].req)] = t
    BY DEF LiveOf, StoreInv, CoreInv
  <2>2. /\ store.byHandle = LiveOf(store) /\ store.byBearer = LiveOf(store)
        /\ \A l \in Labels : store.byLabel[l] = {u \in LiveOf(store) : Label(store.objs[u].req) = l}
    BY DEF StoreInv, Indexed
  <2> QED
    BY <2>1, <2>2
<1> QED
  BY <1>1, DelegationInvariant, PTL

\* Behind a closed recovery gate there is nothing, in memory or in the file.
THEOREM ClosedGatesHideNothing == Spec => []ClosedGateIsEmpty
<1>1. DelegationInv => ClosedGateIsEmpty
  <2> SUFFICES ASSUME DelegationInv PROVE ClosedGateIsEmpty
    OBVIOUS
  <2>1. store.incomplete => \A k \in Keys : store.byInvocation[k] = None
    BY ClosedIsEmpty DEF DelegationInv, StoreInv
  <2>2. file.status = "valid" /\ file.body.incomplete => Persisted(file.body) = {}
    BY DEF DelegationInv, FileInv, SnapInv, Persisted, Valid
  <2> QED
    BY <2>1, <2>2 DEF ClosedGateIsEmpty
<1> QED
  BY <1>1, DelegationInvariant, PTL

\* An acknowledged end is final, through failed writes, crashes and damage.
THEOREM EndsAreFinal == Spec => []TerminalIsForever
<1>1. DelegationInv => TerminalIsForever
  <2> SUFFICES ASSUME DelegationInv, NEW t \in terminal PROVE t \notin LiveExecutors(store, clock)
    BY DEF TerminalIsForever
  <2>1. StoreInv(store, gen) /\ clock \in Nat /\ Dead(store, t)
    BY DEF DelegationInv, TypeOK, Time, TerminalInv
  <2>2. t \notin LiveOf(store)
    BY <2>1 DEF Dead, LiveOf
  <2>3. LiveExecutors(store, clock) \subseteq LiveOf(store)
    BY <2>1, LiveExecutorsAre
  <2> QED
    BY <2>2, <2>3
<1> QED
  BY <1>1, DelegationInvariant, PTL

\* A restart never refuses an intact file of its own generation.
THEOREM FilesAreAccepted == Spec => []SavedStateIsRecoverable
<1>1. DelegationInv => SavedStateIsRecoverable
  BY SnapshotValid DEF DelegationInv, FileInv, Valid, SavedStateIsRecoverable
<1> QED
  BY <1>1, DelegationInvariant, PTL

\* The file only goes forward: no write of a process that recovered forgets,
\* replaces or revives what an earlier one recorded.
THEOREM FileAdvances == Spec => FileOnlyAdvances
<1> DEFINE Forward ==
      (file.status = "valid" /\ file'.status = "valid" /\ ~store.incomplete) =>
        \A k \in Keys : file.body.ids[k] # None =>
          /\ file'.body.ids[k] # None
          /\ file'.body.ids[k].token = file.body.ids[k].token
          /\ file.body.ids[k].revoked => file'.body.ids[k].revoked
<1>1. ASSUME DelegationInv, [Next]_vars PROVE Forward
  <2>1. ASSUME file' = file PROVE Forward
    BY <2>1
  <2>2. ASSUME NEW h \in Handlers, handler[h].pc = "write",
               file' = [status |-> "valid", body |-> handler[h].snap]
        PROVE  Forward
    <3>1. file.status = "valid" /\ ~store.incomplete => Advances(file.body, handler[h].snap)
      BY <1>1, <2>2 DEF DelegationInv, HandlersInv, HandlerInv, Valid
    <3> QED
      BY <2>2, <3>1 DEF Advances
  <2>3. ASSUME NEW h \in Handlers, Arrival(h) PROVE file' = file
    BY <2>3 DEF Arrival, CreateOrConfirm, Revoke, RevokeByLabels, MarkReconciled, InMemoryOnly
  <2>4. ASSUME NEW h \in Handlers, HandlerStep(h) PROVE Forward
    <3>1. CASE WriteFile(h)
      BY <2>2, <3>1 DEF WriteFile
    <3>2. CASE WriteFails(h)
      <4>1. handler[h].pc = "write" /\ (file' = file \/ file' = [status |-> "valid", body |-> handler[h].snap])
        BY <3>2 DEF WriteFails
      <4> QED
        BY <2>1, <2>2, <4>1
    <3>3. CASE Confirm(h) \/ Mismatch(h) \/ Deny(h) \/ MintFails(h) \/ Mint(h)
      <4>1. file' = file
        BY <3>3 DEF Confirm, Mismatch, Deny, MintFails, Mint, EndLocked, InMemoryOnly
      <4> QED
        BY <2>1, <4>1
    <3>4. CASE TakeSnapshot(h) \/ OpenGate(h) \/ Respond(h)
      <4>1. file' = file
        BY <3>4 DEF TakeSnapshot, OpenGate, Respond
      <4> QED
        BY <2>1, <4>1
    <3> QED
      BY <2>4, <3>1, <3>2, <3>3, <3>4 DEF HandlerStep
  <2>5. CASE Environment
    <3>1. CASE Damage
      BY <3>1 DEF Damage, Corrupt
    <3>2. CASE ~Damage
      <4>1. file' = file
        BY <2>5, <3>2 DEF Environment, Sweep, Tick, Crash, Restart
      <4> QED
        BY <2>1, <4>1
    <3> QED
      BY <3>1, <3>2
  <2>6. CASE UNCHANGED vars
    BY <2>1, <2>6 DEF vars
  <2> HIDE DEF Forward
  <2> QED
    BY <1>1, <2>1, <2>3, <2>4, <2>5, <2>6 DEF Next
<1>2. DelegationInv /\ [Next]_vars => [Forward]_vars
  BY <1>1
<1> QED
  BY <1>2, DelegationInvariant, PTL DEF Spec, FileOnlyAdvances

(***************************************************************************)
(* The controller implements DelegatedBearer: every step is a step of the  *)
(* promise or leaves what the promise is about alone.                      *)
(***************************************************************************)

\* From s to r identities end and nothing else happens to the live ones.
OnlyEnds(s, r) ==
  /\ LiveOf(r) \subseteq LiveOf(s)
  /\ \A t \in LiveOf(r) : r.objs[t].expiresAt = s.objs[t].expiresAt

\* Ending identities only ends identities.
LEMMA EndedOnlyEnds ==
  ASSUME NEW s, NEW r, NEW T, SameButEnded(s, r, T)
  PROVE  OnlyEnds(s, r)
BY DEF SameButEnded, OnlyEnds, LiveOf

\* As does a sweep.
LEMMA SweepOnlyEnds ==
  ASSUME NEW g, NEW s, StoreInv(s, g), NEW now
  PROVE  OnlyEnds(s, CleanupExpired(s, now))
<1> DEFINE r == CleanupExpired(s, now)
<1>1. Tokens \in SUBSET Tokens
  OBVIOUS
<1>2. SameButEnded(s, r, Expired(s, now))
  BY <1>1, SweepContinues
<1> HIDE DEF r
<1>3. OnlyEnds(s, r)
  BY <1>2, EndedOnlyEnds
<1> QED
  BY <1>3 DEF r

\* And a revocation.
LEMMA RevokeOnlyEnds ==
  ASSUME NEW g, NEW s, StoreInv(s, g), NEW T \in SUBSET Tokens, \A t \in T : s.objs[t] # None
  PROVE  OnlyEnds(s, RevokeLocked(s, T))
<1> DEFINE r == RevokeLocked(s, T)
<1>1. Tokens \in SUBSET Tokens
  OBVIOUS
<1>2. SameButEnded(s, r, T)
  BY <1>1, RevokeContinues
<1> HIDE DEF r
<1>3. OnlyEnds(s, r)
  BY <1>2, EndedOnlyEnds
<1> QED
  BY <1>3 DEF r

\* What the data plane accepts shrinks with the live identities and time.
LEMMA ExecutorsShrink ==
  ASSUME NEW g, NEW s, StoreInv(s, g), NEW e, NEW r, StoreInv(r, e), OnlyEnds(s, r),
         NEW now \in Nat, NEW then \in Nat, now <= then
  PROVE  LiveExecutors(r, then) \subseteq LiveExecutors(s, now)
<1>1. LiveExecutors(s, now) = IF now >= Envelope.expiresAt THEN {}
                              ELSE {t \in LiveOf(s) : now < s.objs[t].expiresAt}
  BY LiveExecutorsAre
<1>2. LiveExecutors(r, then) = IF then >= Envelope.expiresAt THEN {}
                               ELSE {t \in LiveOf(r) : then < r.objs[t].expiresAt}
  BY LiveExecutorsAre
<1>3. Envelope.expiresAt \in Nat /\ \A t \in LiveOf(s) : s.objs[t].expiresAt \in Nat
  BY EnvelopeAssumption, Objects DEF Time, StoreInv, LiveOf
<1>4. /\ LiveOf(r) \subseteq LiveOf(s)
      /\ \A t \in LiveOf(r) : r.objs[t].expiresAt = s.objs[t].expiresAt
  BY DEF OnlyEnds
<1>5. then >= Envelope.expiresAt \/ ~(now >= Envelope.expiresAt)
  BY <1>3
<1>6. \A t \in LiveOf(r) : then < r.objs[t].expiresAt => now < s.objs[t].expiresAt
  BY <1>3, <1>4
<1> HIDE DEF LiveOf, LiveExecutors
<1> QED
  BY <1>1, <1>2, <1>4, <1>5, <1>6

\* What the steps of the Store leave alone.
Quiet == UNCHANGED <<up, disclosed, terminal, overridden>>

\* A step in which identities end is the promise's End.
LEMMA StepIsEnd ==
  ASSUME DelegationInv, DelegationInv', OnlyEnds(store, store'), Quiet, minted' = minted,
         clock' \in Nat, clock <= clock'
  PROVE  Promise!Next
<1>1. StoreInv(store, gen) /\ StoreInv(store', gen') /\ clock \in Nat
  BY DEF DelegationInv, TypeOK, Time
<1>2. LiveExecutors(store', clock') \subseteq LiveExecutors(store, clock)
  BY <1>1, ExecutorsShrink
<1>3. LiveExecutors(store, clock)' \in SUBSET LiveExecutors(store, clock)
  BY <1>2
<1> QED
  BY <1>3 DEF Promise!Next, Promise!End, Quiet

\* The step of a request up to its snapshot, other than Mint.
LEMMA EndSteps ==
  ASSUME DelegationInv, DelegationInv', NEW h \in Handlers,
         Arrival(h) \/ Confirm(h) \/ Mismatch(h) \/ Deny(h) \/ MintFails(h)
  PROVE  Promise!Next
<1>0. StoreInv(store, gen) /\ clock \in Nat
  BY DEF DelegationInv, TypeOK, Time
<1>1. /\ Quiet /\ minted' = minted /\ clock' = clock
  BY DEF Arrival, CreateOrConfirm, Revoke, RevokeByLabels, MarkReconciled, Confirm, Mismatch,
         Deny, MintFails, EndLocked, InMemoryOnly, Quiet
<1>2. OnlyEnds(store, store)
  BY DEF OnlyEnds
<1>3. store.byHandle = LiveOf(store)
  BY <1>0 DEF StoreInv, Indexed
<1>4. ASSUME \E req \in Requests : CreateOrConfirm(h, req) PROVE OnlyEnds(store, store')
  BY <1>2, <1>4 DEF CreateOrConfirm
<1>5. ASSUME NEW t \in Tokens, Revoke(h, t) PROVE OnlyEnds(store, store')
  <2> DEFINE T == {t}
  <2>1. CASE t \in store.byHandle
    <3>1. store' = RevokeLocked(store, T) /\ T \in SUBSET Tokens /\ \A u \in T : store.objs[u] # None
      BY <1>3, <1>5, <2>1 DEF Revoke, LiveOf
    <3> HIDE DEF T
    <3> QED
      BY <1>0, <3>1, RevokeOnlyEnds
  <2>2. CASE t \notin store.byHandle
    BY <1>2, <1>5, <2>2 DEF Revoke
  <2> QED
    BY <2>1, <2>2
<1>6. ASSUME NEW l \in Labels, RevokeByLabels(h, l) PROVE OnlyEnds(store, store')
  <2> DEFINE T == store.byLabel[l] \intersect store.byHandle
  <2>1. store' = RevokeLocked(store, T) /\ T \in SUBSET Tokens /\ \A u \in T : store.objs[u] # None
    BY <1>3, <1>6 DEF RevokeByLabels, LiveOf
  <2> HIDE DEF T
  <2> QED
    BY <1>0, <2>1, RevokeOnlyEnds
<1>7. ASSUME MarkReconciled(h) PROVE OnlyEnds(store, store')
  BY <1>2, <1>7 DEF MarkReconciled
<1>8. OnlyEnds(store, Swept(h))
  BY <1>0, SweepOnlyEnds DEF Swept
<1>9. ASSUME Confirm(h) \/ Deny(h) PROVE OnlyEnds(store, store')
  BY <1>8, <1>9 DEF Confirm, Deny, EndLocked
<1>10. ASSUME Mismatch(h) PROVE OnlyEnds(store, store')
  <2> DEFINE r == Swept(h)
             T == {Existing(h)}
  <2>1. store' = RevokeLocked(r, T) /\ handler[h].pc = "create" /\ Existing(h) # None
    BY <1>10 DEF Mismatch, EndLocked
  <2>2. StoreInv(r, gen) /\ T \in SUBSET Tokens /\ \A u \in T : r.objs[u] # None
    BY <2>1, LockedPart, ExistingIdentity
  <2> HIDE DEF r, T
  <2>3. OnlyEnds(r, store')
    BY <2>1, <2>2, RevokeOnlyEnds
  <2> QED
    BY <1>8, <2>3 DEF OnlyEnds, r
<1>11. ASSUME MintFails(h) PROVE OnlyEnds(store, store')
  <2> DEFINE q == TakeSchemaSlot(Swept(h), handler[h].req.schema)
  <2>1. store' = q /\ Admissible(h)
    BY <1>11 DEF MintFails, EndLocked
  <2> HIDE DEF q
  <2>2. q.objs = Swept(h).objs
    BY <2>1, SlotTaken DEF q
  <2> QED
    BY <1>8, <2>1, <2>2 DEF OnlyEnds, LiveOf
<1>12. OnlyEnds(store, store')
  BY <1>4, <1>5, <1>6, <1>7, <1>9, <1>10, <1>11 DEF Arrival
<1>13. clock' \in Nat /\ clock <= clock'
  BY <1>0, <1>1
<1> QED
  BY <1>1, <1>12, <1>13, StepIsEnd

\* Mint admits a bearer, unless it has expired by the time it is stored.
LEMMA MintAdmits ==
  ASSUME DelegationInv, DelegationInv', NEW h \in Handlers, Mint(h)
  PROVE  Promise!Next
<1>1. PICK t \in Tokens \ minted :
        /\ EndLocked(h, IndexLocked(TakeSchemaSlot(Swept(h), handler[h].req.schema),
                                    NewIdentity(h, t)), "ok", {t})
        /\ minted' = minted \union {t}
  BY DEF Mint
<1>2. PICK p : p = IndexLocked(TakeSchemaSlot(Swept(h), handler[h].req.schema), NewIdentity(h, t))
  OBVIOUS
<1>3. Admissible(h) /\ t \in Tokens /\ t \notin minted
  BY DEF Mint
<1>4. MintedStore(h, t, p)
  BY <1>2, <1>3, Minted
<1>5. /\ store' = p /\ Quiet /\ clock' = clock /\ gen' = gen
  BY <1>1, <1>2 DEF EndLocked, InMemoryOnly, Quiet
<1> DEFINE now == handler[h].now
<1>6. /\ handler[h].pc = "create" /\ StoreInv(p, gen)
      /\ LiveOf(p) = (LiveOf(store) \ Expired(store, now)) \union {t}
      /\ p.objs = [Swept(h).objs EXCEPT ![t] = NewIdentity(h, t)]
  BY <1>4 DEF MintedStore
<1>7. /\ StoreInv(store, gen) /\ clock \in Nat /\ now \in Nat /\ now <= clock /\ up
      /\ StoreInv(Swept(h), gen) /\ LiveOf(Swept(h)) = LiveOf(store) \ Expired(store, now)
      /\ t \notin LiveOf(store)
  BY <1>3, <1>6, LockedPart DEF DelegationInv, TypeOK, Time, LiveOf
<1>8. OnlyEnds(store, Swept(h))
  BY <1>7, SweepOnlyEnds DEF Swept
<1>9. \A u \in LiveOf(store) : store.objs[u].expiresAt \in Nat
  BY <1>7, Objects DEF StoreInv, LiveOf
<1>10. \A u \in LiveOf(store) \ Expired(store, now) : p.objs[u].expiresAt = store.objs[u].expiresAt
  <2>1. Swept(h).objs \in [Tokens -> Identity \union {None}]
    BY <1>7 DEF StoreInv, CoreInv, StoreType
  <2>2. \A u \in LiveOf(store) : u # t /\ u \in Tokens
    BY <1>7 DEF LiveOf
  <2>3. \A u \in LiveOf(store) : p.objs[u] = Swept(h).objs[u]
    BY <1>6, <2>1, <2>2
  <2> QED
    BY <1>7, <1>8, <2>3 DEF OnlyEnds
<1>11. LiveExecutors(store, clock) = IF clock >= Envelope.expiresAt THEN {}
                              ELSE {u \in LiveOf(store) : clock < store.objs[u].expiresAt}
  BY <1>7, LiveExecutorsAre
<1>12. LiveExecutors(p, clock) = IF clock >= Envelope.expiresAt THEN {}
                              ELSE {u \in LiveOf(p) : clock < p.objs[u].expiresAt}
  <2>1. StoreInv(p, gen)
    BY <1>6
  <2>2. clock \in Nat
    BY <1>7
  <2> QED
    BY <2>1, <2>2, LiveExecutorsAre
<1>13. LiveExecutors(p, clock) \in {LiveExecutors(store, clock), LiveExecutors(store, clock) \union {t}}
  <2> DEFINE L == LiveOf(store)
             K == LiveOf(p)
             A == {u \in L : clock < store.objs[u].expiresAt}
             B == {u \in K : clock < p.objs[u].expiresAt}
  <2>1. \A u \in L : clock < store.objs[u].expiresAt => u \notin Expired(store, now)
    BY <1>7, <1>9 DEF Expired
  <2>2. \A u \in Tokens \union L : u # t => (u \in A <=> u \in B)
    BY <1>6, <1>10, <2>1
  <2>3. \A u \in B : u # t => u \in A
    BY <1>6, <2>2
  <2>4. t \notin A
    BY <1>7
  <2>5. B = A \/ B = A \union {t}
    <3> HIDE DEF A, B
    <3>1. \A u \in A : u \in B
      BY <2>2, <2>4 DEF A
    <3> QED
      BY <2>3, <2>4, <3>1
  <2>6. CASE clock >= Envelope.expiresAt
    BY <1>11, <1>12, <2>6
  <2>7. CASE ~(clock >= Envelope.expiresAt)
    <3>1. LiveExecutors(store, clock) = A /\ LiveExecutors(p, clock) = B
      BY <1>11, <1>12, <2>7
    <3> HIDE DEF A, B
    <3> QED
      BY <2>5, <3>1
  <2> QED
    BY <2>6, <2>7
<1>14. LiveExecutors(store, clock)' \in
         {LiveExecutors(store, clock), LiveExecutors(store, clock) \union {t}}
  BY <1>5, <1>13
<1> HIDE DEF LiveExecutors
<1> QED
  BY <1>1, <1>3, <1>5, <1>7, <1>14 DEF Promise!Next, Promise!Admit, Quiet

\* The data plane accepts nothing from an empty Store.
LEMMA EmptyAcceptsNothing ==
  ASSUME NEW now \in Nat
  PROVE  LiveExecutors(NewStore, now) = {}
<1>1. StoreInv(NewStore, TRUE) /\ LiveOf(NewStore) = {}
  BY NewStoreSound
<1>2. LiveExecutors(NewStore, now) = IF now >= Envelope.expiresAt THEN {}
                              ELSE {t \in LiveOf(NewStore) : now < NewStore.objs[t].expiresAt}
  BY <1>1, LiveExecutorsAre
<1> QED
  BY <1>1, <1>2

\* A write of the file is none of the promise's business, unless it records
\* that an operator gave up a failed recovery.
LEMMA WriteOverridesOrStutters ==
  ASSUME DelegationInv, NEW h \in Handlers, WriteFile(h) \/ WriteFails(h)
  PROVE  [Promise!Next]_(Promise!vars)
<1>1. /\ UNCHANGED <<clock, up, store, minted, disclosed, terminal>>
      /\ overridden' = overridden \/ (overridden' = TRUE /\ store.incomplete)
  BY DEF WriteFile, WriteFails, DelegationInv, TypeOK
<1>2. LiveExecutors(store, clock)' = LiveExecutors(store, clock)
  BY <1>1
<1>3. CASE overridden' = overridden
  BY <1>1, <1>2, <1>3 DEF Promise!vars
<1>4. CASE overridden' = TRUE /\ store.incomplete
  <2>1. LiveExecutors(store, clock) = {}
    BY <1>4 DEF LiveExecutors
  <2> HIDE DEF LiveExecutors
  <2> QED
    BY <1>1, <1>2, <1>4, <2>1 DEF Promise!Next, Promise!Override
<1> QED
  BY <1>1, <1>3, <1>4

\* An answer tells AWF of a bearer, or of ends, or of nothing.
LEMMA RespondTells ==
  ASSUME DelegationInv, NEW h \in Handlers, Respond(h)
  PROVE  [Promise!Next]_(Promise!vars)
<1> DEFINE x == handler[h]
           told == {[key |-> Key(x.req), token |-> t] : t \in x.toks}
           live == LiveExecutors(store, clock)
<1>0. /\ x.pc = "respond"
      /\ UNCHANGED <<clock, up, store, minted, overridden>>
      /\ disclosed' = IF x.out = "ok" THEN disclosed \union told ELSE disclosed
      /\ terminal' = IF x.out = "terminal" THEN terminal \union x.toks ELSE terminal
      /\ StoreInv(store, gen) /\ clock \in Nat
  BY DEF DelegationInv, TypeOK, Time, Respond
<1>1. live' = live
  BY <1>0
<1>2. \A t \in x.toks :
         /\ t \in minted /\ t \in Tokens /\ up
         /\ x.out = "terminal" => Dead(store, t)
         /\ x.out = "ok" => /\ x.toks = {t} /\ Key(x.req) \in Keys
                            /\ ~store.incomplete /\ store.byInvocation[Key(x.req)] = t
  BY <1>0, AnswerHolds
<1>3. CASE x.out = "ok" /\ x.toks # {}
  <2>1. PICK t \in x.toks : TRUE
    BY <1>3
  <2> DEFINE k == Key(x.req)
  <2>2. /\ t \in minted /\ k \in Keys /\ x.toks = {t} /\ up
        /\ ~store.incomplete /\ store.byInvocation[k] = t
    BY <1>2, <1>3, <2>1
  <2>3. overridden \/ \A d \in disclosed : d.key = k => d.token = t
    BY <2>2 DEF DelegationInv, ToldInv
  <2>4. disclosed' = disclosed \union {[key |-> k, token |-> t]} /\ terminal' = terminal
    BY <1>0, <1>3, <2>2
  <2> HIDE DEF k, live, x
  <2> QED
    BY <1>0, <1>1, <2>2, <2>3, <2>4 DEF Promise!Next, Promise!Tell, live
<1>4. CASE x.out = "terminal"
  <2>1. live \subseteq LiveOf(store)
    BY <1>0, LiveExecutorsAre
  <2>2. x.toks \in SUBSET (minted \ live)
    BY <1>2, <1>4, <2>1 DEF Dead, LiveOf
  <2>3. terminal' = terminal \union x.toks /\ disclosed' = disclosed
    BY <1>0, <1>4
  <2> HIDE DEF live, x
  <2> QED
    BY <1>0, <1>1, <2>2, <2>3 DEF Promise!Next, Promise!Acknowledge, live
<1>5. CASE x.out # "terminal" /\ ~(x.out = "ok" /\ x.toks # {})
  <2>1. disclosed' = disclosed /\ terminal' = terminal
    BY <1>0, <1>5
  <2> QED
    BY <1>0, <1>1, <2>1 DEF Promise!vars
<1> QED
  BY <1>3, <1>4, <1>5

\* A process dies and takes the live bearers with it.
LEMMA CrashDies ==
  ASSUME DelegationInv, Crash
  PROVE  Promise!Next
<1>1. LiveExecutors(store, clock)' = {}
  BY EmptyAcceptsNothing DEF DelegationInv, TypeOK, Time, Crash
<1> HIDE DEF LiveExecutors
<1> QED
  BY <1>1 DEF Promise!Next, Promise!Die, Crash

\* A new process takes back no bearer whose end was acknowledged.
LEMMA RestartRecovers ==
  ASSUME DelegationInv, DelegationInv', NEW g \in Generations, NEW readable \in BOOLEAN,
         Restart(g, readable)
  PROVE  Promise!Next
<1>0. /\ StoreInv(store', gen') /\ clock' \in Nat
      /\ \A t \in Tokens : store'.objs[t] # None => t \in minted'
      /\ \A t \in terminal' : Dead(store', t)
  BY DEF DelegationInv, TypeOK, Time, MintedInv, TerminalInv
<1>1. LiveExecutors(store', clock') \subseteq LiveOf(store')
  BY <1>0, LiveExecutorsAre
<1>2. LiveOf(store') \subseteq minted' \ terminal'
  BY <1>0 DEF LiveOf, Dead
<1>3. ~up /\ up' = TRUE /\ UNCHANGED <<minted, disclosed, terminal, overridden>>
  BY DEF Restart
<1>4. LiveExecutors(store, clock)' \in SUBSET (minted \ terminal)
  BY <1>1, <1>2, <1>3
<1> HIDE DEF LiveExecutors
<1> QED
  BY <1>3, <1>4 DEF Promise!Next, Promise!Recover

\* Every step of the controller is a step of the promise or a stutter.
LEMMA StepImplements ==
  DelegationInv /\ DelegationInv' /\ [Next]_vars => [Promise!Next]_(Promise!vars)
<1> SUFFICES ASSUME DelegationInv, DelegationInv', [Next]_vars
             PROVE  [Promise!Next]_(Promise!vars)
  OBVIOUS
<1>0. StoreInv(store, gen) /\ clock \in Nat /\ clock' \in Nat
  BY DEF DelegationInv, TypeOK, Time
<1>1. ASSUME UNCHANGED <<up, store, clock, minted, disclosed, terminal, overridden>>
      PROVE  UNCHANGED Promise!vars
  BY <1>1 DEF Promise!vars
<1>2. CASE UNCHANGED vars
  BY <1>1, <1>2 DEF vars
<1>3. ASSUME NEW h \in Handlers, Arrival(h) PROVE Promise!Next
  BY <1>3, EndSteps
<1>4. ASSUME NEW h \in Handlers, HandlerStep(h) PROVE [Promise!Next]_(Promise!vars)
  <2>1. CASE Confirm(h) \/ Mismatch(h) \/ Deny(h) \/ MintFails(h)
    BY <2>1, EndSteps
  <2>2. CASE Mint(h)
    BY <2>2, MintAdmits
  <2>3. CASE TakeSnapshot(h)
    BY <1>1, <2>3 DEF TakeSnapshot
  <2>4. CASE WriteFile(h) \/ WriteFails(h)
    BY <2>4, WriteOverridesOrStutters
  <2>5. CASE OpenGate(h)
    <3>1. store \in StoreType /\ store' = [store EXCEPT !.incomplete = FALSE]
      BY <1>0, <2>5 DEF StoreInv, CoreInv, OpenGate
    <3>2. store'.objs = store.objs
      BY <3>1 DEF StoreType
    <3>3. OnlyEnds(store, store')
      BY <3>2 DEF OnlyEnds, LiveOf
    <3>4. Quiet /\ minted' = minted /\ clock <= clock'
      BY <1>0, <2>5 DEF OpenGate, Quiet
    <3> QED
      BY <1>0, <3>3, <3>4, StepIsEnd
  <2>6. CASE Respond(h)
    BY <2>6, RespondTells
  <2> QED
    BY <1>4, <2>1, <2>2, <2>3, <2>4, <2>5, <2>6 DEF HandlerStep
<1>5. CASE Environment
  <2>1. CASE Sweep
    <3>1. store' = CleanupExpired(store, clock) /\ Quiet /\ minted' = minted /\ clock <= clock'
      BY <1>0, <2>1 DEF Sweep, Quiet
    <3>2. OnlyEnds(store, store')
      BY <1>0, <3>1, SweepOnlyEnds
    <3> QED
      BY <1>0, <3>1, <3>2, StepIsEnd
  <2>2. CASE Tick
    <3>1. store' = store /\ Quiet /\ minted' = minted /\ clock <= clock'
      BY <1>0, <2>2 DEF Tick, Quiet
    <3>2. OnlyEnds(store, store')
      BY <3>1 DEF OnlyEnds
    <3> QED
      BY <1>0, <3>1, <3>2, StepIsEnd
  <2>3. CASE Crash
    BY <2>3, CrashDies
  <2>4. CASE Damage
    BY <1>1, <2>4 DEF Damage
  <2>5. CASE \E g \in Generations, readable \in BOOLEAN : Restart(g, readable)
    BY <2>5, RestartRecovers
  <2> QED
    BY <1>5, <2>1, <2>2, <2>3, <2>4, <2>5 DEF Environment
<1> QED
  BY <1>2, <1>3, <1>4, <1>5 DEF Next

\* The controller keeps the promise of DelegatedBearer: handlers, persistMu,
\* snapshots, recovery and the gate together give each invocation one bearer
\* that lives once, and none that comes back after an acknowledged end.
THEOREM PromiseKept == Spec => KeepsPromise
<1>1. Init => Promise!Init
  <2>1. LiveExecutors(NewStore, 0) = {}
    BY EmptyAcceptsNothing
  <2> HIDE DEF LiveExecutors
  <2> QED
    BY <2>1 DEF Init, Promise!Init
<1> QED
  BY <1>1, StepImplements, DelegationInvariant, PTL DEF Spec, KeepsPromise, Promise!Spec

=============================================================================
