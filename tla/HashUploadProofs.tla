-------------------------- MODULE HashUploadProofs --------------------------
(***************************************************************************)
(* Proofs about HASH_UPLOAD, for every manifest, every size of its chunks, *)
(* parts and pools and every set of calls that may fail: the dedup map is  *)
(* a lock per hash, and an Ok return means stored and done.                *)
(***************************************************************************)
EXTENDS HashUpload, SequenceTheorems, TLAPS

\* A unit has the fields NewUnit gives it.
IsUnit(r) ==
    r = [hash |-> r.hash, data |-> r.data, pc |-> r.pc, owner |-> r.owner,
         parts |-> r.parts, failed |-> r.failed, lost |-> r.lost,
         uploaded |-> r.uploaded]

\* The units of a file are a function from its chunks to units.
UnitTypes ==
    /\ units = [f \in Files |-> units[f]]
    /\ \A f \in Files : units[f] = [i \in DOMAIN units[f] |-> units[f][i]]
    /\ \A u \in UnitIds : IsUnit(Unit(u))

Busy(u) == Unit(u).pc \in {"put", "create", "parts", "complete", "abort", "notify"}

\* The dedup map is a lock: a busy unit holds the entry of its hash, and an entry
\* belongs to a busy unit or to one whose multipart upload was never created.
LockInv ==
    /\ \A u \in UnitIds :
          Busy(u) => Unit(u).hash \in DOMAIN dedup /\ dedup[Unit(u).hash] = u
    /\ \A h \in DOMAIN dedup :
          /\ dedup[h] \in UnitIds
          /\ Unit(dedup[h]).hash = h
          /\ Busy(dedup[h]) \/ Unit(dedup[h]).pc = "failed"

\* A waiter's owner uploads the same hash and holds its entry, or has returned.
WaitInv ==
    \A u \in UnitIds : Unit(u).pc = "wait" =>
        LET owner == Unit(u).owner IN
        /\ owner \in UnitIds
        /\ Unit(owner).hash = Unit(u).hash
        /\ \/ Unit(u).hash \in DOMAIN dedup /\ dedup[Unit(u).hash] = owner
           \/ Finished(Unit(owner))

\* The hash is in the data cache, or an upload of it failed.
Settled(h) ==
    h \in DOMAIN objects \/ \E v \in UnitIds : Unit(v).hash = h /\ Unit(v).pc = "failed"

StoredInv ==
    \A u \in UnitIds :
        /\ Unit(u).pc = "done" => Settled(Unit(u).hash)
        /\ Unit(u).pc = "notify" /\ ~Unit(u).failed => Unit(u).hash \in DOMAIN objects

\* A multipart upload is open between its creation and the call that closes it,
\* and after an abort that failed.
MayBeOpen(r) ==
    \/ r.pc \in {"parts", "complete", "abort"}
    \/ r.lost /\ (r.pc = "failed" \/ (r.pc = "notify" /\ r.failed))

SessionInv ==
    /\ \A u \in UnitIds :
          /\ Unit(u).pc \in {"exists", "claim", "wait", "put", "notify", "create",
                             "parts", "complete", "abort", "done", "failed"}
          /\ Unit(u).pc \in {"create", "parts", "complete", "abort"} => IsMultipart(u[1])
    /\ \A u \in sessions : u \in UnitIds /\ MayBeOpen(Unit(u))

UnitInv == UnitTypes /\ LockInv /\ WaitInv /\ StoredInv /\ SessionInv

\* A file task has units from the moment it has read the file; a file that is
\* uploaded in parts has one, which has returned when the task has.
TaskInv ==
    /\ pc \in [Files -> {"spawned", "caches", "memory", "read", "upload", "finished"}]
    /\ result = [f \in Files |-> result[f]]
    /\ \A f \in Files :
          /\ pc[f] \notin {"upload", "finished"} => DOMAIN units[f] = {}
          /\ IsMultipart(f) => \A i \in DOMAIN units[f] : i = 1
          /\ IsMultipart(f) /\ pc[f] = "finished" =>
                 \A i \in DOMAIN units[f] : Finished(units[f][i])

\* A task that returned a result has its units done, and names only hashes that
\* are stored or are its units'.
ResultInv ==
    \A f \in Files : pc[f] = "finished" /\ result[f].kind # "err" =>
        /\ \A i \in DOMAIN units[f] : units[f][i].pc = "done"
        /\ \A i \in DOMAIN result[f].hashes :
              \/ result[f].hashes[i] \in DOMAIN objects
              \/ \E j \in DOMAIN units[f] : units[f][j].hash = result[f].hashes[i]

\* Only tasks that wait for memory stand in the pool's queue, each once.
QueueInv ==
    /\ queue \in Seq([client : Files, permits : Int])
    /\ \A i \in DOMAIN queue : pc[queue[i].client] = "memory"
    /\ \A i, j \in DOMAIN queue : queue[i].client = queue[j].client => i = j

\* The return is made of the tasks' results, and a cancellation is one of them.
OutcomeInv ==
    /\ cancelled \in BOOLEAN /\ outcome \in {"none", "ok", "err"}
    /\ outcome # "none" => \A f \in Files : pc[f] = "finished"
    /\ outcome = "ok" => \A f \in Files : result[f].kind # "err"
    /\ cancelled => \E f \in Files : pc[f] = "finished" /\ result[f].kind = "err"

UploadInv == UnitInv /\ TaskInv /\ ResultInv /\ QueueInv /\ OutcomeInv

-----------------------------------------------------------------------------
(* A step of one unit leaves the other units alone. *)

\* What becomes of the units when u becomes r.
Moved(u, r) ==
    /\ UnitIds' = UnitIds
    /\ Unit(u)' = r
    /\ \A v \in UnitIds : v # u => Unit(v)' = Unit(v)
    /\ \A f \in Files : DOMAIN units'[f] = DOMAIN units[f]

\* No unit comes or goes, changes its hash or goes on once it has returned.
Kept ==
    /\ UnitIds' = UnitIds
    /\ \A f \in Files : DOMAIN units'[f] = DOMAIN units[f]
    /\ \A v \in UnitIds :
          Unit(v)'.hash = Unit(v).hash /\ (Finished(Unit(v)) => Unit(v)'.pc = Unit(v).pc)

\* A unit's identifier is a file and a chunk of it.
LEMMA UnitIdsAre ==
    /\ \A f \in Files : \A i \in DOMAIN units[f] : <<f, i>> \in UnitIds
    /\ \A u \in UnitIds : u[1] \in Files /\ u[2] \in DOMAIN units[u[1]] /\ u = <<u[1], u[2]>>
BY DEF UnitIds

\* Become changes one unit and no identifier.
LEMMA BecomeStep ==
    ASSUME UnitTypes, NEW u \in UnitIds, NEW r, IsUnit(r), Become(u, r)
    PROVE  UnitTypes' /\ Moved(u, r)
<1>1. u[1] \in Files /\ u[2] \in DOMAIN units[u[1]]
  BY UnitIdsAre
<1>2. units' = [units EXCEPT ![u[1]] = [units[u[1]] EXCEPT ![u[2]] = r]]
  BY DEF Become
<1>3. DOMAIN units = Files
  BY DEF UnitTypes
<1>4. units'[u[1]] = [units[u[1]] EXCEPT ![u[2]] = r]
  BY <1>1, <1>2, <1>3
<1>5. \A f \in Files : f # u[1] => units'[f] = units[f]
  BY <1>2, <1>3
<1>6. \A f \in Files : DOMAIN units'[f] = DOMAIN units[f]
  BY <1>4, <1>5
<1>7. UnitIds' = UnitIds
  BY <1>6 DEF UnitIds
<1>8. Unit(u)' = r
  BY <1>1, <1>4 DEF Unit
<1>9. ASSUME NEW v \in UnitIds, v # u PROVE Unit(v)' = Unit(v)
  <2>1. v[1] \in Files /\ v[2] \in DOMAIN units[v[1]] /\ v = <<v[1], v[2]>> /\ u = <<u[1], u[2]>>
    BY UnitIdsAre
  <2>2. CASE v[1] # u[1]
    BY <1>5, <2>1, <2>2 DEF Unit
  <2>3. CASE v[1] = u[1]
    <3>1. v[2] # u[2]
      BY <1>9, <2>1, <2>3
    <3> QED
      BY <1>1, <1>4, <2>1, <2>3, <3>1 DEF Unit
  <2> QED
    BY <2>2, <2>3
<1>10. UnitTypes'
  <2>1. units' = [f \in Files |-> units'[f]]
    BY <1>2, <1>3, Zenon DEF UnitTypes
  <2>2. ASSUME NEW f \in Files PROVE units'[f] = [i \in DOMAIN units'[f] |-> units'[f][i]]
    BY <1>4, <1>5 DEF UnitTypes
  <2>3. ASSUME NEW v \in UnitIds' PROVE IsUnit(Unit(v)')
    BY <1>7, <1>8, <1>9 DEF UnitTypes
  <2> QED
    BY <2>1, <2>2, <2>3 DEF UnitTypes, IsUnit
<1> QED
  BY <1>6, <1>7, <1>8, <1>9, <1>10 DEF Moved

\* A unit that has not returned may move on as long as it keeps its hash.
LEMMA MovedKeeps ==
    ASSUME NEW u \in UnitIds, NEW r, Moved(u, r), r.hash = Unit(u).hash,
           Unit(u).pc \notin {"done", "failed"}
    PROVE  Kept
BY DEF Moved, Kept, Finished

\* A unit with another pc keeps its other fields.
LEMMA PcUpdate ==
    ASSUME NEW r, IsUnit(r), NEW p
    PROVE  LET s == [r EXCEPT !.pc = p] IN
           /\ IsUnit(s) /\ s.pc = p /\ s.hash = r.hash /\ s.failed = r.failed
           /\ s.owner = r.owner
BY DEF IsUnit

\* The same with another value of failed.
LEMMA FailedUpdate ==
    ASSUME NEW r, IsUnit(r), NEW p, NEW b
    PROVE  LET s == [r EXCEPT !.pc = p, !.failed = b] IN
           IsUnit(s) /\ s.pc = p /\ s.hash = r.hash /\ s.failed = b
<1> DEFINE q == [r EXCEPT !.pc = p]
           s == [q EXCEPT !.failed = b]
<1>1. IsUnit(q) /\ q.pc = p /\ q.hash = r.hash
  BY PcUpdate
<1> HIDE DEF q
<1>2. IsUnit(s) /\ s.pc = p /\ s.hash = r.hash /\ s.failed = b
  BY <1>1 DEF IsUnit
<1> QED
  BY <1>2 DEF q

\* A part that is sent or fails changes no other field.
LEMMA PartUpdate ==
    ASSUME NEW r, IsUnit(r), NEW p, NEW x
    PROVE  LET s == [r EXCEPT !.parts[p] = x] IN
           IsUnit(s) /\ s.pc = r.pc /\ s.hash = r.hash /\ s.failed = r.failed
BY DEF IsUnit

-----------------------------------------------------------------------------
(* The steps of a unit that holds the entry of its hash. *)

\* The data cache only grows.
Grows == \A h \in DOMAIN objects : h \in DOMAIN objects'

\* While the unit works on its upload nothing changes for the other units.
LEMMA BusyStep ==
    ASSUME UnitInv, NEW u \in UnitIds, Busy(u), NEW r, Moved(u, r), Grows,
           r.hash = Unit(u).hash, UNCHANGED dedup,
           r.pc \in {"put", "create", "parts", "complete", "abort", "notify"},
           r.pc = "notify" /\ ~r.failed => r.hash \in DOMAIN objects'
    PROVE  LockInv' /\ WaitInv' /\ StoredInv' /\ Kept
<1>1. /\ UnitIds' = UnitIds /\ Unit(u)' = r
      /\ \A v \in UnitIds : v # u => Unit(v)' = Unit(v)
  BY DEF Moved
<1>2. \A v \in UnitIds : Unit(v)'.hash = Unit(v).hash
  BY <1>1
<1>3. \A v \in UnitIds : Busy(v)' <=> Busy(v)
  BY <1>1 DEF Busy
<1>4. LockInv'
  <2>1. ASSUME NEW v \in UnitIds', Busy(v)'
        PROVE  Unit(v)'.hash \in DOMAIN dedup' /\ dedup'[Unit(v)'.hash] = v
    BY <1>1, <1>2, <1>3, <2>1 DEF UnitInv, LockInv
  <2>2. ASSUME NEW h \in DOMAIN dedup', NEW v, v = dedup'[h]
        PROVE  v \in UnitIds' /\ Unit(v)'.hash = h /\ (Busy(v)' \/ Unit(v)'.pc = "failed")
    <3>1. v \in UnitIds /\ Unit(v).hash = h /\ (Busy(v) \/ Unit(v).pc = "failed")
      BY <2>2 DEF UnitInv, LockInv
    <3> QED
      BY <1>1, <1>2, <1>3, <3>1
  <2> QED
    BY <2>1, <2>2 DEF LockInv
<1>5. \A v \in UnitIds : Finished(Unit(v)) => Unit(v)' = Unit(v)
  BY <1>1 DEF Busy, Finished
<1>6. WaitInv'
  <2>1. ASSUME NEW v \in UnitIds, Unit(v)'.pc = "wait", NEW o, o = Unit(v)'.owner
        PROVE  /\ o \in UnitIds /\ Unit(o)'.hash = Unit(v)'.hash
               /\ \/ Unit(v)'.hash \in DOMAIN dedup' /\ dedup'[Unit(v)'.hash] = o
                  \/ Finished(Unit(o)')
    <3>1. v # u /\ Unit(v)' = Unit(v)
      BY <1>1, <2>1
    <3>2. /\ o \in UnitIds /\ Unit(o).hash = Unit(v).hash
          /\ \/ Unit(v).hash \in DOMAIN dedup /\ dedup[Unit(v).hash] = o
             \/ Finished(Unit(o))
      BY <2>1, <3>1 DEF UnitInv, WaitInv
    <3> QED
      BY <1>2, <1>5, <3>1, <3>2
  <2> QED
    BY <1>1, <2>1 DEF WaitInv, Finished
<1>7. ASSUME NEW h, Settled(h) PROVE Settled(h)'
  <2>1. \A v \in UnitIds : Unit(v).pc = "failed" => Unit(v)' = Unit(v)
    BY <1>5 DEF Finished
  <2> QED
    BY <1>1, <1>7, <2>1 DEF Settled, Grows
<1>8. StoredInv'
  <2>1. ASSUME NEW v \in UnitIds, Unit(v)'.pc = "done", NEW h, h = Unit(v)'.hash
        PROVE  Settled(h)'
    <3>1. v # u /\ Unit(v)' = Unit(v)
      BY <1>1, <2>1
    <3> QED
      BY <1>7, <2>1, <3>1 DEF UnitInv, StoredInv
  <2>2. ASSUME NEW v \in UnitIds, Unit(v)'.pc = "notify", ~Unit(v)'.failed
        PROVE  Unit(v)'.hash \in DOMAIN objects'
    BY <1>1, <2>2 DEF UnitInv, StoredInv, Grows
  <2> QED
    BY <1>1, <2>1, <2>2 DEF StoredInv
<1>k. Kept
  BY MovedKeeps DEF Busy
<1> QED
  BY <1>4, <1>6, <1>8, <1>k

\* The open multipart uploads, when a unit moves between two phases.
LEMMA SessionStep ==
    ASSUME UnitInv, NEW u \in UnitIds, NEW r, Moved(u, r),
           r.pc \in {"exists", "claim", "wait", "put", "notify", "create",
                     "parts", "complete", "abort", "done", "failed"},
           r.pc \in {"create", "parts", "complete", "abort"} => IsMultipart(u[1]),
           \A v \in sessions' : v \in sessions \/ v = u,
           u \in sessions' => MayBeOpen(r)
    PROVE  SessionInv'
<1>1. /\ UnitIds' = UnitIds /\ Unit(u)' = r
      /\ \A v \in UnitIds : v # u => Unit(v)' = Unit(v)
  BY DEF Moved
<1>2. ASSUME NEW v \in UnitIds
      PROVE  /\ Unit(v)'.pc \in {"exists", "claim", "wait", "put", "notify", "create",
                                 "parts", "complete", "abort", "done", "failed"}
             /\ Unit(v)'.pc \in {"create", "parts", "complete", "abort"} => IsMultipart(v[1])
  BY <1>1 DEF UnitInv, SessionInv
<1>3. ASSUME NEW v \in sessions'
      PROVE  v \in UnitIds /\ MayBeOpen(Unit(v)')
  BY <1>1, Zenon DEF UnitInv, SessionInv
<1>4. \A v \in sessions' : v \in UnitIds' /\ MayBeOpen(Unit(v))'
  BY <1>1, <1>3, Zenon DEF MayBeOpen
<1> QED
  BY <1>1, <1>2, <1>4 DEF SessionInv, IsMultipart, UseChunks, Size

\* put_object keeps the invariant of the units.
LEMMA PutStep ==
    ASSUME UnitInv, NEW u \in UnitIds, PutObject(u)
    PROVE  UnitInv' /\ Grows /\ Kept
<1>0. Unit(u).pc = "put" /\ Busy(u) /\ IsUnit(Unit(u))
  BY DEF PutObject, Busy, UnitInv, UnitTypes
<1>s. u \notin sessions'
  BY <1>0 DEF PutObject, UnitInv, SessionInv, MayBeOpen
<1>1. CASE Store(Unit(u).hash, Unit(u).data) /\ Become(u, [Unit(u) EXCEPT !.pc = "notify"])
  <2> DEFINE r == [Unit(u) EXCEPT !.pc = "notify"]
  <2>1. IsUnit(r) /\ r.pc = "notify" /\ r.hash = Unit(u).hash
    BY <1>0, PcUpdate
  <2>2. Become(u, r)
    BY <1>1
  <2> HIDE DEF r
  <2>3. UnitTypes' /\ Moved(u, r)
    BY <2>1, <2>2, BecomeStep DEF UnitInv
  <2>4. Grows /\ Unit(u).hash \in DOMAIN objects'
    BY <1>1 DEF Store, Grows
  <2>5. UNCHANGED <<dedup, sessions>>
    BY DEF PutObject
  <2>6. LockInv' /\ WaitInv' /\ StoredInv' /\ Kept
    BY <1>0, <2>1, <2>3, <2>4, <2>5, BusyStep
  <2>7. SessionInv'
    BY <1>s, <2>1, <2>3, <2>5, SessionStep
  <2> QED
    BY <2>3, <2>4, <2>6, <2>7 DEF UnitInv
<1>2. CASE /\ Become(u, [Unit(u) EXCEPT !.pc = "notify", !.failed = TRUE])
           /\ UNCHANGED objects
  <2> DEFINE r == [Unit(u) EXCEPT !.pc = "notify", !.failed = TRUE]
  <2>1. IsUnit(r) /\ r.pc = "notify" /\ r.hash = Unit(u).hash /\ r.failed = TRUE
    BY <1>0, FailedUpdate, ZenonT(30)
  <2>2. Become(u, r)
    BY <1>2
  <2> HIDE DEF r
  <2>3. UnitTypes' /\ Moved(u, r)
    BY <2>1, <2>2, BecomeStep DEF UnitInv
  <2>4. Grows
    BY <1>2 DEF Grows
  <2>5. UNCHANGED <<dedup, sessions>>
    BY DEF PutObject
  <2>6. LockInv' /\ WaitInv' /\ StoredInv' /\ Kept
    BY <1>0, <2>1, <2>3, <2>4, <2>5, BusyStep
  <2>7. SessionInv'
    BY <1>s, <2>1, <2>3, <2>5, SessionStep
  <2> QED
    BY <2>3, <2>4, <2>6, <2>7 DEF UnitInv
<1> QED
  BY <1>1, <1>2 DEF PutObject

\* The parts of a multipart upload, up to the call that completes or aborts it.
LEMMA PartsStep ==
    ASSUME UnitInv, NEW u \in UnitIds,
           JoinParts(u) \/ \E p \in DOMAIN Unit(u).parts : UploadPart(u, p)
    PROVE  UnitInv' /\ Grows /\ Kept
<1>0. Unit(u).pc = "parts" /\ Busy(u) /\ IsUnit(Unit(u)) /\ IsMultipart(u[1])
  BY Zenon DEF JoinParts, UploadPart, Busy, UnitInv, UnitTypes, SessionInv
<1>1. UNCHANGED <<dedup, objects, sessions>>
  BY Zenon DEF JoinParts, UploadPart, storeVars
<1>2. PICK r : /\ Become(u, r) /\ IsUnit(r) /\ r.hash = Unit(u).hash
               /\ r.pc \in {"parts", "complete", "abort"}
  <2>1. CASE JoinParts(u)
    <3>1. PICK q \in {"complete", "abort"} : Become(u, [Unit(u) EXCEPT !.pc = q])
      BY <2>1 DEF JoinParts
    <3> DEFINE s == [Unit(u) EXCEPT !.pc = q]
    <3>2. IsUnit(s) /\ s.pc = q /\ s.hash = Unit(u).hash
      BY <1>0, PcUpdate
    <3>3. Become(u, s)
      BY <3>1
    <3> HIDE DEF s
    <3> QED
      BY <3>2, <3>3
  <2>2. CASE \E p \in DOMAIN Unit(u).parts : UploadPart(u, p)
    <3>1. PICK p, x : Become(u, [Unit(u) EXCEPT !.parts[p] = x])
      BY <2>2, Zenon DEF UploadPart
    <3> DEFINE s == [Unit(u) EXCEPT !.parts[p] = x]
    <3>2. IsUnit(s) /\ s.pc = Unit(u).pc /\ s.hash = Unit(u).hash
      BY <1>0, PartUpdate
    <3>3. Become(u, s)
      BY <3>1
    <3> HIDE DEF s
    <3> QED
      BY <1>0, <3>2, <3>3
  <2> QED
    BY <2>1, <2>2
<1>3. UnitTypes' /\ Moved(u, r)
  BY <1>2, BecomeStep DEF UnitInv
<1>4. Grows
  BY <1>1 DEF Grows
<1>5. LockInv' /\ WaitInv' /\ StoredInv' /\ Kept
  BY <1>0, <1>1, <1>2, <1>3, <1>4, BusyStep
<1>6. SessionInv'
  BY <1>0, <1>1, <1>2, <1>3, SessionStep DEF MayBeOpen
<1> QED
  BY <1>3, <1>4, <1>5, <1>6 DEF UnitInv

\* Completing a multipart upload keeps it.
LEMMA CompleteStep ==
    ASSUME UnitInv, NEW u \in UnitIds, CompleteMultipart(u)
    PROVE  UnitInv' /\ Grows /\ Kept
<1>0. Unit(u).pc = "complete" /\ Busy(u) /\ IsUnit(Unit(u)) /\ IsMultipart(u[1])
  BY DEF CompleteMultipart, Busy, UnitInv, UnitTypes, SessionInv
<1>1. UNCHANGED dedup
  BY DEF CompleteMultipart
<1>2. PICK q \in {"notify", "abort"} :
        /\ Become(u, [Unit(u) EXCEPT !.pc = q]) /\ Grows
        /\ q = "notify" => Unit(u).hash \in DOMAIN objects' /\ sessions' = sessions \ {u}
        /\ q = "abort" => sessions' = sessions
  <2>1. CASE /\ \E bytes : Store(Unit(u).hash, bytes)
             /\ sessions' = sessions \ {u}
             /\ Become(u, [Unit(u) EXCEPT !.pc = "notify"])
    <3>1. Grows /\ Unit(u).hash \in DOMAIN objects'
      BY <2>1 DEF Store, Grows
    <3> QED
      BY <2>1, <3>1
  <2>2. CASE Become(u, [Unit(u) EXCEPT !.pc = "abort"]) /\ UNCHANGED <<objects, sessions>>
    BY <2>2 DEF Grows
  <2> QED
    BY <2>1, <2>2 DEF CompleteMultipart
<1> DEFINE r == [Unit(u) EXCEPT !.pc = q]
<1>3. IsUnit(r) /\ r.pc = q /\ r.hash = Unit(u).hash
  BY <1>0, PcUpdate
<1>4. Become(u, r)
  BY <1>2
<1> HIDE DEF r
<1>5. UnitTypes' /\ Moved(u, r)
  BY <1>3, <1>4, BecomeStep DEF UnitInv
<1>6. LockInv' /\ WaitInv' /\ StoredInv' /\ Kept
  BY <1>0, <1>1, <1>2, <1>3, <1>5, BusyStep
<1>7. SessionInv'
  BY <1>0, <1>2, <1>3, <1>5, SessionStep DEF MayBeOpen
<1> QED
  BY <1>2, <1>5, <1>6, <1>7 DEF UnitInv

\* Aborting one keeps it.
LEMMA AbortStep ==
    ASSUME UnitInv, NEW u \in UnitIds, AbortMultipart(u)
    PROVE  UnitInv' /\ Grows /\ Kept
<1>0. Unit(u).pc = "abort" /\ Busy(u) /\ IsUnit(Unit(u))
  BY DEF AbortMultipart, Busy, UnitInv, UnitTypes
<1> DEFINE q == [Unit(u) EXCEPT !.pc = "notify", !.failed = TRUE]
           w == [q EXCEPT !.parts = <<>>]
<1>a. IsUnit(q) /\ q.pc = "notify" /\ q.hash = Unit(u).hash /\ q.failed = TRUE
  BY <1>0, FailedUpdate, ZenonT(30)
<1>b. /\ UNCHANGED <<dedup, objects>>
      /\ \/ sessions' = sessions \ {u} /\ Become(u, w)
         \/ sessions' = sessions /\ Become(u, [w EXCEPT !.lost = TRUE])
  BY DEF AbortMultipart
<1> HIDE DEF q
<1>c. IsUnit(w) /\ w.pc = "notify" /\ w.hash = Unit(u).hash /\ w.failed = TRUE
  BY <1>a DEF IsUnit
<1> HIDE DEF w
<1>d. PICK r : /\ Become(u, r) /\ IsUnit(r)
               /\ r.pc = "notify" /\ r.hash = Unit(u).hash /\ r.failed = TRUE
               /\ sessions' = sessions \ {u} \/ (sessions' = sessions /\ r.lost = TRUE)
  <2>1. CASE sessions' = sessions \ {u} /\ Become(u, w)
    BY <1>c, <2>1
  <2>2. CASE sessions' = sessions /\ Become(u, [w EXCEPT !.lost = TRUE])
    <3> DEFINE x == TRUE
               l == [w EXCEPT !.lost = x]
    <3>1. Become(u, l) /\ x = TRUE
      BY <2>2
    <3> HIDE DEF x
    <3>2. IsUnit(l) /\ l.pc = w.pc /\ l.hash = w.hash /\ l.failed = w.failed /\ l.lost = x
      BY <1>c DEF IsUnit
    <3> HIDE DEF l
    <3> QED
      BY <1>c, <2>2, <3>1, <3>2, Zenon
  <2> QED
    BY <1>b, <2>1, <2>2
<1>1. UNCHANGED <<dedup, objects>>
  BY <1>b
<1>2. IsUnit(r) /\ r.pc = "notify" /\ r.hash = Unit(u).hash /\ r.failed = TRUE
  BY <1>d
<1>3. Become(u, r)
  BY <1>d
<1>4. UnitTypes' /\ Moved(u, r)
  BY <1>2, <1>3, BecomeStep DEF UnitInv
<1>5. Grows
  BY <1>1 DEF Grows
<1>6. LockInv' /\ WaitInv' /\ StoredInv' /\ Kept
  BY <1>0, <1>1, <1>2, <1>4, <1>5, BusyStep
<1>7. SessionInv'
  <2>1. \A v \in sessions' : v \in sessions \/ v = u
    BY <1>d
  <2>2. u \in sessions' => MayBeOpen(r)
    BY <1>d DEF MayBeOpen
  <2> QED
    BY <1>2, <1>4, <2>1, <2>2, SessionStep
<1> QED
  BY <1>4, <1>5, <1>6, <1>7 DEF UnitInv

-----------------------------------------------------------------------------
(* The steps of a unit that does not hold the entry of its hash. *)

\* Such a unit may come to wait for the owner, or be done when its hash is settled.
LEMMA IdleStep ==
    ASSUME UnitInv, NEW u \in UnitIds, Unit(u).pc \in {"exists", "claim", "wait"},
           NEW r, Moved(u, r), UNCHANGED <<dedup, objects, sessions>>,
           r.hash = Unit(u).hash, r.pc \in {"claim", "wait", "done"},
           r.pc = "wait" => r.hash \in DOMAIN dedup /\ r.owner = dedup[r.hash],
           r.pc = "done" => Settled(r.hash)
    PROVE  LockInv' /\ WaitInv' /\ StoredInv' /\ SessionInv' /\ Kept
<1>1. /\ UnitIds' = UnitIds /\ Unit(u)' = r
      /\ \A v \in UnitIds : v # u => Unit(v)' = Unit(v)
  BY DEF Moved
<1>2. \A v \in UnitIds : Unit(v)'.hash = Unit(v).hash
  BY <1>1
<1>3. \A v \in UnitIds : Busy(v)' \/ Busy(v) => v # u
  BY <1>1 DEF Busy
<1>4. \A v \in UnitIds : Finished(Unit(v)) => v # u
  BY DEF Finished
<1>5. LockInv'
  <2>1. ASSUME NEW v \in UnitIds', Busy(v)'
        PROVE  Unit(v)'.hash \in DOMAIN dedup' /\ dedup'[Unit(v)'.hash] = v
    <3>1. v # u /\ Unit(v)' = Unit(v)
      BY <1>1, <1>3, <2>1
    <3> QED
      BY <1>1, <2>1, <3>1 DEF UnitInv, LockInv, Busy
  <2>2. ASSUME NEW h \in DOMAIN dedup', NEW v, v = dedup'[h]
        PROVE  v \in UnitIds' /\ Unit(v)'.hash = h /\ (Busy(v)' \/ Unit(v)'.pc = "failed")
    <3>1. v \in UnitIds /\ Unit(v).hash = h /\ (Busy(v) \/ Unit(v).pc = "failed")
      BY <2>2 DEF UnitInv, LockInv
    <3>2. v # u
      BY <1>3, <3>1
    <3> QED
      BY <1>1, <3>1, <3>2 DEF Busy
  <2> QED
    BY <2>1, <2>2 DEF LockInv
<1>6. WaitInv'
  <2>1. ASSUME NEW v \in UnitIds, Unit(v)'.pc = "wait", NEW o, o = Unit(v)'.owner
        PROVE  /\ o \in UnitIds /\ Unit(o)'.hash = Unit(v)'.hash
               /\ \/ Unit(v)'.hash \in DOMAIN dedup' /\ dedup'[Unit(v)'.hash] = o
                  \/ Finished(Unit(o)')
    <3>1. CASE v # u
      <4>1. /\ o \in UnitIds /\ Unit(o).hash = Unit(v).hash
            /\ \/ Unit(v).hash \in DOMAIN dedup /\ dedup[Unit(v).hash] = o
               \/ Finished(Unit(o))
        BY <1>1, <2>1, <3>1 DEF UnitInv, WaitInv
      <4> QED
        BY <1>1, <1>2, <1>4, <4>1
    <3>2. CASE v = u
      <4>1. o = dedup[r.hash] /\ r.hash \in DOMAIN dedup
        BY <1>1, <2>1, <3>2
      <4>2. o \in UnitIds /\ Unit(o).hash = r.hash
        BY <4>1 DEF UnitInv, LockInv
      <4> QED
        BY <1>1, <1>2, <3>2, <4>1, <4>2
    <3> QED
      BY <3>1, <3>2
  <2> QED
    BY <1>1, <2>1 DEF WaitInv, Finished
<1>7. ASSUME NEW h, Settled(h) PROVE Settled(h)'
  <2>1. \A v \in UnitIds : Unit(v).pc = "failed" => v # u
    BY <1>4 DEF Finished
  <2> QED
    BY <1>1, <1>7, <2>1 DEF Settled
<1>8. StoredInv'
  <2>1. ASSUME NEW v \in UnitIds, Unit(v)'.pc = "done", NEW h, h = Unit(v)'.hash
        PROVE  Settled(h)'
    <3>1. Settled(h)
      BY <1>1, <2>1 DEF UnitInv, StoredInv
    <3> QED
      BY <1>7, <3>1
  <2>2. ASSUME NEW v \in UnitIds, Unit(v)'.pc = "notify", ~Unit(v)'.failed
        PROVE  Unit(v)'.hash \in DOMAIN objects'
    <3>1. v # u /\ Unit(v)' = Unit(v)
      BY <1>1, <2>2
    <3> QED
      BY <2>2, <3>1 DEF UnitInv, StoredInv
  <2> QED
    BY <1>1, <2>1, <2>2 DEF StoredInv
<1>9. SessionInv'
  <2>1. u \notin sessions'
    BY DEF UnitInv, SessionInv, MayBeOpen
  <2> QED
    BY <2>1, SessionStep
<1>k. Kept
  BY MovedKeeps DEF Busy
<1> QED
  BY <1>5, <1>6, <1>8, <1>9, <1>k

\* The fast path keeps it.
LEMMA ExistsStep ==
    ASSUME UnitInv, NEW u \in UnitIds, CheckExists(u)
    PROVE  UnitInv' /\ Grows /\ Kept
<1>0. Unit(u).pc = "exists" /\ IsUnit(Unit(u)) /\ UNCHANGED <<dedup, objects, sessions>>
  BY DEF CheckExists, UnitInv, UnitTypes, storeVars
<1>1. PICK q \in {"claim", "done"} :
        /\ Become(u, [Unit(u) EXCEPT !.pc = q])
        /\ q = "done" => Unit(u).hash \in DOMAIN objects
  BY DEF CheckExists, Present
<1> DEFINE r == [Unit(u) EXCEPT !.pc = q]
<1>2. IsUnit(r) /\ r.pc = q /\ r.hash = Unit(u).hash
  BY <1>0, PcUpdate
<1>3. Become(u, r)
  BY <1>1
<1> HIDE DEF r
<1>4. UnitTypes' /\ Moved(u, r)
  BY <1>2, <1>3, BecomeStep DEF UnitInv
<1>5. r.pc = "done" => Settled(r.hash)
  BY <1>1, <1>2 DEF Settled
<1>6. LockInv' /\ WaitInv' /\ StoredInv' /\ SessionInv' /\ Kept
  BY <1>0, <1>2, <1>4, <1>5, IdleStep
<1> QED
  BY <1>0, <1>4, <1>6 DEF UnitInv, Grows

\* The owner has returned, so the waiter's hash is stored or the owner failed.
LEMMA WakeStep ==
    ASSUME UnitInv, NEW u \in UnitIds, Wake(u)
    PROVE  UnitInv' /\ Grows /\ Kept
<1>0. Unit(u).pc = "wait" /\ IsUnit(Unit(u)) /\ UNCHANGED <<dedup, objects, sessions>>
  BY DEF Wake, UnitInv, UnitTypes, storeVars
<1> DEFINE r == [Unit(u) EXCEPT !.pc = "done"]
<1>1. IsUnit(r) /\ r.pc = "done" /\ r.hash = Unit(u).hash
  BY <1>0, PcUpdate
<1>2. Become(u, r)
  BY DEF Wake
<1> HIDE DEF r
<1>3. UnitTypes' /\ Moved(u, r)
  BY <1>1, <1>2, BecomeStep DEF UnitInv
<1>4. Settled(r.hash)
  <2>1. PICK o \in UnitIds : Unit(o).hash = Unit(u).hash /\ Finished(Unit(o))
    BY <1>0 DEF Wake, UnitInv, WaitInv
  <2> QED
    BY <1>1, <2>1 DEF UnitInv, StoredInv, Settled, Finished
<1>5. LockInv' /\ WaitInv' /\ StoredInv' /\ SessionInv' /\ Kept
  BY <1>0, <1>1, <1>3, <1>4, IdleStep
<1> QED
  BY <1>0, <1>3, <1>5 DEF UnitInv, Grows

\* The entry of the hash is free: the unit takes it.
LEMMA TakeStep ==
    ASSUME UnitInv, NEW u \in UnitIds, Unit(u).pc = "claim",
           Unit(u).hash \notin DOMAIN dedup, NEW r, Moved(u, r), r.hash = Unit(u).hash,
           r.pc \in {"create", "put"}, UNCHANGED objects,
           dedup' = [h \in DOMAIN dedup \cup {Unit(u).hash} |->
                        IF h = Unit(u).hash THEN u ELSE dedup[h]]
    PROVE  LockInv' /\ WaitInv' /\ StoredInv' /\ Kept
<1>1. /\ UnitIds' = UnitIds /\ Unit(u)' = r
      /\ \A v \in UnitIds : v # u => Unit(v)' = Unit(v)
  BY DEF Moved
<1>2. \A v \in UnitIds : Unit(v)'.hash = Unit(v).hash
  BY <1>1
<1>3. /\ Unit(u).hash \in DOMAIN dedup' /\ dedup'[Unit(u).hash] = u
      /\ \A h \in DOMAIN dedup : h \in DOMAIN dedup' /\ dedup'[h] = dedup[h]
      /\ \A h \in DOMAIN dedup' : h = Unit(u).hash \/ h \in DOMAIN dedup
  OBVIOUS
<1>4. LockInv'
  <2>1. ASSUME NEW v \in UnitIds', Busy(v)'
        PROVE  Unit(v)'.hash \in DOMAIN dedup' /\ dedup'[Unit(v)'.hash] = v
    <3>1. CASE v = u
      BY <1>2, <1>3, <3>1
    <3>2. CASE v # u
      <4>1. Unit(v).hash \in DOMAIN dedup /\ dedup[Unit(v).hash] = v
        BY <1>1, <2>1, <3>2 DEF UnitInv, LockInv, Busy
      <4> QED
        BY <1>1, <1>2, <1>3, <4>1
    <3> QED
      BY <3>1, <3>2
  <2>2. ASSUME NEW h \in DOMAIN dedup', NEW v, v = dedup'[h]
        PROVE  v \in UnitIds' /\ Unit(v)'.hash = h /\ (Busy(v)' \/ Unit(v)'.pc = "failed")
    <3>1. CASE h = Unit(u).hash
      BY <1>1, <1>3, <2>2, <3>1 DEF Busy
    <3>2. CASE h \in DOMAIN dedup
      <4>1. v \in UnitIds /\ Unit(v).hash = h /\ (Busy(v) \/ Unit(v).pc = "failed")
        BY <1>3, <2>2, <3>2 DEF UnitInv, LockInv
      <4>2. v # u
        BY <4>1 DEF Busy
      <4> QED
        BY <1>1, <4>1, <4>2 DEF Busy
    <3> QED
      BY <1>3, <3>1, <3>2
  <2> QED
    BY <2>1, <2>2 DEF LockInv
<1>5. WaitInv'
  <2>1. ASSUME NEW v \in UnitIds, Unit(v)'.pc = "wait", NEW o, o = Unit(v)'.owner
        PROVE  /\ o \in UnitIds /\ Unit(o)'.hash = Unit(v)'.hash
               /\ \/ Unit(v)'.hash \in DOMAIN dedup' /\ dedup'[Unit(v)'.hash] = o
                  \/ Finished(Unit(o)')
    <3>1. v # u /\ Unit(v)' = Unit(v)
      BY <1>1, <2>1
    <3>2. /\ o \in UnitIds /\ Unit(o).hash = Unit(v).hash
          /\ \/ Unit(v).hash \in DOMAIN dedup /\ dedup[Unit(v).hash] = o
             \/ Finished(Unit(o))
      BY <2>1, <3>1 DEF UnitInv, WaitInv
    <3>3. Finished(Unit(o)) => o # u
      BY DEF Finished
    <3> QED
      BY <1>1, <1>2, <1>3, <3>1, <3>2, <3>3
  <2> QED
    BY <1>1, <2>1 DEF WaitInv, Finished
<1>6. StoredInv'
  <2>1. ASSUME NEW v \in UnitIds, Unit(v)'.pc = "done", NEW h, h = Unit(v)'.hash
        PROVE  Settled(h)'
    <3>1. Settled(h)
      BY <1>1, <2>1 DEF UnitInv, StoredInv
    <3> QED
      BY <1>1, <3>1 DEF Settled
  <2>2. ASSUME NEW v \in UnitIds, Unit(v)'.pc = "notify", ~Unit(v)'.failed
        PROVE  Unit(v)'.hash \in DOMAIN objects'
    <3>1. v # u /\ Unit(v)' = Unit(v)
      BY <1>1, <2>2
    <3> QED
      BY <2>2, <3>1 DEF UnitInv, StoredInv
  <2> QED
    BY <1>1, <2>1, <2>2 DEF StoredInv
<1>k. Kept
  BY MovedKeeps DEF Busy
<1> QED
  BY <1>4, <1>5, <1>6, <1>k

\* Subscribing to an upload or becoming it keeps it.
LEMMA ClaimStep ==
    ASSUME UnitInv, NEW u \in UnitIds, Claim(u)
    PROVE  UnitInv' /\ Grows /\ Kept
<1>0. Unit(u).pc = "claim" /\ IsUnit(Unit(u)) /\ UNCHANGED <<objects, sessions>>
  BY DEF Claim, UnitInv, UnitTypes
<1>1. CASE Unit(u).hash \in DOMAIN dedup
  <2>0. PICK w, o : w = Unit(u) /\ o = dedup[Unit(u).hash]
    OBVIOUS
  <2>a. IsUnit(w)
    BY <1>0, <2>0
  <2> DEFINE r == [w EXCEPT !.pc = "wait", !.owner = o]
  <2>1. IsUnit(r) /\ r.pc = "wait" /\ r.hash = w.hash /\ r.owner = o
    <3> DEFINE q == [w EXCEPT !.pc = "wait"]
    <3>1. IsUnit(q) /\ q.pc = "wait" /\ q.hash = w.hash
      BY <2>a, PcUpdate
    <3> HIDE DEF q
    <3>2. LET t == [q EXCEPT !.owner = o] IN
          IsUnit(t) /\ t.pc = q.pc /\ t.hash = q.hash /\ t.owner = o
      BY <3>1 DEF IsUnit
    <3> QED
      BY <3>1, <3>2 DEF q
  <2>2. Become(u, r) /\ UNCHANGED dedup
    BY <1>1, <2>0 DEF Claim
  <2> HIDE DEF r
  <2>3. UnitTypes' /\ Moved(u, r)
    BY <2>1, <2>2, BecomeStep DEF UnitInv
  <2>4. LockInv' /\ WaitInv' /\ StoredInv' /\ SessionInv' /\ Kept
    BY <1>0, <1>1, <2>0, <2>1, <2>2, <2>3, IdleStep
  <2> QED
    BY <1>0, <2>3, <2>4 DEF UnitInv, Grows
<1>2. CASE Unit(u).hash \notin DOMAIN dedup
  <2>1. PICK q \in {"create", "put"} :
          /\ Become(u, [Unit(u) EXCEPT !.pc = q])
          /\ q = "create" => IsMultipart(u[1])
    BY <1>2 DEF Claim
  <2> DEFINE r == [Unit(u) EXCEPT !.pc = q]
  <2>2. IsUnit(r) /\ r.pc = q /\ r.hash = Unit(u).hash
    BY <1>0, PcUpdate
  <2>3. Become(u, r)
    BY <2>1
  <2>4. dedup' = [h \in DOMAIN dedup \cup {Unit(u).hash} |->
                     IF h = Unit(u).hash THEN u ELSE dedup[h]]
    BY <1>2 DEF Claim
  <2> HIDE DEF r
  <2>5. UnitTypes' /\ Moved(u, r)
    BY <2>2, <2>3, BecomeStep DEF UnitInv
  <2>6. LockInv' /\ WaitInv' /\ StoredInv' /\ Kept
    BY <1>0, <1>2, <2>2, <2>4, <2>5, TakeStep
  <2>7. u \notin sessions'
    BY <1>0 DEF UnitInv, SessionInv, MayBeOpen
  <2>8. SessionInv'
    BY <1>0, <2>1, <2>2, <2>5, <2>7, SessionStep
  <2> QED
    BY <1>0, <2>5, <2>6, <2>8 DEF UnitInv, Grows
<1> QED
  BY <1>1, <1>2

\* The unit returns: it fails with its entry left behind, or its entry is removed
\* and its hash is settled.
LEMMA LeaveStep ==
    ASSUME UnitInv, NEW u \in UnitIds, Busy(u), NEW r, Moved(u, r), r.hash = Unit(u).hash,
           r.pc \in {"done", "failed"}, r.pc = "done" => r.hash \in DOMAIN objects,
           UNCHANGED objects,
           \/ UNCHANGED dedup /\ r.pc = "failed"
           \/ dedup' = [h \in DOMAIN dedup \ {Unit(u).hash} |-> dedup[h]]
    PROVE  LockInv' /\ WaitInv' /\ StoredInv' /\ Kept
<1>1. /\ UnitIds' = UnitIds /\ Unit(u)' = r
      /\ \A v \in UnitIds : v # u => Unit(v)' = Unit(v)
  BY DEF Moved
<1>2. \A v \in UnitIds : Unit(v)'.hash = Unit(v).hash
  BY <1>1
<1>3. /\ \A h \in DOMAIN dedup' : h \in DOMAIN dedup /\ dedup'[h] = dedup[h]
      /\ \A h \in DOMAIN dedup : h # Unit(u).hash => h \in DOMAIN dedup' /\ dedup'[h] = dedup[h]
      /\ Unit(u).hash \in DOMAIN dedup' => r.pc = "failed"
  OBVIOUS
<1>4. dedup[Unit(u).hash] = u /\ Unit(u).hash \in DOMAIN dedup
  BY DEF UnitInv, LockInv
<1>5. LockInv'
  <2>1. ASSUME NEW v \in UnitIds', Busy(v)'
        PROVE  Unit(v)'.hash \in DOMAIN dedup' /\ dedup'[Unit(v)'.hash] = v
    <3>1. v # u
      BY <1>1, <2>1 DEF Busy
    <3>2. Unit(v).hash \in DOMAIN dedup /\ dedup[Unit(v).hash] = v
      BY <1>1, <2>1, <3>1 DEF UnitInv, LockInv, Busy
    <3>3. Unit(v).hash # Unit(u).hash
      BY <1>4, <3>1, <3>2
    <3> QED
      BY <1>1, <1>2, <1>3, <3>2, <3>3
  <2>2. ASSUME NEW h \in DOMAIN dedup', NEW v, v = dedup'[h]
        PROVE  v \in UnitIds' /\ Unit(v)'.hash = h /\ (Busy(v)' \/ Unit(v)'.pc = "failed")
    <3>1. v \in UnitIds /\ Unit(v).hash = h /\ (Busy(v) \/ Unit(v).pc = "failed")
      BY <1>3, <2>2 DEF UnitInv, LockInv
    <3>2. CASE v = u
      BY <1>1, <1>3, <2>2, <3>1, <3>2
    <3>3. CASE v # u
      BY <1>1, <3>1, <3>3 DEF Busy
    <3> QED
      BY <3>2, <3>3
  <2> QED
    BY <2>1, <2>2 DEF LockInv
<1>6. \A v \in UnitIds : Finished(Unit(v)) => Finished(Unit(v)')
  BY <1>1 DEF Finished
<1>7. WaitInv'
  <2>1. ASSUME NEW v \in UnitIds, Unit(v)'.pc = "wait", NEW o, o = Unit(v)'.owner
        PROVE  /\ o \in UnitIds /\ Unit(o)'.hash = Unit(v)'.hash
               /\ \/ Unit(v)'.hash \in DOMAIN dedup' /\ dedup'[Unit(v)'.hash] = o
                  \/ Finished(Unit(o)')
    <3>1. v # u /\ Unit(v)' = Unit(v)
      BY <1>1, <2>1
    <3>2. /\ o \in UnitIds /\ Unit(o).hash = Unit(v).hash
          /\ \/ Unit(v).hash \in DOMAIN dedup /\ dedup[Unit(v).hash] = o
             \/ Finished(Unit(o))
      BY <2>1, <3>1 DEF UnitInv, WaitInv
    <3>3. CASE Unit(v).hash # Unit(u).hash
      BY <1>2, <1>3, <1>6, <3>1, <3>2, <3>3
    <3>4. CASE Unit(v).hash = Unit(u).hash
      <4>1. Finished(Unit(u)')
        BY <1>1 DEF Finished
      <4> QED
        BY <1>2, <1>4, <1>6, <3>1, <3>2, <3>4, <4>1
    <3> QED
      BY <3>3, <3>4
  <2> QED
    BY <1>1, <2>1 DEF WaitInv, Finished
<1>8. StoredInv'
  <2>0. \A v \in UnitIds : Unit(v).pc = "failed" => v # u
    BY DEF Busy
  <2>1. ASSUME NEW v \in UnitIds, Unit(v)'.pc = "done", NEW h, h = Unit(v)'.hash
        PROVE  Settled(h)'
    <3>1. Settled(h)
      BY <1>1, <2>1 DEF UnitInv, StoredInv, Settled
    <3> QED
      BY <1>1, <2>0, <3>1 DEF Settled
  <2>2. ASSUME NEW v \in UnitIds, Unit(v)'.pc = "notify", ~Unit(v)'.failed
        PROVE  Unit(v)'.hash \in DOMAIN objects'
    <3>1. v # u /\ Unit(v)' = Unit(v)
      BY <1>1, <2>2
    <3> QED
      BY <2>2, <3>1 DEF UnitInv, StoredInv
  <2> QED
    BY <1>1, <2>1, <2>2 DEF StoredInv
<1>k. Kept
  BY MovedKeeps DEF Busy
<1> QED
  BY <1>5, <1>7, <1>8, <1>k

\* Removing the entry and returning keeps it.
LEMMA NotifyStep ==
    ASSUME UnitInv, NEW u \in UnitIds, Notify(u)
    PROVE  UnitInv' /\ Grows /\ Kept
<1>0. Unit(u).pc = "notify" /\ Busy(u) /\ IsUnit(Unit(u)) /\ UNCHANGED <<objects, sessions>>
  BY DEF Notify, Busy, UnitInv, UnitTypes
<1>1. PICK w, p, b :
        /\ w = Unit(u) /\ Become(u, [w EXCEPT !.pc = p, !.uploaded = b])
        /\ p = IF w.failed THEN "failed" ELSE "done"
  BY Zenon DEF Notify
<1> DEFINE q == [w EXCEPT !.pc = p]
           r == [q EXCEPT !.uploaded = b]
<1>2. IsUnit(q) /\ q.pc = p /\ q.hash = w.hash
  BY <1>0, <1>1, PcUpdate
<1>l. q.lost = w.lost
  BY <1>0, <1>1 DEF IsUnit
<1>3. Become(u, r)
  BY <1>1
<1> HIDE DEF q
<1>4. IsUnit(r) /\ r.pc = p /\ r.hash = w.hash /\ r.lost = w.lost
  BY <1>2, <1>l DEF IsUnit
<1> HIDE DEF r
<1>5. UnitTypes' /\ Moved(u, r)
  BY <1>3, <1>4, BecomeStep DEF UnitInv
<1>6. p \in {"done", "failed"} /\ (p = "done" => w.hash \in DOMAIN objects)
  BY <1>0, <1>1 DEF UnitInv, StoredInv
<1>7. dedup' = [h \in DOMAIN dedup \ {Unit(u).hash} |-> dedup[h]]
  BY DEF Notify
<1>8. LockInv' /\ WaitInv' /\ StoredInv' /\ Kept
  BY <1>0, <1>1, <1>4, <1>5, <1>6, <1>7, LeaveStep
<1>9. u \in sessions' => MayBeOpen(r)
  BY <1>0, <1>1, <1>4 DEF UnitInv, SessionInv, MayBeOpen
<1>10. SessionInv'
  BY <1>0, <1>4, <1>5, <1>6, <1>9, SessionStep
<1> QED
  BY <1>0, <1>5, <1>8, <1>10 DEF UnitInv, Grows

\* Creating a multipart upload, or failing to, keeps it.
LEMMA CreateStep ==
    ASSUME UnitInv, NEW u \in UnitIds, CreateMultipart(u)
    PROVE  UnitInv' /\ Grows /\ Kept
<1>0. Unit(u).pc = "create" /\ Busy(u) /\ IsUnit(Unit(u)) /\ IsMultipart(u[1])
  BY DEF CreateMultipart, Busy, UnitInv, UnitTypes, SessionInv
<1>1. UNCHANGED <<dedup, objects>>
  BY DEF CreateMultipart
<1>2. u \notin sessions
  BY <1>0 DEF UnitInv, SessionInv, MayBeOpen
<1>3. CASE /\ sessions' = sessions \cup {u}
           /\ Become(u, [Unit(u) EXCEPT
                  !.pc = "parts",
                  !.parts = [p \in DOMAIN Pieces(Contents[u[1]], PartSize) |-> NoPart]])
  <2>1. PICK w, x : w = Unit(u) /\ Become(u, [w EXCEPT !.pc = "parts", !.parts = x])
    BY <1>3, Zenon
  <2> DEFINE q == [w EXCEPT !.pc = "parts"]
             r == [q EXCEPT !.parts = x]
  <2>2. IsUnit(q) /\ q.pc = "parts" /\ q.hash = w.hash
    BY <1>0, <2>1, PcUpdate
  <2>3. Become(u, r)
    BY <2>1
  <2> HIDE DEF q
  <2>4. IsUnit(r) /\ r.pc = "parts" /\ r.hash = w.hash
    BY <2>2 DEF IsUnit
  <2> HIDE DEF r
  <2>5. UnitTypes' /\ Moved(u, r)
    BY <2>3, <2>4, BecomeStep DEF UnitInv
  <2>6. Grows
    BY <1>1 DEF Grows
  <2>7. LockInv' /\ WaitInv' /\ StoredInv' /\ Kept
    BY <1>0, <1>1, <2>1, <2>4, <2>5, <2>6, BusyStep
  <2>8. SessionInv'
    BY <1>0, <1>3, <2>4, <2>5, SessionStep DEF MayBeOpen
  <2> QED
    BY <2>5, <2>6, <2>7, <2>8 DEF UnitInv
<1>4. CASE Become(u, [Unit(u) EXCEPT !.pc = "failed"]) /\ UNCHANGED sessions
  <2> DEFINE r == [Unit(u) EXCEPT !.pc = "failed"]
  <2>1. IsUnit(r) /\ r.pc = "failed" /\ r.hash = Unit(u).hash
    BY <1>0, PcUpdate
  <2>2. Become(u, r)
    BY <1>4
  <2> HIDE DEF r
  <2>3. UnitTypes' /\ Moved(u, r)
    BY <2>1, <2>2, BecomeStep DEF UnitInv
  <2>4. LockInv' /\ WaitInv' /\ StoredInv' /\ Kept
    BY <1>0, <1>1, <2>1, <2>3, LeaveStep, Zenon
  <2>5. SessionInv'
    BY <1>2, <1>4, <2>1, <2>3, SessionStep
  <2> QED
    BY <1>1, <2>3, <2>4, <2>5 DEF UnitInv, Grows
<1> QED
  BY <1>3, <1>4 DEF CreateMultipart

\* Every step of a unit keeps what relates the units, the dedup map, the data
\* cache and the open uploads.
LEMMA UnitInvStep ==
    ASSUME UnitInv, NEW u \in UnitIds, UnitStep(u)
    PROVE  UnitInv' /\ Grows /\ Kept
BY ExistsStep, ClaimStep, WakeStep, PutStep, NotifyStep, CreateStep, PartsStep, CompleteStep,
   AbortStep DEF UnitStep

-----------------------------------------------------------------------------
(* The file tasks. *)

\* A unit of a file, by the file and its chunk.
LEMMA UnitOf == \A f \in Files : \A i \in DOMAIN units[f] : Unit(<<f, i>>) = units[f][i]
BY DEF Unit

\* A step of a unit leaves the file tasks where they are.
LEMMA TasksWait ==
    ASSUME UploadInv, NEW u \in UnitIds, UnitStep(u), Grows, Kept
    PROVE  TaskInv' /\ ResultInv' /\ QueueInv' /\ OutcomeInv'
<1>1. UNCHANGED <<pc, result, cancelled, outcome, queue>>
  BY Zenon DEF UnitStep, CheckExists, Claim, Wake, PutObject, Notify, CreateMultipart, JoinParts,
         CompleteMultipart, AbortMultipart, UploadPart, fileVars, taskVars, poolVars
<1>2. ASSUME NEW f \in Files
      PROVE  /\ DOMAIN units'[f] = DOMAIN units[f]
             /\ \A i \in DOMAIN units[f] :
                   /\ units'[f][i].hash = units[f][i].hash
                   /\ Finished(units[f][i]) => units'[f][i].pc = units[f][i].pc
  BY UnitIdsAre, Zenon DEF Kept, Unit
<1>3. TaskInv'
  <2>1. TaskInv
    BY DEF UploadInv
  <2>2. ASSUME NEW f \in Files
        PROVE  /\ pc'[f] \notin {"upload", "finished"} => DOMAIN units'[f] = {}
               /\ IsMultipart(f) => \A i \in DOMAIN units'[f] : i = 1
               /\ IsMultipart(f) /\ pc'[f] = "finished" =>
                     \A i \in DOMAIN units'[f] : Finished(units'[f][i])
    BY <1>1, <1>2, <2>1 DEF TaskInv, Finished
  <2> QED
    BY <1>1, <2>1, <2>2 DEF TaskInv, Finished, IsMultipart, UseChunks, Size
<1>4. ResultInv'
  <2>1. ResultInv
    BY DEF UploadInv
  <2>2. ASSUME NEW f \in Files, pc'[f] = "finished", result'[f].kind # "err"
        PROVE  /\ \A i \in DOMAIN units'[f] : units'[f][i].pc = "done"
               /\ \A i \in DOMAIN result'[f].hashes :
                     \/ result'[f].hashes[i] \in DOMAIN objects'
                     \/ \E j \in DOMAIN units'[f] : units'[f][j].hash = result'[f].hashes[i]
    BY <1>1, <1>2, <2>1, <2>2 DEF ResultInv, Finished, Grows
  <2> QED
    BY <2>2 DEF ResultInv
<1>5. QueueInv'
  BY <1>1 DEF UploadInv, QueueInv
<1>6. OutcomeInv'
  BY <1>1, Zenon DEF UploadInv, OutcomeInv
<1> QED
  BY <1>3, <1>4, <1>5, <1>6

\* Nothing the units depend on changes.
LEMMA UnitsWait ==
    ASSUME UnitInv, UNCHANGED <<units, dedup, objects, sessions>>
    PROVE  UnitInv'
<1>1. UnitIds' = UnitIds /\ \A v : Unit(v)' = Unit(v)
  BY DEF UnitIds, Unit
<1>2. UnitTypes'
  BY <1>1, SMTT(30) DEF UnitInv, UnitTypes
<1>3. LockInv'
  BY <1>1 DEF UnitInv, LockInv, Busy, Unit
<1>4. WaitInv'
  BY <1>1, Zenon DEF UnitInv, WaitInv, Unit, Finished
<1>5. StoredInv'
  BY <1>1 DEF UnitInv, StoredInv, Unit, Settled
<1>6. SessionInv'
  BY <1>1 DEF UnitInv, SessionInv, Unit
<1> QED
  BY <1>2, <1>3, <1>4, <1>5, <1>6 DEF UnitInv

\* A task moves on without touching its units; q says where it goes.
LEMMA MoveOn ==
    ASSUME UploadInv, NEW f \in Files, NEW q \in {"caches", "memory", "read"},
           pc[f] \in {"spawned", "caches", "memory"},
           pc' = [pc EXCEPT ![f] = q], UNCHANGED <<units, objects, result, cancelled, outcome>>
    PROVE  TaskInv' /\ ResultInv' /\ OutcomeInv' /\ \A g \in Files : g # f => pc'[g] = pc[g]
<1>1. pc \in [Files -> {"spawned", "caches", "memory", "read", "upload", "finished"}]
  BY DEF UploadInv, TaskInv
<1>2. pc'[f] = q /\ \A g \in Files : g # f => pc'[g] = pc[g]
  BY <1>1
<1>3. TaskInv'
  <2>1. pc' \in [Files -> {"spawned", "caches", "memory", "read", "upload", "finished"}]
    BY <1>1
  <2>2. ASSUME NEW g \in Files
        PROVE  /\ pc'[g] \notin {"upload", "finished"} => DOMAIN units'[g] = {}
               /\ IsMultipart(g) => \A i \in DOMAIN units'[g] : i = 1
               /\ IsMultipart(g) /\ pc'[g] = "finished" =>
                     \A i \in DOMAIN units'[g] : Finished(units'[g][i])
    BY <1>2 DEF UploadInv, TaskInv
  <2> QED
    BY <2>1, <2>2 DEF UploadInv, TaskInv, Finished, IsMultipart, UseChunks, Size
<1>4. ResultInv'
  <2>1. \A g \in Files : pc'[g] = "finished" => pc[g] = "finished"
    BY <1>2
  <2> QED
    BY <2>1 DEF UploadInv, ResultInv
<1>5. OutcomeInv'
  <2>1. \A g \in Files : pc[g] = "finished" => pc'[g] = "finished"
    BY <1>2
  <2> QED
    BY <2>1, Zenon DEF UploadInv, OutcomeInv
<1> QED
  BY <1>2, <1>3, <1>4, <1>5

\* The queue of the pool when no task in it moves.
LEMMA QueueWaits ==
    ASSUME UploadInv, NEW f \in Files, pc[f] # "memory", UNCHANGED queue,
           \A g \in Files : g # f => pc'[g] = pc[g]
    PROVE  QueueInv'
<1>1. queue \in Seq([client : Files, permits : Int])
  BY DEF UploadInv, QueueInv
<1>2. ASSUME NEW i \in DOMAIN queue PROVE pc'[queue[i].client] = "memory"
  <2>0. queue[i] \in [client : Files, permits : Int]
    BY <1>1, ElementOfSeq, LenProperties, Zenon
  <2>1. queue[i].client \in Files
    BY <2>0
  <2>2. pc[queue[i].client] = "memory"
    BY DEF UploadInv, QueueInv
  <2> QED
    BY <2>1, <2>2
<1> QED
  BY <1>1, <1>2 DEF UploadInv, QueueInv

\* A task returns r.
LEMMA ReturnStep ==
    ASSUME UploadInv, NEW f \in Files, pc[f] \notin {"memory", "finished"}, NEW r, Return(f, r),
           UNCHANGED <<units, objects, outcome>>,
           IsMultipart(f) => \A i \in DOMAIN units[f] : Finished(units[f][i]),
           r.kind # "err" =>
              /\ \A i \in DOMAIN units[f] : units[f][i].pc = "done"
              /\ \A i \in DOMAIN r.hashes :
                    \/ r.hashes[i] \in DOMAIN objects
                    \/ \E j \in DOMAIN units[f] : units[f][j].hash = r.hashes[i],
           UNCHANGED cancelled \/ (cancelled' = TRUE /\ r.kind = "err")
    PROVE  TaskInv' /\ ResultInv' /\ QueueInv' /\ OutcomeInv'
<1>1. pc \in [Files -> {"spawned", "caches", "memory", "read", "upload", "finished"}]
  BY SMTT(30) DEF UploadInv, TaskInv
<1>2. pc'[f] = "finished" /\ \A g \in Files : g # f => pc'[g] = pc[g]
  BY <1>1 DEF Return
<1>3. DOMAIN result = Files
  BY DEF UploadInv, TaskInv
<1>4. result'[f] = r /\ \A g \in Files : g # f => result'[g] = result[g]
  BY <1>3 DEF Return
<1>5. TaskInv'
  <2>1. pc' \in [Files -> {"spawned", "caches", "memory", "read", "upload", "finished"}]
    BY <1>1 DEF Return
  <2>2. result' = [g \in Files |-> result'[g]]
    BY <1>3 DEF Return, UploadInv, TaskInv
  <2>3. ASSUME NEW g \in Files
        PROVE  /\ pc'[g] \notin {"upload", "finished"} => DOMAIN units'[g] = {}
               /\ IsMultipart(g) => \A i \in DOMAIN units'[g] : i = 1
               /\ IsMultipart(g) /\ pc'[g] = "finished" =>
                     \A i \in DOMAIN units'[g] : Finished(units'[g][i])
    BY <1>2 DEF UploadInv, TaskInv
  <2> QED
    BY <2>1, <2>2, <2>3, SMTT(30) DEF TaskInv, Finished, IsMultipart, UseChunks, Size
<1>6. ResultInv'
  <2>1. ASSUME NEW g \in Files, pc'[g] = "finished", result'[g].kind # "err"
        PROVE  /\ \A i \in DOMAIN units'[g] : units'[g][i].pc = "done"
               /\ \A i \in DOMAIN result'[g].hashes :
                     \/ result'[g].hashes[i] \in DOMAIN objects'
                     \/ \E j \in DOMAIN units'[g] : units'[g][j].hash = result'[g].hashes[i]
    <3>1. CASE g = f
      BY <1>4, <2>1, <3>1, SMTT(30)
    <3>2. CASE g # f
      BY <1>2, <1>4, <2>1, <3>2, SMTT(30) DEF UploadInv, ResultInv
    <3> QED
      BY <3>1, <3>2, SMTT(30)
  <2> QED
    BY <2>1, SMTT(30) DEF ResultInv
<1>7. QueueInv'
  <2>1. UNCHANGED queue
    BY SMTT(30) DEF Return, Release
  <2> QED
    BY <1>2, <2>1, QueueWaits, SMTT(30)
<1>8. OutcomeInv'
  <2>1. outcome = "none" /\ outcome' = "none"
    BY DEF UploadInv, OutcomeInv
  <2>2. cancelled' \in BOOLEAN
    BY Zenon DEF UploadInv, OutcomeInv
  <2>3. cancelled' => \E g \in Files : pc'[g] = "finished" /\ result'[g].kind = "err"
    <3>1. CASE UNCHANGED cancelled
      <4>1. ASSUME NEW g \in Files, pc[g] = "finished", result[g].kind = "err"
            PROVE  pc'[g] = "finished" /\ result'[g].kind = "err"
        BY <1>2, <1>4, <4>1, SMTT(30)
      <4> QED
        BY <3>1, <4>1, Zenon DEF UploadInv, OutcomeInv
    <3>2. CASE r.kind = "err"
      BY <1>2, <1>4, <3>2
    <3> QED
      BY <3>1, <3>2, Zenon
  <2> QED
    BY <2>1, <2>2, <2>3 DEF OutcomeInv
<1> QED
  BY <1>5, <1>6, <1>7, <1>8

-----------------------------------------------------------------------------
(* The queue of the memory pool. *)

\* A request is for a whole number of permits.
LEMMA PermitsAreInt == \A f \in Files : BytesToPermits(Clamp(Size(f))) \in Int
<1> SUFFICES ASSUME NEW f \in Files PROVE BytesToPermits(Clamp(Size(f))) \in Int
  OBVIOUS
<1>1. Contents[f] \in Seq(STRING)
  BY UploadAssumption, ElementOfSeq, LenProperties DEF Files
<1>2. Size(f) \in Nat
  BY <1>1, LenProperties DEF Size
<1>3. PICK n \in Nat : n = Clamp(Size(f))
  BY <1>2, PoolAssumption DEF Clamp
<1>4. (n + Granularity - 1) \div Granularity \in Int
  BY <1>3, PoolAssumption
<1> QED
  BY <1>3, <1>4, PoolAssumption DEF BytesToPermits

\* A request for memory keeps the invariant.
LEMMA AskStep ==
    ASSUME UploadInv, NEW f \in Files, pc[f] = "caches", Request(f, Size(f)),
           pc' = [pc EXCEPT ![f] = "memory"]
    PROVE  QueueInv'
<1> DEFINE S == [client : Files, permits : Int]
           e == [client |-> f, permits |-> BytesToPermits(Clamp(Size(f)))]
<1>1. pc \in [Files -> {"spawned", "caches", "memory", "read", "upload", "finished"}]
  BY DEF UploadInv, TaskInv
<1>2. pc'[f] = "memory" /\ \A g \in Files : g # f => pc'[g] = pc[g]
  BY <1>1
<1>3. queue \in Seq(S) /\ e \in S
  BY PermitsAreInt DEF UploadInv, QueueInv
<1>4. queue' = Append(queue, e)
  BY DEF Request
<1>5. e.client = f
  OBVIOUS
<1> HIDE DEF e, S
<1>6. /\ queue' \in Seq(S) /\ Len(queue') = Len(queue) + 1 /\ queue'[Len(queue) + 1] = e
      /\ \A i \in 1..Len(queue) : queue'[i] = queue[i]
      /\ DOMAIN queue' = 1..(Len(queue) + 1) /\ DOMAIN queue = 1..Len(queue)
      /\ Len(queue) \in Nat
  BY <1>3, <1>4, AppendProperties, LenProperties
<1>7. \A i \in DOMAIN queue : queue[i].client \in Files /\ queue[i].client # f /\ pc[queue[i].client] = "memory"
  <2>1. \A i \in DOMAIN queue : queue[i] \in S
    BY <1>3, <1>6, ElementOfSeq
  <2>2. \A i \in DOMAIN queue : queue[i].client \in Files
    BY <2>1 DEF S
  <2>3. \A i \in DOMAIN queue : pc[queue[i].client] = "memory"
    BY DEF UploadInv, QueueInv
  <2> QED
    BY <2>2, <2>3
<1>8. \A i \in DOMAIN queue' : i \in DOMAIN queue \/ i = Len(queue) + 1
  BY <1>6
<1>9. \A i \in DOMAIN queue' : pc'[queue'[i].client] = "memory"
  BY <1>2, <1>5, <1>6, <1>7, <1>8
<1>10. \A i, j \in DOMAIN queue' : queue'[i].client = queue'[j].client => i = j
  BY <1>5, <1>6, <1>7, <1>8 DEF UploadInv, QueueInv
<1> QED
  BY <1>6, <1>9, <1>10 DEF QueueInv, S

\* The queue without its ith entry, as Grant leaves it.
Without(q, i) == SubSeq(q, 1, i - 1) \o SubSeq(q, i + 1, Len(q))

\* A sequence without its i-th element.
LEMMA WithoutProperties ==
    ASSUME NEW S, NEW q \in Seq(S), NEW i \in DOMAIN q, NEW t, t = Without(q, i)
    PROVE  /\ t \in Seq(S) /\ DOMAIN t = 1..(Len(q) - 1)
           /\ \A k \in DOMAIN t : (k < i => t[k] = q[k]) /\ (k >= i => t[k] = q[k + 1])
           /\ \A k \in DOMAIN t : k \in Nat /\ k + 1 \in DOMAIN q /\ k \in DOMAIN q
<1>1. Len(q) \in Nat /\ DOMAIN q = 1..Len(q) /\ i \in 1..Len(q)
  BY LenProperties
<1>2. SubSeq(q, 1, i - 1) \in Seq(S) /\ Len(SubSeq(q, 1, i - 1)) = i - 1
  BY <1>1, SubSeqProperties
<1>3. SubSeq(q, i + 1, Len(q)) \in Seq(S) /\ Len(SubSeq(q, i + 1, Len(q))) = Len(q) - i
  BY <1>1, SubSeqProperties
<1>4. \A k \in 1..(i - 1) : SubSeq(q, 1, i - 1)[k] = q[k]
  BY <1>1, SubSeqProperties
<1>5. \A k \in 1..(Len(q) - i) : SubSeq(q, i + 1, Len(q))[k] = q[i + k]
  BY <1>1, SubSeqProperties
<1> DEFINE a == SubSeq(q, 1, i - 1)
           b == SubSeq(q, i + 1, Len(q))
<1>6. a \in Seq(S) /\ b \in Seq(S) /\ t = a \o b /\ Len(a) = i - 1 /\ Len(b) = Len(q) - i
  BY <1>2, <1>3 DEF Without
<1>7. /\ \A k \in 1..(i - 1) : a[k] = q[k]
      /\ \A k \in 1..(Len(q) - i) : b[k] = q[i + k]
  BY <1>4, <1>5
<1> HIDE DEF a, b
<1>8. /\ t \in Seq(S) /\ Len(t) = Len(a) + Len(b)
      /\ \A k \in 1..(Len(a) + Len(b)) : t[k] = IF k <= Len(a) THEN a[k] ELSE b[k - Len(a)]
  <2>1. a \in Seq(S) /\ b \in Seq(S) /\ t = a \o b
    BY <1>6
  <2> QED
    BY <2>1, ConcatProperties
<1>9. Len(a) + Len(b) = Len(q) - 1
  BY <1>1, <1>6
<1>10. t \in Seq(S) /\ DOMAIN t = 1..(Len(q) - 1)
  <2>1. DOMAIN t = 1..Len(t)
    BY <1>8, LenProperties
  <2> QED
    BY <1>8, <1>9, <2>1
<1>11. ASSUME NEW k \in 1..(Len(q) - 1)
       PROVE  /\ k < i => t[k] = q[k]
              /\ k >= i => t[k] = q[k + 1]
              /\ k \in Nat /\ k + 1 \in DOMAIN q /\ k \in DOMAIN q
  <2>0. k \in Int /\ i \in Int /\ Len(q) \in Int /\ 1 <= k /\ k <= Len(q) - 1 /\ 1 <= i /\ i <= Len(q)
    BY <1>1
  <2>1. t[k] = IF k <= i - 1 THEN a[k] ELSE b[k - (i - 1)]
    BY <1>6, <1>8, <1>9, Zenon
  <2>2. ASSUME k < i PROVE t[k] = q[k]
    BY <1>1, <1>7, <2>0, <2>1, <2>2
  <2>3. ASSUME k >= i PROVE t[k] = q[k + 1]
    <3>1. PICK m \in 1..(Len(q) - i) : m = k - (i - 1)
      BY <2>0, <2>3
    <3>a. ~(k <= i - 1)
      BY <2>0, <2>3
    <3>2. t[k] = b[m]
      BY <2>1, <3>1, <3>a, Zenon
    <3>3. b[m] = q[i + m]
      BY <1>7
    <3>4. i + m = k + 1
      BY <2>0, <3>1
    <3> QED
      BY <3>2, <3>3, <3>4, Zenon
  <2>4. k \in Nat /\ k + 1 \in DOMAIN q /\ k \in DOMAIN q
    BY <1>1, <2>0
  <2> QED
    BY <2>2, <2>3, <2>4, Zenon
<1> QED
  BY <1>10, <1>11

\* A grant of memory keeps the invariant.
LEMMA GetStep ==
    ASSUME UploadInv, NEW f \in Files, Grant(f), pc' = [pc EXCEPT ![f] = "read"]
    PROVE  QueueInv'
<1> DEFINE S == [client : Files, permits : Int]
<1>1. pc \in [Files -> {"spawned", "caches", "memory", "read", "upload", "finished"}]
  BY DEF UploadInv, TaskInv
<1>2. \A g \in Files : g # f => pc'[g] = pc[g]
  BY <1>1
<1>3. queue \in Seq(S)
  BY DEF UploadInv, QueueInv
<1>4. PICK n \in DOMAIN queue : queue[n].client = f /\ queue' = Without(queue, n)
  BY Zenon DEF Grant, Without
<1>5. \A i \in DOMAIN queue : queue[i] \in S
  BY <1>3, ElementOfSeq, LenProperties, Zenon
<1>6. \A i \in DOMAIN queue : queue[i].client \in Files
  BY <1>5
<1> HIDE DEF S
<1>7. /\ queue' \in Seq(S) /\ DOMAIN queue' = 1..(Len(queue) - 1)
      /\ \A k \in DOMAIN queue' :
            (k < n => queue'[k] = queue[k]) /\ (k >= n => queue'[k] = queue[k + 1])
      /\ \A k \in DOMAIN queue' : k \in Nat /\ k + 1 \in DOMAIN queue /\ k \in DOMAIN queue
  BY <1>3, <1>4, WithoutProperties, SMTT(30)
<1>8. n \in Nat
  BY <1>3, LenProperties
<1>9. \A k \in DOMAIN queue' : \E m \in DOMAIN queue :
         /\ m # n /\ queue'[k] = queue[m] /\ m = IF k < n THEN k ELSE k + 1
  BY <1>7, <1>8
<1>10. \A i, j \in DOMAIN queue : queue[i].client = queue[j].client => i = j
  BY DEF UploadInv, QueueInv
<1>11. \A i \in DOMAIN queue : pc[queue[i].client] = "memory"
  BY DEF UploadInv, QueueInv
<1>12. \A k \in DOMAIN queue' : pc'[queue'[k].client] = "memory"
  <2> SUFFICES ASSUME NEW k \in DOMAIN queue' PROVE pc'[queue'[k].client] = "memory"
    OBVIOUS
  <2>1. PICK m \in DOMAIN queue : m # n /\ queue'[k] = queue[m]
    BY <1>9
  <2>2. queue[m].client \in Files /\ queue[m].client # f /\ pc[queue[m].client] = "memory"
    BY <1>4, <1>6, <1>10, <1>11, <2>1
  <2> QED
    BY <1>2, <2>1, <2>2
<1>13. \A j, k \in DOMAIN queue' : queue'[j].client = queue'[k].client => j = k
  BY <1>7, <1>8, <1>9, <1>10
<1> QED
  BY <1>7, <1>12, <1>13 DEF QueueInv, S

-----------------------------------------------------------------------------
(* Reading a file creates its units. *)

\* The units of a file come into being together, and no other unit changes.
LEMMA ReadUnits ==
    ASSUME UnitInv, TaskInv, NEW f \in Files, pc[f] = "read", NEW c,
           units' = [units EXCEPT ![f] = [i \in DOMAIN c |-> NewUnit(f, c[i])]],
           UNCHANGED <<dedup, objects, sessions>>
    PROVE  UnitInv'
<1>1. DOMAIN units = Files /\ DOMAIN units[f] = {}
  BY DEF UnitInv, UnitTypes, TaskInv
<1>2. /\ units'[f] = [i \in DOMAIN c |-> NewUnit(f, c[i])]
      /\ \A g \in Files : g # f => units'[g] = units[g]
  BY <1>1
<1>3. ASSUME NEW v \in UnitIds PROVE v \in UnitIds' /\ Unit(v)' = Unit(v)
  <2>1. v[1] \in Files /\ v[2] \in DOMAIN units[v[1]] /\ v = <<v[1], v[2]>>
    BY UnitIdsAre
  <2>2. v[1] # f
    BY <1>1, <2>1
  <2>3. units'[v[1]] = units[v[1]]
    BY <1>2, <2>1, <2>2
  <2>4. Unit(v)' = Unit(v)
    BY <2>3 DEF Unit
  <2>5. v \in UnitIds'
    BY <2>1, <2>3 DEF UnitIds
  <2> QED
    BY <2>4, <2>5
<1>4. ASSUME NEW v \in UnitIds', v \notin UnitIds PROVE \E b : Unit(v)' = NewUnit(f, b)
  <2>1. PICK g \in Files : \E i \in DOMAIN units'[g] : v = <<g, i>>
    BY DEF UnitIds
  <2>2. PICK i \in DOMAIN units'[g] : v = <<g, i>>
    BY <2>1
  <2>3. g = f
    BY <1>2, <1>4, <2>2 DEF UnitIds
  <2>4. i \in DOMAIN c /\ Unit(v)' = NewUnit(f, c[i])
    BY <1>2, <2>2, <2>3 DEF Unit
  <2> QED
    BY <2>4
<1>5. \A b : IsUnit(NewUnit(f, b)) /\ NewUnit(f, b).pc = "exists"
  BY Zenon DEF IsUnit, NewUnit
<1>6. ASSUME NEW v \in UnitIds'
      PROVE  /\ IsUnit(Unit(v)')
             /\ v \in UnitIds \/ Unit(v)'.pc = "exists"
  BY <1>3, <1>4, <1>5 DEF UnitInv, UnitTypes
<1>7. UnitTypes'
  <2>1. units' = [g \in Files |-> units'[g]]
    BY <1>1 DEF UnitInv, UnitTypes
  <2>2. ASSUME NEW g \in Files PROVE units'[g] = [i \in DOMAIN units'[g] |-> units'[g][i]]
    BY <1>2, Zenon DEF UnitInv, UnitTypes
  <2> QED
    BY <1>6, <2>1, <2>2 DEF UnitTypes, IsUnit
<1>8. LockInv'
  <2>1. ASSUME NEW v \in UnitIds', Busy(v)'
        PROVE  Unit(v)'.hash \in DOMAIN dedup' /\ dedup'[Unit(v)'.hash] = v
    <3>1. v \in UnitIds /\ Unit(v)' = Unit(v)
      BY <1>3, <1>6, <2>1, SMTT(30) DEF Busy
    <3> QED
      BY <2>1, <3>1 DEF UnitInv, LockInv, Busy
  <2>2. ASSUME NEW h \in DOMAIN dedup', NEW v, v = dedup'[h]
        PROVE  v \in UnitIds' /\ Unit(v)'.hash = h /\ (Busy(v)' \/ Unit(v)'.pc = "failed")
    BY <1>3, <2>2 DEF UnitInv, LockInv, Busy
  <2> QED
    BY <2>1, <2>2, Zenon DEF LockInv
<1>9. WaitInv'
  <2>1. ASSUME NEW v \in UnitIds', Unit(v)'.pc = "wait", NEW o, o = Unit(v)'.owner
        PROVE  /\ o \in UnitIds' /\ Unit(o)'.hash = Unit(v)'.hash
               /\ \/ Unit(v)'.hash \in DOMAIN dedup' /\ dedup'[Unit(v)'.hash] = o
                  \/ Finished(Unit(o)')
    <3>1. v \in UnitIds /\ Unit(v)' = Unit(v)
      BY <1>3, <1>6, <2>1
    <3>2. /\ o \in UnitIds /\ Unit(o).hash = Unit(v).hash
          /\ \/ Unit(v).hash \in DOMAIN dedup /\ dedup[Unit(v).hash] = o
             \/ Finished(Unit(o))
      BY <2>1, <3>1 DEF UnitInv, WaitInv
    <3> QED
      BY <1>3, <3>1, <3>2, Zenon
  <2> QED
    BY <2>1, Zenon DEF WaitInv, Finished
<1>10. StoredInv'
  <2>1. ASSUME NEW h, Settled(h) PROVE Settled(h)'
    BY <1>3, <2>1 DEF Settled
  <2>2. ASSUME NEW v \in UnitIds', Unit(v)'.pc = "done", NEW h, h = Unit(v)'.hash
        PROVE  Settled(h)'
    <3>1. v \in UnitIds /\ Unit(v)' = Unit(v)
      BY <1>3, <1>6, <2>2
    <3> QED
      BY <2>1, <2>2, <3>1 DEF UnitInv, StoredInv
  <2>3. ASSUME NEW v \in UnitIds', Unit(v)'.pc = "notify", ~Unit(v)'.failed
        PROVE  Unit(v)'.hash \in DOMAIN objects'
    <3>1. v \in UnitIds /\ Unit(v)' = Unit(v)
      BY <1>3, <1>6, <2>3
    <3> QED
      BY <2>3, <3>1 DEF UnitInv, StoredInv
  <2> QED
    BY <2>2, <2>3 DEF StoredInv
<1>11. SessionInv'
  <2>1. ASSUME NEW v \in UnitIds'
        PROVE  /\ Unit(v)'.pc \in {"exists", "claim", "wait", "put", "notify", "create",
                                   "parts", "complete", "abort", "done", "failed"}
               /\ Unit(v)'.pc \in {"create", "parts", "complete", "abort"} => IsMultipart(v[1])
    BY <1>3, <1>6 DEF UnitInv, SessionInv
  <2>2. ASSUME NEW v \in sessions'
        PROVE  v \in UnitIds' /\ MayBeOpen(Unit(v)')
    BY <1>3 DEF UnitInv, SessionInv, MayBeOpen
  <2> QED
    BY <2>1, <2>2 DEF SessionInv, MayBeOpen, IsMultipart, UseChunks, Size
<1> QED
  BY <1>7, <1>8, <1>9, <1>10, <1>11 DEF UnitInv

\* A file that is uploaded in parts is read as one chunk.
LEMMA OneChunk ==
    \A f \in Files : IsMultipart(f) => \A b : \A i \in DOMAIN Chunks(f, b) : i = 1
BY SMTT(30) DEF IsMultipart, Chunks

\* Reading a file and starting its uploads, or failing to, keeps the invariant.
LEMMA ReadStep ==
    ASSUME UploadInv, NEW f \in Files, pc[f] = "read",
           units' = [units EXCEPT ![f] =
               [i \in DOMAIN Chunks(f, disk[f]) |-> NewUnit(f, Chunks(f, disk[f])[i])]],
           pc' = [pc EXCEPT ![f] = "upload"],
           UNCHANGED <<dedup, objects, sessions, result, cancelled, outcome, queue>>
    PROVE  UploadInv'
<1>1. UnitInv'
  BY ReadUnits DEF UploadInv
<1>2. pc \in [Files -> {"spawned", "caches", "memory", "read", "upload", "finished"}]
  BY DEF UploadInv, TaskInv
<1>3. pc'[f] = "upload" /\ \A g \in Files : g # f => pc'[g] = pc[g]
  BY <1>2
<1>4. DOMAIN units = Files
  BY DEF UploadInv, UnitInv, UnitTypes
<1>5. /\ DOMAIN units'[f] = DOMAIN Chunks(f, disk[f])
      /\ \A g \in Files : g # f => units'[g] = units[g]
  BY <1>4, SMTT(30)
<1>6. TaskInv'
  <2>1. pc' \in [Files -> {"spawned", "caches", "memory", "read", "upload", "finished"}]
    BY <1>2, SMTT(30)
  <2>2. ASSUME NEW g \in Files
        PROVE  /\ pc'[g] \notin {"upload", "finished"} => DOMAIN units'[g] = {}
               /\ IsMultipart(g) => \A i \in DOMAIN units'[g] : i = 1
               /\ IsMultipart(g) /\ pc'[g] = "finished" =>
                     \A i \in DOMAIN units'[g] : Finished(units'[g][i])
    <3>1. CASE g = f
      BY <1>3, <1>5, <3>1, OneChunk
    <3>2. CASE g # f
      BY <1>3, <1>5, <3>2, SMTT(30) DEF UploadInv, TaskInv
    <3> QED
      BY <3>1, <3>2, SMTT(30)
  <2> QED
    BY <2>1, <2>2 DEF UploadInv, TaskInv, Finished, IsMultipart, UseChunks, Size
<1>7. ResultInv'
  <2>1. \A g \in Files : pc'[g] = "finished" => g # f /\ pc[g] = "finished"
    BY <1>3
  <2> QED
    BY <1>5, <2>1 DEF UploadInv, ResultInv
<1>8. QueueInv'
  BY <1>3, QueueWaits
<1>9. OutcomeInv'
  <2>1. \A g \in Files : pc[g] = "finished" => pc'[g] = "finished"
    BY <1>3
  <2> QED
    BY <2>1, Zenon DEF UploadInv, OutcomeInv
<1> QED
  BY <1>1, <1>6, <1>7, <1>8, <1>9, SMTT(30) DEF UploadInv

\* A task that fails returns an error.
LEMMA FailStep ==
    ASSUME UploadInv, NEW f \in Files, pc[f] \notin {"memory", "finished"}, NEW why, Fail(f, why),
           UNCHANGED <<units, dedup, objects, sessions, outcome>>,
           IsMultipart(f) => \A i \in DOMAIN units[f] : Finished(units[f][i])
    PROVE  UploadInv'
<1>1. UnitInv'
  BY UnitsWait DEF UploadInv
<1>2. PICK r : Return(f, r) /\ r.kind = "err"
  BY DEF Fail, Err
<1>3. UNCHANGED cancelled
  BY SMTT(30) DEF Fail
<1>4. TaskInv' /\ ResultInv' /\ QueueInv' /\ OutcomeInv'
  BY <1>2, <1>3, ReturnStep
<1> QED
  BY <1>1, <1>4 DEF UploadInv

\* A task that reports progress returns its result, or is cancelled by the callback.
LEMMA ProgressStep ==
    ASSUME UploadInv, NEW f \in Files, pc[f] \notin {"memory", "finished"}, NEW fr,
           UpdateProgress(f, fr), UNCHANGED <<units, dedup, objects, sessions, outcome>>,
           \A i \in DOMAIN units[f] : units[f][i].pc = "done",
           \A i \in DOMAIN fr.hashes :
              \/ fr.hashes[i] \in DOMAIN objects
              \/ \E j \in DOMAIN units[f] : units[f][j].hash = fr.hashes[i]
    PROVE  UploadInv'
<1>1. UnitInv'
  BY UnitsWait DEF UploadInv
<1>2. \A i \in DOMAIN units[f] : Finished(units[f][i])
  BY DEF Finished
<1>3. CASE Return(f, fr) /\ UNCHANGED cancelled
  <2>1. TaskInv' /\ ResultInv' /\ QueueInv' /\ OutcomeInv'
    BY <1>2, <1>3, ReturnStep, SMTT(30)
  <2> QED
    BY <1>1, <2>1, SMTT(30) DEF UploadInv
<1>4. CASE cancelled' = TRUE /\ Return(f, Err("cancelled"))
  <2>1. PICK r : Return(f, r) /\ r.kind = "err"
    BY <1>4 DEF Err
  <2>2. TaskInv' /\ ResultInv' /\ QueueInv' /\ OutcomeInv'
    BY <1>2, <1>4, <2>1, ReturnStep, Zenon
  <2> QED
    BY <1>1, <2>2, SMTT(30) DEF UploadInv
<1> QED
  BY <1>3, <1>4, Zenon DEF UpdateProgress

\* Every step of a file task keeps the invariant.
LEMMA FileInvStep ==
    ASSUME UploadInv, NEW f \in Files, FileStep(f)
    PROVE  UploadInv'
<1>0. DOMAIN units[f] = {} \/ pc[f] \in {"upload", "finished"}
  BY DEF UploadInv, TaskInv
<1>1. CASE Start(f)
  <2>1. pc[f] = "spawned" /\ UNCHANGED <<units, dedup, objects, sessions, outcome>>
    BY <1>1, SMTT(30) DEF Start, storeVars
  <2>2. CASE Fail(f, "cancelled")
    BY <1>0, <2>1, <2>2, FailStep, SMTT(30)
  <2>3. CASE pc' = [pc EXCEPT ![f] = "caches"] /\ UNCHANGED <<result, stats, cancelled, poolVars>>
    <3>1. UNCHANGED <<result, cancelled, queue>>
      BY <2>3 DEF poolVars
    <3>2. TaskInv' /\ ResultInv' /\ OutcomeInv' /\ \A g \in Files : g # f => pc'[g] = pc[g]
      BY <2>1, <2>3, <3>1, MoveOn, Zenon
    <3>3. UnitInv' /\ QueueInv'
      BY <2>1, <3>1, <3>2, UnitsWait, QueueWaits DEF UploadInv
    <3> QED
      BY <3>2, <3>3 DEF UploadInv
  <2> QED
    BY <1>1, <2>2, <2>3 DEF Start
<1>2. CASE Skip(f)
  <2>1. pc[f] = "caches" /\ UNCHANGED <<units, dedup, objects, sessions, outcome>>
    BY <1>2, SMTT(30) DEF Skip, storeVars
  <2>2. PICK fr : UpdateProgress(f, fr) /\ fr.hashes = hashCache[f]
    BY <1>2 DEF Skip
  <2>3. \A i \in DOMAIN fr.hashes : fr.hashes[i] \in DOMAIN objects
    BY <1>2, <2>2, Zenon DEF Skip, Present
  <2> QED
    BY <1>0, <2>1, <2>2, <2>3, ProgressStep, ZenonT(30)
<1>3. CASE AskMemory(f)
  <2>1. /\ pc[f] = "caches" /\ pc' = [pc EXCEPT ![f] = "memory"] /\ Request(f, Size(f))
        /\ UNCHANGED <<units, dedup, objects, sessions, outcome, result, cancelled>>
    BY <1>3 DEF AskMemory, storeVars
  <2>2. TaskInv' /\ ResultInv' /\ OutcomeInv'
    BY <2>1, MoveOn, Zenon
  <2>3. UnitInv' /\ QueueInv'
    BY <2>1, UnitsWait, AskStep, Zenon DEF UploadInv
  <2> QED
    BY <2>2, <2>3 DEF UploadInv
<1>4. CASE GetMemory(f)
  <2>1. /\ pc[f] = "memory" /\ pc' = [pc EXCEPT ![f] = "read"] /\ Grant(f)
        /\ UNCHANGED <<units, dedup, objects, sessions, outcome, result, cancelled>>
    BY <1>4 DEF GetMemory, storeVars
  <2>2. TaskInv' /\ ResultInv' /\ OutcomeInv'
    BY <2>1, MoveOn, Zenon
  <2>3. UnitInv' /\ QueueInv'
    BY <2>1, UnitsWait, GetStep, Zenon DEF UploadInv
  <2> QED
    BY <2>2, <2>3 DEF UploadInv
<1>5. CASE Read(f)
  <2>1. pc[f] = "read" /\ UNCHANGED <<dedup, objects, sessions, outcome>>
    BY <1>5 DEF Read, storeVars
  <2>2. CASE /\ units' = [units EXCEPT ![f] =
                    [i \in DOMAIN Chunks(f, disk[f]) |-> NewUnit(f, Chunks(f, disk[f])[i])]]
             /\ pc' = [pc EXCEPT ![f] = "upload"]
             /\ UNCHANGED <<result, stats, cancelled, poolVars>>
    <3>1. UNCHANGED <<result, cancelled, queue>>
      BY <2>2 DEF poolVars
    <3> QED
      BY <2>1, <2>2, <3>1, ReadStep, Zenon
  <2>3. CASE Fail(f, "io") /\ UNCHANGED units
    BY <1>0, <2>1, <2>3, FailStep, Zenon
  <2> QED
    BY <1>5, <2>2, <2>3 DEF Read
<1>6. CASE JoinFailed(f)
  <2>1. /\ pc[f] = "upload" /\ UNCHANGED <<units, dedup, objects, sessions, outcome>>
        /\ Fail(f, "io")
    BY <1>6 DEF JoinFailed, storeVars
  <2>2. PICK i \in DOMAIN units[f] : units[f][i].pc = "failed"
    BY <1>6 DEF JoinFailed
  <2>3. IsMultipart(f) => \A j \in DOMAIN units[f] : Finished(units[f][j])
    BY <2>2, SMTT(30) DEF UploadInv, TaskInv, Finished
  <2> QED
    BY <2>1, <2>3, FailStep, Zenon
<1>7. CASE JoinAll(f)
  <2>1. /\ pc[f] = "upload" /\ UNCHANGED <<units, dedup, objects, sessions, outcome>>
        /\ \A i \in DOMAIN units[f] : units[f][i].pc = "done"
    BY <1>7, Zenon DEF JoinAll, storeVars
  <2>2. PICK fr : /\ UpdateProgress(f, fr)
                  /\ fr.hashes = [i \in DOMAIN units[f] |-> units[f][i].hash]
    <3>1. PICK kind, uploaded, bytes :
            UpdateProgress(f, [kind     |-> kind,
                               hashes   |-> [i \in DOMAIN units[f] |-> units[f][i].hash],
                               uploaded |-> uploaded,
                               bytes    |-> bytes])
      BY <1>7, Zenon DEF JoinAll
    <3> QED
      BY <3>1
  <2>3. \A i \in DOMAIN fr.hashes : \E j \in DOMAIN units[f] : units[f][j].hash = fr.hashes[i]
    BY <2>2
  <2> QED
    BY <2>1, <2>2, <2>3, ProgressStep
<1> QED
  BY <1>1, <1>2, <1>3, <1>4, <1>5, <1>6, <1>7, SMTT(30) DEF FileStep

\* The main task applies the results once every task has returned.
LEMMA ApplyStep == UploadInv /\ Apply => UploadInv'
<1> SUFFICES ASSUME UploadInv, Apply PROVE UploadInv'
  OBVIOUS
<1>1. UNCHANGED <<pc, result, cancelled, queue, units, dedup, objects, sessions>>
  BY DEF Apply, taskVars, storeVars, poolVars
<1>2. UnitInv'
  BY <1>1, UnitsWait, SMTT(30) DEF UploadInv
<1>3. TaskInv' /\ ResultInv' /\ QueueInv'
  BY <1>1, SMTT(30) DEF UploadInv, TaskInv, ResultInv, QueueInv, Finished
<1>4. \A f \in Files : pc[f] = "finished"
  BY DEF Apply
<1>5. outcome' = "err" \/ (outcome' = "ok" /\ \A f \in Files : result[f].kind # "err")
  <2>1. \A f \in Files : f \in 1..f
    BY UploadAssumption, LenProperties DEF Files
  <2> QED
    BY <2>1 DEF Apply
<1>6. OutcomeInv'
  <2>1. cancelled \in BOOLEAN /\ (cancelled => \E f \in Files : pc[f] = "finished" /\ result[f].kind = "err")
    BY Zenon DEF UploadInv, OutcomeInv
  <2> QED
    BY <1>1, <1>4, <1>5, <2>1, Zenon DEF OutcomeInv
<1> QED
  BY <1>2, <1>3, <1>6 DEF UploadInv

\* The operation starts in the invariant.
LEMMA UploadInit == Init => UploadInv
<1> SUFFICES ASSUME Init PROVE UploadInv
  OBVIOUS
<1>1. \A f \in Files : units[f] = <<>> /\ DOMAIN units[f] = {}
  BY DEF Init
<1>2. UnitIds = {}
  BY <1>1 DEF UnitIds
<1>3. UnitInv
  <2>1. UnitTypes
    BY <1>1, <1>2 DEF Init, UnitTypes
  <2>2. LockInv /\ WaitInv /\ StoredInv /\ SessionInv
    <3>1. dedup = <<>> /\ sessions = {}
      BY Zenon DEF Init
    <3>2. DOMAIN dedup = {} /\ \A u \in UnitIds : FALSE
      BY <1>2, <3>1, SMTT(30)
    <3> QED
      BY <3>1, <3>2, Zenon DEF LockInv, WaitInv, StoredInv, SessionInv
  <2> QED
    BY <2>1, <2>2 DEF UnitInv
<1>4. TaskInv /\ ResultInv
  BY <1>1, SMTT(30) DEF Init, TaskInv, ResultInv
<1>5. QueueInv
  BY DEF Init, PoolInit, QueueInv
<1>6. OutcomeInv
  BY Zenon DEF Init, OutcomeInv
<1> QED
  BY <1>3, <1>4, <1>5, <1>6 DEF UploadInv

\* Every step, and every stutter, keeps the invariant.
LEMMA UploadStep == UploadInv /\ [Next]_vars => UploadInv'
<1> SUFFICES ASSUME UploadInv, [Next]_vars PROVE UploadInv'
  OBVIOUS
<1>1. ASSUME NEW f \in Files, FileStep(f) PROVE UploadInv'
  BY <1>1, FileInvStep
<1>2. ASSUME NEW u \in UnitIds, UnitStep(u) PROVE UploadInv'
  <2>1. UnitInv' /\ Grows /\ Kept
    BY <1>2, UnitInvStep DEF UploadInv
  <2> QED
    BY <1>2, <2>1, TasksWait DEF UploadInv
<1>3. CASE Apply
  BY <1>3, ApplyStep
<1>4. CASE (\E f \in Files : Edit(f)) \/ Terminated \/ UNCHANGED vars
  <2>1. UNCHANGED <<pc, result, cancelled, outcome, queue, units, dedup, objects, sessions>>
    BY <1>4, Zenon DEF Edit, Terminated, vars, taskVars, storeVars, poolVars
  <2>2. UnitInv'
    BY <2>1, UnitsWait, SMTT(30) DEF UploadInv
  <2>3. TaskInv' /\ ResultInv' /\ QueueInv'
    BY <2>1 DEF UploadInv, TaskInv, ResultInv, QueueInv, Finished
  <2>4. OutcomeInv'
    BY <2>1, Zenon DEF UploadInv, OutcomeInv
  <2> QED
    BY <2>2, <2>3, <2>4 DEF UploadInv
<1> QED
  BY <1>1, <1>2, <1>3, <1>4 DEF Next

\* What the invariant says of a return, and of two units with one hash.
LEMMA InvIsSound == UploadInv => UploadIsSound
<1> SUFFICES ASSUME UploadInv PROVE UploadIsSound
  OBVIOUS
<1> USE DEF UploadInv, UnitInv
<1>1. TypeOK
  <2>1. /\ pc \in [Files -> {"spawned", "caches", "memory", "read", "upload", "finished"}]
        /\ outcome \in {"none", "ok", "err"}
    BY DEF TaskInv, OutcomeInv
  <2>2. cancelled \in BOOLEAN
    BY Zenon DEF OutcomeInv
  <2>3. \A u \in UnitIds :
          /\ Unit(u).pc \in {"exists", "claim", "wait", "put", "notify", "create",
                             "parts", "complete", "abort", "done", "failed"}
          /\ Unit(u).pc = "wait" => Unit(u).owner \in UnitIds
    BY SMTT(30) DEF SessionInv, WaitInv
  <2>4. /\ sessions \subseteq UnitIds
        /\ \A h \in DOMAIN dedup : dedup[h] \in UnitIds /\ Unit(dedup[h]).hash = h
    BY DEF SessionInv, LockInv
  <2> QED
    BY <2>1, <2>2, <2>3, <2>4, Zenon DEF TypeOK
<1>2. SoleUploader
  BY DEF SoleUploader, LockInv, Busy
<1>3. ASSUME outcome = "ok" PROVE \A u \in UnitIds : Unit(u).pc = "done"
  <2>1. \A f \in Files : pc[f] = "finished" /\ result[f].kind # "err"
    BY <1>3 DEF OutcomeInv
  <2>2. \A f \in Files : \A i \in DOMAIN units[f] : units[f][i].pc = "done"
    BY <2>1 DEF ResultInv
  <2> QED
    BY <2>2, UnitIdsAre DEF Unit
<1>4. OkMeansStored
  <2> SUFFICES ASSUME outcome = "ok", NEW f \in Files, NEW i \in DOMAIN result[f].hashes
               PROVE  result[f].hashes[i] \in DOMAIN objects
    BY DEF OkMeansStored
  <2>1. pc[f] = "finished" /\ result[f].kind # "err"
    BY DEF OutcomeInv
  <2>2. \/ result[f].hashes[i] \in DOMAIN objects
        \/ \E j \in DOMAIN units[f] : units[f][j].hash = result[f].hashes[i]
    BY <2>1 DEF ResultInv
  <2>3. ASSUME NEW j \in DOMAIN units[f], units[f][j].hash = result[f].hashes[i]
        PROVE  result[f].hashes[i] \in DOMAIN objects
    <3>1. <<f, j>> \in UnitIds /\ Unit(<<f, j>>).hash = result[f].hashes[i]
      BY <2>3, UnitIdsAre, UnitOf
    <3>2. Settled(result[f].hashes[i])
      BY <1>3, <3>1 DEF StoredInv
    <3> QED
      BY <1>3, <3>2 DEF Settled
  <2> QED
    BY <2>2, <2>3, SMTT(30)
<1>5. OkIsQuiescent
  <2> SUFFICES ASSUME outcome = "ok"
               PROVE  DOMAIN dedup = {} /\ sessions = {} /\ queue = <<>>
    BY <1>3 DEF OkIsQuiescent
  <2>1. DOMAIN dedup = {} /\ sessions = {}
    BY <1>3, Zenon DEF LockInv, SessionInv, MayBeOpen, Busy
  <2>2. queue \in Seq([client : Files, permits : Int])
    BY DEF QueueInv
  <2>3. \A f \in Files : pc[f] = "finished"
    BY DEF OutcomeInv
  <2>4. ASSUME NEW i \in DOMAIN queue PROVE FALSE
    <3>1. queue[i] \in [client : Files, permits : Int]
      BY <2>2, ElementOfSeq, LenProperties, Zenon
    <3> QED
      BY <2>3, <3>1 DEF QueueInv
  <2>5. queue = <<>>
    <3>1. Len(queue) \in Nat /\ DOMAIN queue = 1..Len(queue)
      BY <2>2, LenProperties
    <3>2. Len(queue) = 0
      BY <2>4, <3>1
    <3> QED
      BY <2>2, <3>2, EmptySeq
  <2> QED
    BY <2>1, <2>5
<1>6. CancelIsReported
  BY Zenon DEF CancelIsReported, OutcomeInv
<1>7. SessionsClosed
  <2> SUFFICES ASSUME outcome # "none", NEW u \in sessions
               PROVE  Unit(u).lost /\ outcome = "err"
    BY Zenon DEF SessionsClosed
  <2>1. u \in UnitIds /\ MayBeOpen(Unit(u))
    BY DEF SessionInv
  <2>2. ASSUME Unit(u).pc \in {"parts", "complete", "abort"} PROVE FALSE
    <3>1. IsMultipart(u[1])
      BY <2>1, <2>2 DEF SessionInv
    <3>2. u[1] \in Files /\ u[2] \in DOMAIN units[u[1]] /\ Unit(u) = units[u[1]][u[2]]
      BY <2>1, UnitIdsAre DEF Unit
    <3>3. Finished(Unit(u))
      BY <3>1, <3>2 DEF OutcomeInv, TaskInv
    <3> QED
      BY <2>2, <3>3 DEF Finished
  <2>3. Unit(u).lost
    BY <2>1, <2>2, Zenon DEF MayBeOpen
  <2>4. outcome # "ok"
    BY <1>3, <2>1 DEF MayBeOpen
  <2>5. outcome = "err"
    BY <2>4 DEF OutcomeInv
  <2> QED
    BY <2>3, <2>5
<1> QED
  BY <1>1, <1>2, <1>4, <1>5, <1>6, <1>7 DEF UploadIsSound

\* The invariant holds in every state of HASH_UPLOAD.
THEOREM UploadInvHolds == Spec => []UploadInv
<1> QED
  BY UploadInit, UploadStep, PTL DEF Spec

\* Whatever the manifest, the sizes and the calls that fail: a hash is uploaded by
\* one task at a time; an Ok return means that every hash of the manifest is
\* stored and that nothing is left running, open or queued; a cancellation is
\* never returned as Ok; and a multipart upload is still open after the return
\* only when its abort call failed, and then the return is an error.
THEOREM UploadIsAlwaysSound == Spec => []UploadIsSound
<1> QED
  BY UploadInvHolds, InvIsSound, PTL
=============================================================================
