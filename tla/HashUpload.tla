----------------------------- MODULE HashUpload -----------------------------
(***************************************************************************)
(* HASH_UPLOAD (ops/hash_upload.rs): every regular file of a manifest is   *)
(* hashed and its content stored in a content-addressed data cache.  One   *)
(* task per file runs under a worker semaphore and the memory pool; a      *)
(* chunked file spawns one upload task per chunk; tasks that meet the same *)
(* hash share a single upload through the dedup map.  The main task joins  *)
(* the file tasks and applies their results in order.                      *)
(***************************************************************************)
EXTENDS Integers, Sequences, FiniteSets, MemoryPool

CONSTANTS Contents,        \* the manifest's files: one byte sequence each
          Versions,        \* what an editor may write over a file meanwhile
          MaxEdits,        \* bound on the files edited
          ChunkSize,       \* file_chunk_size_bytes; 0 hashes whole files
          PartSize,        \* multipart_part_size() of the data cache
          MultipartCache,  \* as_multipart() is Some
          MaxWorkers,      \* permits of the worker semaphore
          HashCached,      \* files with a fresh entry in the hash cache
          Stored,          \* contents the data cache holds beforehand
          Faults           \* the calls that may fail in this instance

VARIABLES disk,       \* content of each file now
          edits,      \* the files an editor has overwritten
          pc,         \* where each file task is
          units,      \* the uploads of each file, one per chunk
          dedup,      \* UploadDedup: the upload that owns a hash
          objects,    \* the data cache: hash |-> stored bytes
          sessions,   \* multipart uploads created and not yet closed
          hashCache,  \* entries for the manifest's path and mtime
          stats,      \* UploadStatistics, the byte counts
          cancelled,  \* the AtomicBool
          result,     \* what each file task returned
          outcome     \* what hash_upload_manifest returned

taskVars  == <<pc, result, stats, cancelled>>
storeVars == <<dedup, objects, sessions>>
vars == <<disk, edits, units, hashCache, outcome, taskVars, storeVars, poolVars>>

Files == DOMAIN Contents

ASSUME UploadAssumption ==
    /\ Contents \in Seq(Seq(STRING)) /\ Clients = Files
    /\ ChunkSize \in Nat /\ PartSize \in Nat \ {0} /\ MaxWorkers \in Nat \ {0}
    /\ Faults \subseteq {"read", "exists", "put", "create", "part", "complete",
                         "abort", "callback"}

-----------------------------------------------------------------------------
(* Hashing.  xxh128 is taken to be free of collisions. *)
hash_data(bytes) == [xxh128 |-> bytes]

Size(f) == Len(Contents[f])

UseChunks(f) == ChunkSize > 0 /\ Size(f) > ChunkSize

IsMultipart(f) ==
    /\ ~UseChunks(f)
    /\ Size(f) >= 2 * PartSize
    /\ MultipartCache

Pieces(bytes, n) ==
    LET count == (Len(bytes) + n - 1) \div n
    IN  [i \in 1..count |->
            SubSeq(bytes, (i - 1) * n + 1,
                   IF i * n < Len(bytes) THEN i * n ELSE Len(bytes))]

(* What a file task reads: the whole file, or its chunks (one empty chunk  *)
(* for an empty file).                                                     *)
Chunks(f, bytes) ==
    IF UseChunks(f)
    THEN IF bytes = <<>> THEN <<bytes>> ELSE Pieces(bytes, ChunkSize)
    ELSE <<bytes>>

NewUnit(f, bytes) ==
    [hash     |-> hash_data(bytes),
     data     |-> IF IsMultipart(f) THEN <<>> ELSE bytes,
     pc       |-> "exists",
     owner    |-> <<>>,
     parts    |-> <<>>,
     failed   |-> FALSE,
     lost     |-> FALSE,   \* history: its AbortMultipartUpload failed
     uploaded |-> FALSE]

NoPart == [state |-> "none", bytes |-> <<>>]

Err(why) == [kind |-> "err", why |-> why, hashes |-> <<>>]

Init ==
    /\ disk = Contents
    /\ edits = {}
    /\ pc = [f \in Files |-> "spawned"]
    /\ units = [f \in Files |-> <<>>]
    /\ dedup = <<>>
    /\ objects = [h \in {hash_data(b) : b \in Stored} |-> h.xxh128]
    /\ sessions = {}
    /\ hashCache = [f \in HashCached |->
                       [i \in DOMAIN Chunks(f, Contents[f]) |->
                           hash_data(Chunks(f, Contents[f])[i])]]
    /\ stats = [hashed |-> 0, uploaded |-> 0, skipped |-> 0]
    /\ cancelled = FALSE
    /\ result = [f \in Files |-> <<>>]
    /\ outcome = "none"
    /\ PoolInit

TotalBytes == SumFunction([f \in Files |-> Size(f)])

-----------------------------------------------------------------------------
(* The file tasks. *)

Working(f) == pc[f] \notin {"spawned", "finished"}

(* The task returns: its worker permit and its memory permit are dropped.  *)
Return(f, r) ==
    /\ pc' = [pc EXCEPT ![f] = "finished"]
    /\ result' = [result EXCEPT ![f] = r]
    /\ Release(f)

Fail(f, why) ==
    /\ Return(f, Err(why))
    /\ UNCHANGED <<stats, cancelled>>

(* update_progress: the counters, then the callback, which may cancel.     *)
UpdateProgress(f, fr) ==
    /\ stats' = [stats EXCEPT
           !.hashed   = @ + IF fr.kind = "skipped" THEN 0 ELSE fr.bytes,
           !.uploaded = @ + IF fr.kind = "whole" /\ fr.uploaded THEN fr.bytes ELSE 0,
           !.skipped  = @ + IF \/ fr.kind = "skipped"
                               \/ fr.kind = "whole" /\ ~fr.uploaded
                            THEN fr.bytes ELSE 0]
    /\ \/ Return(f, fr) /\ UNCHANGED cancelled
       \/ /\ "callback" \in Faults
          /\ cancelled' = TRUE
          /\ Return(f, Err("cancelled"))

Start(f) ==
    /\ pc[f] = "spawned"
    /\ Cardinality({g \in Files : Working(g)}) < MaxWorkers
    /\ IF cancelled
       THEN Fail(f, "cancelled")
       ELSE pc' = [pc EXCEPT ![f] = "caches"] /\ UNCHANGED <<result, stats, cancelled, poolVars>>
    /\ UNCHANGED <<disk, edits, units, hashCache, outcome, storeVars>>

(* object_exists(..).unwrap_or(false): an error counts as absent.          *)
Present(h) == h \in DOMAIN objects

Absent(h) == "exists" \in Faults \/ h \notin DOMAIN objects

(* Steps 1 and 2: a fresh hash whose objects all exist skips the file.     *)
Skip(f) ==
    /\ pc[f] = "caches"
    /\ f \in DOMAIN hashCache
    /\ \A i \in DOMAIN hashCache[f] : Present(hashCache[f][i])
    /\ UpdateProgress(f, [kind |-> "skipped", hashes |-> hashCache[f],
                          uploaded |-> FALSE, bytes |-> Size(f)])
    /\ UNCHANGED <<disk, edits, units, hashCache, outcome, storeVars>>

AskMemory(f) ==
    /\ pc[f] = "caches"
    /\ f \in DOMAIN hashCache => \E i \in DOMAIN hashCache[f] : Absent(hashCache[f][i])
    /\ Request(f, Size(f))
    /\ pc' = [pc EXCEPT ![f] = "memory"]
    /\ UNCHANGED <<disk, edits, units, hashCache, outcome, storeVars, result, stats, cancelled>>

GetMemory(f) ==
    /\ pc[f] = "memory"
    /\ Grant(f)
    /\ pc' = [pc EXCEPT ![f] = "read"]
    /\ UNCHANGED <<disk, edits, units, hashCache, outcome, storeVars, result, stats, cancelled>>

(* Stage 1 in a blocking thread: read and hash; then the uploads start.    *)
Read(f) ==
    /\ pc[f] = "read"
    /\ \/ /\ units' = [units EXCEPT ![f] =
                 [i \in DOMAIN Chunks(f, disk[f]) |-> NewUnit(f, Chunks(f, disk[f])[i])]]
          /\ pc' = [pc EXCEPT ![f] = "upload"]
          /\ UNCHANGED <<result, stats, cancelled, poolVars>>
       \/ "read" \in Faults /\ Fail(f, "io") /\ UNCHANGED units
    /\ UNCHANGED <<disk, edits, hashCache, outcome, storeVars>>

Finished(unit) == unit.pc \in {"done", "failed"}

(* The uploads are joined in order.  The first failure ends the file task; *)
(* the uploads behind it are detached and run on.                          *)
JoinFailed(f) ==
    /\ pc[f] = "upload"
    /\ \E i \in DOMAIN units[f] :
          /\ units[f][i].pc = "failed"
          /\ \A j \in 1..(i - 1) : units[f][j].pc = "done"
    /\ Fail(f, "io")
    /\ UNCHANGED <<disk, edits, units, hashCache, outcome, storeVars>>

JoinAll(f) ==
    /\ pc[f] = "upload"
    /\ \A i \in DOMAIN units[f] : units[f][i].pc = "done"
    /\ UpdateProgress(f,
          [kind     |-> IF UseChunks(f) THEN "chunked" ELSE "whole",
           hashes   |-> [i \in DOMAIN units[f] |-> units[f][i].hash],
           uploaded |-> \E i \in DOMAIN units[f] : units[f][i].uploaded,
           bytes    |-> IF UseChunks(f)
                        THEN SumFunction([i \in DOMAIN units[f] |->
                                             Len(units[f][i].hash.xxh128)])
                        ELSE Size(f)])
    /\ UNCHANGED <<disk, edits, units, hashCache, outcome, storeVars>>

-----------------------------------------------------------------------------
(* The uploads: dedup_upload, and process_whole_multipart after its hash.  *)

Unit(u) == units[u[1]][u[2]]

UnitIds == UNION {{<<f, i>> : i \in DOMAIN units[f]} : f \in Files}

Become(u, unit) == units' = [units EXCEPT ![u[1]][u[2]] = unit]

fileVars == <<disk, edits, hashCache, outcome, taskVars, poolVars>>

(* The fast path, before the dedup map is consulted. *)
CheckExists(u) ==
    /\ Unit(u).pc = "exists"
    /\ \/ Present(Unit(u).hash) /\ Become(u, [Unit(u) EXCEPT !.pc = "done"])
       \/ Absent(Unit(u).hash) /\ Become(u, [Unit(u) EXCEPT !.pc = "claim"])
    /\ UNCHANGED <<fileVars, storeVars>>

(* Under the map's lock: subscribe to the upload in progress or become it. *)
Claim(u) ==
    /\ Unit(u).pc = "claim"
    /\ IF Unit(u).hash \in DOMAIN dedup
       THEN /\ Become(u, [Unit(u) EXCEPT !.pc = "wait",
                                         !.owner = dedup[Unit(u).hash]])
            /\ UNCHANGED dedup
       ELSE /\ Become(u, [Unit(u) EXCEPT !.pc = IF IsMultipart(u[1])
                                                THEN "create" ELSE "put"])
            /\ dedup' = [h \in DOMAIN dedup \cup {Unit(u).hash} |->
                            IF h = Unit(u).hash THEN u ELSE dedup[h]]
    /\ UNCHANGED <<fileVars, objects, sessions>>

(* rx.recv() returns once the owner has taken its sender out of the map,   *)
(* whatever became of the upload.                                          *)
Wake(u) ==
    /\ Unit(u).pc = "wait"
    /\ Unit(u).hash \in DOMAIN dedup => dedup[Unit(u).hash] # Unit(u).owner
    /\ Become(u, [Unit(u) EXCEPT !.pc = "done"])
    /\ UNCHANGED <<fileVars, storeVars>>

Store(h, bytes) ==
    objects' = [k \in DOMAIN objects \cup {h} |-> IF k = h THEN bytes ELSE objects[k]]

(* Mutant: the bytes are read again when they are stored. *)
PutRereads(u) ==
    /\ Unit(u).pc = "put"
    /\ u[2] \in DOMAIN Chunks(u[1], disk[u[1]])
    /\ Store(Unit(u).hash, Chunks(u[1], disk[u[1]])[u[2]])
    /\ Become(u, [Unit(u) EXCEPT !.pc = "notify"])
    /\ UNCHANGED <<fileVars, dedup, sessions>>

PutObject(u) ==
    /\ Unit(u).pc = "put"
    /\ \/ /\ Store(Unit(u).hash, Unit(u).data)
          /\ Become(u, [Unit(u) EXCEPT !.pc = "notify"])
       \/ /\ "put" \in Faults
          /\ Become(u, [Unit(u) EXCEPT !.pc = "notify", !.failed = TRUE])
          /\ UNCHANGED objects
    /\ UNCHANGED <<fileVars, dedup, sessions>>

(* Mutant: a failed upload returns before it notifies. *)
NotifyOnSuccess(u) ==
    /\ Unit(u).pc = "notify"
    /\ dedup' = IF Unit(u).failed THEN dedup
                ELSE [h \in DOMAIN dedup \ {Unit(u).hash} |-> dedup[h]]
    /\ Become(u, [Unit(u) EXCEPT !.pc = IF Unit(u).failed THEN "failed" ELSE "done"])
    /\ UNCHANGED <<fileVars, objects, sessions>>

(* The owner removes its entry, which wakes the waiters, and returns.      *)
Notify(u) ==
    /\ Unit(u).pc = "notify"
    /\ dedup' = [h \in DOMAIN dedup \ {Unit(u).hash} |-> dedup[h]]
    /\ Become(u, [Unit(u) EXCEPT !.pc = IF Unit(u).failed THEN "failed" ELSE "done",
                                 !.uploaded = ~Unit(u).failed])
    /\ UNCHANGED <<fileVars, objects, sessions>>

(* The error of create_multipart_upload returns at once.                   *)
CreateMultipart(u) ==
    /\ Unit(u).pc = "create"
    /\ \/ /\ sessions' = sessions \cup {u}
          /\ Become(u, [Unit(u) EXCEPT
                 !.pc = "parts",
                 !.parts = [p \in DOMAIN Pieces(Contents[u[1]], PartSize) |-> NoPart]])
       \/ /\ "create" \in Faults
          /\ Become(u, [Unit(u) EXCEPT !.pc = "failed"])
          /\ UNCHANGED sessions
    /\ UNCHANGED <<fileVars, dedup, objects>>

(* One part task: it opens the file again, reads its range with            *)
(* read_exact and uploads what it read.                                    *)
UploadPart(u, p) ==
    /\ Unit(u).pc = "parts"
    /\ Unit(u).parts[p] = NoPart
    /\ LET first == (p - 1) * PartSize + 1
           last  == IF p * PartSize < Size(u[1]) THEN p * PartSize ELSE Size(u[1])
       IN  \/ /\ last <= Len(disk[u[1]])
              /\ Become(u, [Unit(u) EXCEPT !.parts[p] =
                     [state |-> "sent", bytes |-> SubSeq(disk[u[1]], first, last)]])
           \/ /\ last > Len(disk[u[1]]) \/ "part" \in Faults
              /\ Become(u, [Unit(u) EXCEPT !.parts[p] = [state |-> "error", bytes |-> <<>>]])
    /\ UNCHANGED <<fileVars, storeVars>>

(* The parts are joined in order; the first error aborts the upload.       *)
JoinParts(u) ==
    LET parts == Unit(u).parts
    IN  /\ Unit(u).pc = "parts"
        /\ \/ /\ \A p \in DOMAIN parts : parts[p].state = "sent"
              /\ Become(u, [Unit(u) EXCEPT !.pc = "complete"])
           \/ /\ \E p \in DOMAIN parts :
                    /\ parts[p].state = "error"
                    /\ \A q \in 1..(p - 1) : parts[q] # NoPart
              /\ Become(u, [Unit(u) EXCEPT !.pc = "abort"])
        /\ UNCHANGED <<fileVars, storeVars>>

(* What the service makes of the parts.                                    *)
Joined(parts) ==
    LET upTo[p \in 0..Len(parts)] == IF p = 0 THEN <<>> ELSE upTo[p - 1] \o parts[p].bytes
    IN  upTo[Len(parts)]

CompleteMultipart(u) ==
    /\ Unit(u).pc = "complete"
    /\ \/ /\ Store(Unit(u).hash, Joined(Unit(u).parts))
          /\ sessions' = sessions \ {u}
          /\ Become(u, [Unit(u) EXCEPT !.pc = "notify"])
       \/ /\ "complete" \in Faults
          /\ Become(u, [Unit(u) EXCEPT !.pc = "abort"])
          /\ UNCHANGED <<objects, sessions>>
    /\ UNCHANGED <<fileVars, dedup>>

(* Mutant: the upload is given up without an abort. *)
AbortForgotten(u) ==
    /\ Unit(u).pc = "abort"
    /\ Become(u, [Unit(u) EXCEPT !.pc = "notify", !.failed = TRUE, !.parts = <<>>])
    /\ UNCHANGED <<fileVars, storeVars>>

(* The error drops the handles and the etags of the parts; a part task     *)
(* that was not joined runs on.  An abort that fails is ignored, and the   *)
(* service keeps the session.                                              *)
AbortMultipart(u) ==
    /\ Unit(u).pc = "abort"
    /\ \/ /\ sessions' = sessions \ {u}
          /\ Become(u, [Unit(u) EXCEPT !.pc = "notify", !.failed = TRUE, !.parts = <<>>])
       \/ /\ "abort" \in Faults
          /\ Become(u, [Unit(u) EXCEPT !.pc = "notify", !.failed = TRUE, !.parts = <<>>,
                                       !.lost = TRUE])
          /\ UNCHANGED sessions
    /\ UNCHANGED <<fileVars, dedup, objects>>

-----------------------------------------------------------------------------
(* The main task, once every file task is joined: results are applied in   *)
(* order and the first error ends the operation, after the hash cache      *)
(* entries of the files before it were written.                            *)
Apply ==
    /\ outcome = "none"
    /\ \A f \in Files : pc[f] = "finished"
    /\ LET applied == {f \in Files : \A g \in 1..f : result[g].kind # "err"}
           written == {f \in applied : result[f].kind # "skipped"}
       IN  /\ hashCache' = [f \in DOMAIN hashCache \cup written |->
                               IF f \in written THEN result[f].hashes ELSE hashCache[f]]
           /\ outcome' = IF applied = Files THEN "ok" ELSE "err"
    /\ UNCHANGED <<disk, edits, units, taskVars, storeVars, poolVars>>

(* Another program overwrites a file while it is being uploaded.           *)
Edit(f) ==
    /\ Cardinality(edits) < MaxEdits /\ f \notin edits
    /\ outcome = "none"
    /\ edits' = edits \cup {f}
    /\ \E v \in Versions : v # disk[f] /\ disk' = [disk EXCEPT ![f] = v]
    /\ UNCHANGED <<units, hashCache, outcome, taskVars, storeVars, poolVars>>

Terminated ==
    /\ outcome # "none"
    /\ \A u \in UnitIds : Finished(Unit(u))
    /\ UNCHANGED vars

FileStep(f) ==
    \/ Start(f) \/ Skip(f) \/ AskMemory(f) \/ GetMemory(f) \/ Read(f)
    \/ JoinFailed(f) \/ JoinAll(f)

UnitStep(u) ==
    \/ CheckExists(u) \/ Claim(u) \/ Wake(u) \/ PutObject(u) \/ Notify(u)
    \/ CreateMultipart(u) \/ JoinParts(u) \/ CompleteMultipart(u) \/ AbortMultipart(u)
    \/ \E p \in DOMAIN Unit(u).parts : UploadPart(u, p)

Next ==
    \/ \E f \in Files : FileStep(f) \/ Edit(f)
    \/ \E u \in UnitIds : UnitStep(u)
    \/ Apply
    \/ Terminated

Spec == Init /\ [][Next]_vars

(* The units that Read may make of f, whatever the disk holds.             *)
MayHoldUnits(f) == UNION {DOMAIN Chunks(f, b) : b \in {Contents[f]} \cup Versions}

(* The runtime polls every ready task and every remote call returns, with  *)
(* a result or an error.                                                   *)
Fairness ==
    /\ \A f \in Files : WF_vars(FileStep(f))
    /\ \A f \in Files : \A i \in MayHoldUnits(f) :
          WF_vars(i \in DOMAIN units[f] /\ UnitStep(<<f, i>>))
    /\ WF_vars(Apply)

FairSpec == Spec /\ Fairness

-----------------------------------------------------------------------------
(* Type invariant of the state of hash_upload_manifest and its tasks.      *)
TypeOK ==
    /\ pc \in [Files -> {"spawned", "caches", "memory", "read", "upload", "finished"}]
    /\ \A u \in UnitIds :
          /\ Unit(u).pc \in {"exists", "claim", "wait", "put", "notify", "create",
                             "parts", "complete", "abort", "done", "failed"}
          /\ Unit(u).pc = "wait" => Unit(u).owner \in UnitIds
    /\ sessions \subseteq UnitIds
    /\ \A h \in DOMAIN dedup : dedup[h] \in UnitIds /\ Unit(dedup[h]).hash = h
    /\ cancelled \in BOOLEAN
    /\ outcome \in {"none", "ok", "err"}

(* Two tasks never upload the same hash at the same time: the dedup map    *)
(* (dedup_upload, process_whole_multipart) is a lock per hash.             *)
SoleUploader ==
    LET busy == {u \in UnitIds : Unit(u).pc \in {"put", "create", "parts", "complete", "abort"}}
    IN  \A u, v \in busy : Unit(u).hash = Unit(v).hash => u = v

(* When HASH_UPLOAD returns Ok, every hash of the manifest it returns      *)
(* names an object of the data cache, also the hashes of tasks that only   *)
(* waited for another task's upload or skipped the file.                   *)
OkMeansStored ==
    outcome = "ok" =>
        \A f \in Files : \A i \in DOMAIN result[f].hashes :
            result[f].hashes[i] \in DOMAIN objects

(* An object's bytes hash to its key, even when files are overwritten      *)
(* during the operation; only an overwritten file that is uploaded in      *)
(* parts, which are read again, may break this.                            *)
ContentAddressed ==
    \A h \in DOMAIN objects :
        objects[h] = h.xxh128 \/ \E f \in edits : IsMultipart(f)

(* An Ok return leaves nothing running: no upload task, no dedup entry, no *)
(* open multipart upload, no request for memory.                           *)
OkIsQuiescent ==
    outcome = "ok" =>
        /\ \A u \in UnitIds : Unit(u).pc = "done"
        /\ DOMAIN dedup = {}
        /\ sessions = {}
        /\ queue = <<>>

(* An operation whose callback asked to cancel never returns Ok, even when *)
(* the other tasks complete.                                               *)
CancelIsReported == outcome = "ok" => ~cancelled

(* A multipart upload left open when the operation returns is one that was *)
(* aborted before its waiters were notified, and whose abort call failed:  *)
(* the code ignores that failure, and the operation returns an error.      *)
SessionsClosed ==
    outcome # "none" => \A u \in sessions : Unit(u).lost /\ outcome = "err"

(* What hash_upload_manifest promises of its tasks and of its return, all  *)
(* of the above: one upload per hash at a time, an Ok that means stored    *)
(* and done, a cancellation never hidden, and no upload left open but the  *)
(* ones whose abort failed.                                                *)
UploadIsSound ==
    /\ TypeOK /\ SoleUploader /\ OkMeansStored /\ OkIsQuiescent
    /\ CancelIsReported /\ SessionsClosed

(* The tasks never hold more permits than the pool has, and an Ok return   *)
(* leaves it whole.                                                        *)
PoolIsWhole ==
    Available >= 0 /\ (outcome = "ok" => Available = BytesToPermits(MaxBytes))

(* When the operation returns Ok the counters account for every byte of    *)
(* the manifest, if no file was changed meanwhile.                         *)
ProgressComplete ==
    outcome = "ok" /\ edits = {} => stats.hashed + stats.skipped >= TotalBytes

(* The bytes that are stored, held in memory and counted are the files'    *)
(* own, whatever fails and whoever writes meanwhile.                       *)
BytesAreAccounted == ContentAddressed /\ PoolIsWhole /\ ProgressComplete

(* A dedup entry whose owner has returned: create_multipart_upload failed. *)
Orphaned ==
    \E u \in {dedup[h] : h \in DOMAIN dedup} :
        /\ IsMultipart(u[1])
        /\ Unit(u).pc = "failed"
        /\ Unit(u).parts = <<>> /\ ~Unit(u).failed

(* The operation returns: no task waits for ever for a permit, for memory  *)
(* or for another task's upload, unless an entry was orphaned.             *)
ReturnsUnlessOrphaned == <>(outcome # "none" \/ Orphaned)

(* "Notify waiters and clean up dedup map regardless of success/failure":  *)
(* the operation always returns.                                           *)
Terminates == <>(outcome # "none")
=============================================================================
