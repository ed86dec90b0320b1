------------------------------ MODULE CacheSync ------------------------------
(***************************************************************************)
(* CACHE_SYNC (ops/cache_sync.rs) between two data caches (data_cache.rs): *)
(* every object that the manifests refer to is skipped when the            *)
(* destination has it, copied by the server, or carried over whole or in   *)
(* parts.  The S3 cache remembers in its check cache which objects it saw; *)
(* objects vanish from the bucket behind its back, requests fail and the   *)
(* process is killed.  S3 itself is modelled from how the code uses it.    *)
(*                                                                         *)
(* The hash of an object is [digest |-> bytes], as in SnapshotChain, so    *)
(* h.digest is what the object must be.                                    *)
(***************************************************************************)
EXTENDS Manifests

CONSTANTS
    Syncs,            \* [manifests, source, from, to, dest, entries, config, forced]
    SyncPartSize,     \* multipart_part_size
    S3_MAX_SINGLE_COPY_BYTES, S3_MAX_MULTIPART_PARTS, S3_MIN_PART_SIZE, S3_MAX_PART_SIZE,
    VerifyFirst,      \* the check-cache hits that are always verified (100)
    MaxSyncs, MaxLosses

VARIABLES
    sync,         \* the member of Syncs
    dest,         \* the destination: hash -> bytes
    uploads,      \* its open multipart uploads: hash -> the parts that arrived
    check_cache,  \* s3_check_cache and cache_validation: [entries, hits, invalidated]
    syncStep,     \* "begin", "work", "ok", "err"
    items,        \* hash -> the task of the object
    syncHalt,     \* the flag cancelled
    syncTally,    \* CacheSyncStatistics: objects in total, copied and skipped
    past,         \* history of the call: see NewPast
    calls, losses \* history: the calls made and the objects lost

syncVars == <<sync, dest, uploads, check_cache, syncStep, items, syncHalt, syncTally,
              past, calls, losses>>

\* Objects seen whole at the destination, skipped on the word of the check
\* cache, cut short while they were written as files, by an error or a kill;
\* uploads that a failed request left open; and whether anything failed.
NewPast == [seen |-> {}, trusted |-> {}, partial |-> {}, left |-> {}, fault |-> FALSE]

-----------------------------------------------------------------------------
(* S3CopyConfig *)

effective_threshold(cfg) == Min({cfg.multipart_threshold, S3_MAX_SINGLE_COPY_BYTES})

CeilDiv(a, b) == (a + b - 1) \div b
Between(x, lo, hi) == Max({lo, Min({x, hi})})

effective_part_size(cfg, size) ==
    Between(Max({cfg.part_size, CeilDiv(size, S3_MAX_MULTIPART_PARTS)}),
          S3_MIN_PART_SIZE, S3_MAX_PART_SIZE)

\* What S3 accepts as the parts of an upload.
S3Accepts(ranges) ==
    /\ Len(ranges) <= S3_MAX_MULTIPART_PARTS
    /\ \A i \in 1..(Len(ranges) - 1) : ranges[i][2] - ranges[i][1] >= S3_MIN_PART_SIZE

-----------------------------------------------------------------------------
(* The check cache *)

check_cache_exists(h) == ~sync.forced /\ h \in check_cache.entries

record_in_check_cache(h) == [check_cache EXCEPT !.entries = @ \cup {h}]

\* should_verify counts a hit; later ones are verified by chance.
should_verify(verify) == check_cache.hits < VerifyFirst => verify

-----------------------------------------------------------------------------
(* cache_sync_manifest *)

SizeOf(f) == IF f.size = {} THEN 0 ELSE The(f.size)

\* The size a work item is given: for a chunk, that of a whole chunk, or an
\* equal share of a file that says nothing of its chunk size.
Estimates(m) ==
    LET share(f, hashes) == IF m.chunk > 0 THEN m.chunk
                            ELSE SizeOf(f) \div Max({Len(hashes), 1})
    IN UNION {IF f.hash # {} THEN {<<The(f.hash), SizeOf(f)>>}
              ELSE UNION {{<<h, share(f, c)>> : h \in Range(c)} : c \in f.chunk_hashes} :
                  f \in {g \in m.files : IsRegular(g)}}

Sizes(s) == UNION {Estimates(m) : m \in s.manifests}

\* The constants are those of S3; what is stored at first is whole; and an
\* entry is no smaller than its object and needs no more parts than S3 allows.
ASSUME SyncAssumption ==
    /\ VerifyFirst \in Nat /\ S3_MAX_SINGLE_COPY_BYTES \in Nat
    /\ S3_MAX_MULTIPART_PARTS \in Nat \ {0} /\ S3_MIN_PART_SIZE \in Nat \ {0}
    /\ SyncPartSize \in Nat /\ S3_MIN_PART_SIZE <= SyncPartSize
    /\ S3_MAX_PART_SIZE \in Nat /\ S3_MIN_PART_SIZE <= S3_MAX_PART_SIZE
    /\ \A s \in Syncs :
        /\ IsFiniteSet(Sizes(s))
        /\ \A h \in DOMAIN s.dest : s.dest[h] = h.digest
        /\ \A cfg \in s.config : cfg.multipart_threshold \in Nat /\ cfg.part_size \in Nat
        /\ \A e \in Sizes(s) :
            /\ e[1].digest \in Seq(STRING) /\ e[2] \in Nat /\ Len(e[1].digest) <= e[2]
            /\ s.from = "s3" /\ s.to = "s3" =>
                /\ e[2] <= S3_MAX_MULTIPART_PARTS * SyncPartSize
                /\ e[2] <= S3_MAX_MULTIPART_PARTS * S3_MAX_PART_SIZE

\* One item per hash; the first manifest entry that has it gives its size.
WorkItems ==
    LET all == Sizes(sync)
        hashes == {e[1] : e \in all}
    IN {est \in [hashes -> {e[2] : e \in all}] : \A h \in hashes : <<h, est[h]>> \in all}

NewItem(est) == [stage |-> "queued", est |-> est, ranges |-> <<>>, pending |-> {}, failed |-> FALSE]

BeginSync ==
    /\ syncStep = "begin"
    /\ \E est \in WorkItems :
         /\ items' = [h \in DOMAIN est |-> NewItem(est[h])]
         /\ syncTally' = [total |-> Cardinality(DOMAIN est), copied |-> 0, skipped |-> 0]
    /\ syncStep' = "work" /\ syncHalt' = FALSE /\ calls' = calls + 1
    /\ past' = [NewPast EXCEPT !.partial = past.partial, !.left = past.left]
    /\ UNCHANGED <<sync, dest, uploads, check_cache, losses>>

At(h, stage) == syncStep = "work" /\ h \in DOMAIN items /\ items[h].stage = stage
Goes(h, stage) == items' = [items EXCEPT ![h].stage = stage]

callVars == <<sync, syncStep, syncHalt, syncTally, calls, losses>>

Failing == past' = [past EXCEPT !.fault = TRUE]

\* Statistics and progress after a skip or a copy.
Counted(h, field, stage, goes_on) ==
    /\ syncTally' = [syncTally EXCEPT ![field] = @ + 1]
    /\ Goes(h, IF goes_on THEN stage ELSE "failed")
    /\ syncHalt' = (syncHalt \/ ~goes_on)
    /\ UNCHANGED <<sync, syncStep, calls, losses>>

\* The task has its worker and sees the flag.
StartItem(h) ==
    /\ At(h, "queued")
    /\ Goes(h, IF syncHalt THEN "failed" ELSE "exists")
    /\ UNCHANGED <<callVars, dest, uploads, check_cache, past>>

-----------------------------------------------------------------------------
(* object_exists *)

\* Of S3DataCache, up to HeadObject; verify is the outcome of the dice.
AskCheckCache(h, verify) ==
    LET hit == check_cache_exists(h) /\ ~check_cache.invalidated
    IN /\ At(h, "exists") /\ sync.to = "s3"
       /\ verify \/ hit
       /\ should_verify(verify)
       /\ check_cache' = IF hit THEN [check_cache EXCEPT !.hits = Min({@ + 1, VerifyFirst})]
                         ELSE check_cache
       /\ Goes(h, IF ~hit THEN "head" ELSE IF verify THEN "verify" ELSE "trusted")
       /\ past' = IF hit /\ ~verify THEN [past EXCEPT !.trusted = @ \cup {h}] ELSE past
       /\ UNCHANGED <<callVars, dest, uploads>>

\* Its answer: an error counts as "no" (unwrap_or(false)).
HeadObject(h, answers, goes_on) ==
    LET there == answers /\ h \in DOMAIN dest
        stage == items[h].stage
    IN /\ syncStep = "work" /\ stage \in {"head", "verify"}
       /\ ~there => goes_on
       /\ check_cache' =
            IF there /\ stage = "head" THEN record_in_check_cache(h)
            ELSE IF answers /\ ~there /\ stage = "verify"
            THEN [check_cache EXCEPT !.invalidated = TRUE]
            ELSE check_cache
       /\ past' = [past EXCEPT !.seen = IF there /\ dest[h] = h.digest THEN @ \cup {h} ELSE @,
                               !.fault = @ \/ ~answers]
       /\ IF there THEN Counted(h, "skipped", "skipped", goes_on)
          ELSE Goes(h, "copy") /\ UNCHANGED callVars
       /\ UNCHANGED <<dest, uploads>>

SkipTrusted(h, goes_on) ==
    /\ At(h, "trusted")
    /\ Counted(h, "skipped", "skipped", goes_on)
    /\ UNCHANGED <<dest, uploads, check_cache, past>>

\* Of FileSystemDataCache: the file exists.
FileExists(h, goes_on) ==
    LET there == h \in DOMAIN dest
    IN /\ At(h, "exists") /\ sync.to = "fs"
       /\ ~there => goes_on
       /\ past' = IF there /\ dest[h] = h.digest THEN [past EXCEPT !.seen = @ \cup {h}] ELSE past
       /\ IF there THEN Counted(h, "skipped", "skipped", goes_on)
          ELSE Goes(h, "copy") /\ UNCHANGED callVars
       /\ UNCHANGED <<dest, uploads, check_cache>>

-----------------------------------------------------------------------------
(* copy_from *)

SourceSize(h) == Len(h.digest)
StoredAt(h, bytes) == [g \in DOMAIN dest \cup {h} |-> IF g = h THEN bytes ELSE dest[g]]
Seeing(h) == past' = [past EXCEPT !.seen = @ \cup {h}]

\* Not between two S3 caches, or a request for the size or the upload failed.
NoServerCopy(h) ==
    /\ At(h, "copy")
    /\ IF sync.from = "s3" /\ sync.to = "s3" THEN sync.config # {} /\ Failing
       ELSE UNCHANGED past
    /\ Goes(h, "transfer")
    /\ UNCHANGED <<callVars, dest, uploads, check_cache>>

CopiesInParts(h) == \E cfg \in sync.config : SourceSize(h) > effective_threshold(cfg)

CopyObject(h, answers, goes_on) ==
    LET copied == answers /\ h \in sync.source /\ SourceSize(h) <= S3_MAX_SINGLE_COPY_BYTES
    IN /\ At(h, "copy") /\ sync.from = "s3" /\ sync.to = "s3" /\ ~CopiesInParts(h)
       /\ ~copied => goes_on
       /\ IF copied
          THEN /\ dest' = StoredAt(h, h.digest) /\ check_cache' = record_in_check_cache(h)
               /\ Seeing(h) /\ Counted(h, "copied", "done", goes_on)
          ELSE Failing /\ Goes(h, "transfer") /\ UNCHANGED <<callVars, dest, check_cache>>
       /\ UNCHANGED uploads

\* CreateMultipartUpload, for a copy or for a transfer.
OpenUpload(h, stage, ranges) ==
    /\ uploads' = [g \in DOMAIN uploads \cup {h} |-> IF g = h THEN {} ELSE uploads[g]]
    /\ items' = [items EXCEPT ![h] = [@ EXCEPT !.stage = stage, !.ranges = ranges,
                                               !.pending = DOMAIN ranges, !.failed = FALSE]]
    /\ UNCHANGED <<callVars, dest, check_cache, past>>

multipart_copy(h) ==
    /\ At(h, "copy") /\ sync.from = "s3" /\ sync.to = "s3" /\ h \in sync.source
    /\ CopiesInParts(h)
    /\ OpenUpload(h, "copying",
                  Slices(SourceSize(h), effective_part_size(The(sync.config), SourceSize(h))))

-----------------------------------------------------------------------------
(* transfer_object *)

InParts(h) == sync.from = "s3" /\ sync.to = "s3" /\ items[h].est >= 2 * SyncPartSize

\* get_object and put_object; a file is not written at once.
PutWhole(h, answers, goes_on) ==
    LET got_it == answers /\ h \in sync.source
    IN /\ At(h, "transfer") /\ ~InParts(h) /\ sync.to = "s3"
       /\ ~got_it => goes_on
       /\ IF got_it
          THEN /\ dest' = StoredAt(h, h.digest) /\ check_cache' = record_in_check_cache(h)
               /\ Seeing(h) /\ Counted(h, "copied", "done", goes_on)
          ELSE Failing /\ Goes(h, "failed") /\ UNCHANGED <<callVars, dest, check_cache>>
       /\ UNCHANGED uploads

WriteFile(h, answers) ==
    /\ At(h, "transfer") /\ ~InParts(h) /\ sync.to = "fs"
    /\ IF answers /\ h \in sync.source
       THEN dest' = StoredAt(h, <<>>) /\ Goes(h, "writing") /\ UNCHANGED past
       ELSE Failing /\ Goes(h, "failed") /\ UNCHANGED dest
    /\ UNCHANGED <<callVars, uploads, check_cache>>

WriteFileEnds(h, goes_on) ==
    /\ At(h, "writing")
    /\ dest' = StoredAt(h, h.digest)
    /\ past' = [past EXCEPT !.seen = @ \cup {h}, !.partial = @ \ {h}]
    /\ Counted(h, "copied", "done", goes_on)
    /\ UNCHANGED <<uploads, check_cache>>

\* A full disk, say: a short object stays under the final name.
WriteFileFails(h) ==
    /\ At(h, "writing")
    /\ past' = [past EXCEPT !.partial = @ \cup {h}, !.fault = TRUE]
    /\ Goes(h, "failed")
    /\ UNCHANGED <<callVars, dest, uploads, check_cache>>

transfer_object_multipart(h) ==
    /\ At(h, "transfer") /\ InParts(h)
    /\ OpenUpload(h, "sending", Slices(items[h].est, SyncPartSize))

CreateFails(h) ==
    /\ At(h, "transfer") /\ InParts(h)
    /\ Failing /\ Goes(h, "failed")
    /\ UNCHANGED <<callVars, dest, uploads, check_cache>>

\* Bytes of the source object; a range that starts after its end is refused,
\* one that ends after it is cut.
GetRange(h, range) ==
    IF h \in sync.source /\ range[1] < SourceSize(h)
    THEN {SubSeq(h.digest, range[1] + 1, Min({range[2], SourceSize(h)}))} ELSE {}

\* UploadPartCopy, or get_object_range and upload_part.  The transfer gives up
\* on the first failure and drops the other requests; the copy waits for them.
SendPart(h, i, answers) ==
    LET item == items[h]
        data == IF answers THEN GetRange(h, item.ranges[i]) ELSE {}
    IN /\ syncStep = "work" /\ item.stage \in {"copying", "sending"} /\ i \in item.pending
       /\ items' = [items EXCEPT ![h].pending = IF data = {} /\ item.stage = "sending" THEN {}
                                                ELSE @ \ {i},
                                 ![h].failed = @ \/ data = {}]
       /\ uploads' = [uploads EXCEPT ![h] = @ \cup {<<i, d>> : d \in data}]
       /\ past' = [past EXCEPT !.fault = @ \/ ~answers]
       /\ UNCHANGED <<callVars, dest, check_cache>>

\* The parts of an upload, one behind the other.
Assembled(parts) ==
    LET upTo[k \in 0..Len(parts)] == IF k = 0 THEN <<>> ELSE upTo[k - 1] \o parts[k]
    IN upTo[Len(parts)]

WithoutUpload(h) == [g \in DOMAIN uploads \ {h} |-> uploads[g]]

\* What comes after an upload that did not succeed.
AfterUpload(h) == Goes(h, IF items[h].stage = "copying" THEN "transfer" ELSE "failed")

\* CompleteMultipartUpload: the parts in the order of their numbers.
CompleteUpload(h, answers, goes_on) ==
    LET item  == items[h]
        bytes == Assembled([i \in DOMAIN item.ranges |->
                    (CHOOSE p \in uploads[h] : p[1] = i)[2]])
        done  == answers /\ S3Accepts(item.ranges)
    IN /\ syncStep = "work" /\ item.stage \in {"copying", "sending"}
       /\ item.pending = {} /\ ~item.failed
       /\ ~done => goes_on
       /\ IF done
          THEN /\ dest' = StoredAt(h, bytes) /\ uploads' = WithoutUpload(h)
               /\ check_cache' = record_in_check_cache(h)
               /\ Seeing(h) /\ Counted(h, "copied", "done", goes_on)
          ELSE /\ AfterUpload(h)
               /\ past' = [past EXCEPT !.left = @ \cup {h}, !.fault = @ \/ ~answers]
               /\ UNCHANGED <<callVars, dest, uploads, check_cache>>

AbortNot(h, answers) ==
    /\ syncStep = "work" /\ items[h].stage \in {"copying", "sending"}
    /\ items[h].pending = {} /\ items[h].failed
    /\ AfterUpload(h)
    /\ UNCHANGED <<callVars, dest, uploads, check_cache, past>>

\* AbortMultipartUpload; whether it worked is ignored.
Abort(h, answers) ==
    /\ syncStep = "work" /\ items[h].stage \in {"copying", "sending"}
    /\ items[h].pending = {} /\ items[h].failed
    /\ uploads' = IF answers THEN WithoutUpload(h) ELSE uploads
    /\ past' = IF answers THEN past ELSE [past EXCEPT !.left = @ \cup {h}]
    /\ AfterUpload(h)
    /\ UNCHANGED <<callVars, dest, check_cache>>

-----------------------------------------------------------------------------
\* All tasks are awaited, then the first error is returned.
EndSync ==
    /\ syncStep = "work"
    /\ \A h \in DOMAIN items : items[h].stage \in {"done", "skipped", "failed"}
    /\ syncStep' = IF \E h \in DOMAIN items : items[h].stage = "failed" THEN "err" ELSE "ok"
    /\ UNCHANGED <<sync, dest, uploads, check_cache, items, syncHalt, syncTally, past, calls, losses>>

\* The process is killed, or its caller syncs again.  A new process has a new
\* CacheValidationState; the check cache is on the disk.
SyncAgain ==
    LET writing == {h \in DOMAIN items : items[h].stage = "writing"}
    IN /\ syncStep # "begin" /\ calls < MaxSyncs
       /\ syncStep' = "begin" /\ items' = Nothing
       /\ check_cache' = [check_cache EXCEPT !.hits = 0, !.invalidated = FALSE]
       /\ past' = [past EXCEPT !.partial = @ \cup writing, !.left = @ \cup DOMAIN uploads]
       /\ UNCHANGED <<sync, dest, uploads, syncHalt, syncTally, calls, losses>>

\* Somebody deletes an object of the bucket.
Lose(h) ==
    /\ losses < MaxLosses /\ syncStep \in {"begin", "work"} /\ sync.to = "s3"
    /\ dest' = [g \in DOMAIN dest \ {h} |-> dest[g]]
    /\ losses' = losses + 1
    /\ UNCHANGED <<sync, uploads, check_cache, syncStep, items, syncHalt, syncTally, past, calls>>

SyncInit ==
    /\ sync \in Syncs
    /\ dest = sync.dest /\ uploads = Nothing
    /\ check_cache = [entries |-> sync.entries, hits |-> 0, invalidated |-> FALSE]
    /\ syncStep = "begin" /\ items = Nothing /\ syncHalt = FALSE
    /\ syncTally = [total |-> 0, copied |-> 0, skipped |-> 0]
    /\ past = NewPast /\ calls = 0 /\ losses = 0

ItemStep(h) ==
    \/ StartItem(h)
    \/ NoServerCopy(h)
    \/ multipart_copy(h)
    \/ transfer_object_multipart(h)
    \/ CreateFails(h)
    \/ WriteFileFails(h)
    \/ \E goes_on \in BOOLEAN :
         \/ SkipTrusted(h, goes_on)
         \/ FileExists(h, goes_on)
         \/ WriteFileEnds(h, goes_on)
    \/ \E answers \in BOOLEAN :
         \/ AskCheckCache(h, answers)
         \/ WriteFile(h, answers)
         \/ Abort(h, answers)
         \/ \E i \in items[h].pending : SendPart(h, i, answers)
    \/ \E answers, goes_on \in BOOLEAN :
         \/ HeadObject(h, answers, goes_on)
         \/ CopyObject(h, answers, goes_on)
         \/ PutWhole(h, answers, goes_on)
         \/ CompleteUpload(h, answers, goes_on)

SyncNext ==
    \/ BeginSync
    \/ \E h \in DOMAIN items : ItemStep(h)
    \/ EndSync
    \/ SyncAgain
    \/ \E h \in DOMAIN dest : Lose(h)

SyncSpec == SyncInit /\ [][SyncNext]_syncVars

-----------------------------------------------------------------------------
\* An object longer than its last part begins: the estimate is that of a whole
\* chunk, the object is the short last one.
Overestimated(h) == CeilDiv(items[h].est, SyncPartSize) > CeilDiv(SourceSize(h), SyncPartSize)

\* A sync that returned Ok found or put every object at the destination during
\* the call: it was skipped, copied or transferred whole (cache_sync_manifest,
\* object_exists).  Exceptions are objects skipped on the word of the check
\* cache once it was verified often enough, and files whose direct write was cut
\* short in an earlier call, by an error or a kill: they are taken as present
\* (FileSystemDataCache::put_object, object_exists).  A sync that returned Err
\* met a failure, a missing source or a cancellation, or read by parts a last
\* chunk shorter than its estimate.
SyncIsComplete ==
    /\ syncStep = "ok" =>
        /\ DOMAIN items \subseteq past.seen \cup past.trusted \cup past.partial
        /\ past.trusted # {} => VerifyFirst <= check_cache.hits /\ ~sync.forced
        /\ syncTally.copied + syncTally.skipped = syncTally.total
    /\ syncStep = "err" =>
        \/ past.fault \/ syncHalt \/ ~(DOMAIN items \subseteq sync.source)
        \/ \E h \in DOMAIN items : InParts(h) /\ Overestimated(h)

\* Whatever fails or is killed, an object at the destination is whole and is
\* the one its name says, but for a file being written, or one whose write was
\* cut short and which stays torn (FileSystemDataCache::put_object); a call that ends leaves
\* no multipart upload open whose abort or completion did not fail; the parts
\* of a server-side copy are ones S3 accepts (effective_part_size).
ObjectsStayWhole ==
    /\ \A h \in DOMAIN dest :
        \/ dest[h] = h.digest
        \/ h \in past.partial
        \/ h \in DOMAIN items /\ items[h].stage = "writing"
    /\ syncStep \in {"ok", "err"} => DOMAIN uploads \subseteq past.left
    /\ \A h \in DOMAIN items : items[h].stage = "copying" => S3Accepts(items[h].ranges)

\* Both, at every moment of a sync (ops/cache_sync.rs, data_cache.rs).
SyncsAreSound == SyncIsComplete /\ ObjectsStayWhole
=============================================================================
