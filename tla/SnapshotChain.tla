---------------------------- MODULE SnapshotChain ----------------------------
(***************************************************************************)
(* A directory that somebody edits while a caller takes snapshots of it:   *)
(* COLLECT, then HASH (ops/hash_op.rs) with a hash cache (hash_cache.rs)   *)
(* that is kept from one snapshot to the next.  Edits may fall between the *)
(* collection and the hashing of each file.  Every edit of a file gives it *)
(* a later mtime, and no two files start with the same one.                *)
(***************************************************************************)
EXTENDS SnapshotCodec

CONSTANTS
    Places,       \* the paths that edits touch
    Writings,     \* what a file may be: its bytes and its execute bit
    Targets,      \* what a symlink may say
    Root,         \* the directory that is collected
    Policies,     \* the symlink policies that callers use
    Starts,       \* the file systems to start with and the chunk sizes used there
    MaxChanges, MaxSnaps

VARIABLES
    tree, mtime,   \* the file system and its clock
    policy,        \* the symlink policy of this caller's collections
    chunk,         \* and their chunk size
    shot,          \* {} or the manifest being hashed
    todo,          \* the work items not hashed yet
    got,           \* the results of those that are: path -> Result
    stopped,       \* the progress callback asked to stop
    counts,        \* HashStatistics: files in total, hashed and skipped
    rows,          \* the rows of the hash cache: <<path, start, end>> -> [hash, mtime]
    snaps,         \* the hashed snapshots
    holdings,      \* history: what each path held since the collection
    torn           \* history: the paths cached although they had changed meanwhile

chainVars ==
    <<tree, mtime, policy, chunk, shot, todo, got, stopped, counts, rows, snaps, holdings, torn>>

-----------------------------------------------------------------------------
(* hash.rs *)

xxh3_128(bytes) == [digest |-> bytes]

BytesAt(fs, path) == {n.bytes : n \in {m \in metadata(fs, path) : m.kind = "file"}}

hash_file(fs, path) == {xxh3_128(b) : b \in BytesAt(fs, path)}

hash_file_chunked(fs, path, size_of_chunk, expected_size) ==
    {[i \in DOMAIN Slices(expected_size, size_of_chunk) |->
        LET cut == Slices(expected_size, size_of_chunk)[i]
        IN xxh3_128(SubSeq(bytes, cut[1] + 1, cut[2]))] :
            bytes \in {b \in BytesAt(fs, path) : Len(b) = expected_size}}

(* hash_cache.rs *)

WHOLE_FILE_RANGE == <<0, 0 - 1>>

get(path, range) ==
    {rows[k] : k \in {key \in DOMAIN rows : key = <<path, range>>}}

GetAnyAge(path, range, current_mtime) == {row.hash : row \in get(path, range)}

get_if_fresh(path, range, current_mtime) ==
    {row.hash : row \in {r \in get(path, range) : r.mtime = current_mtime}}

put(table, path, range, hash, time) ==
    [k \in DOMAIN table \cup {<<path, range>>} |->
        IF k = <<path, range>> THEN [hash |-> hash, mtime |-> time] ELSE table[k]]

-----------------------------------------------------------------------------
(* hash_op.rs *)

IsChunked(f) == chunk > 0 /\ The(f.size) > chunk

RangesOf(f) == IF IsChunked(f) THEN Slices(The(f.size), chunk) ELSE <<WHOLE_FILE_RANGE>>

\* The cache lookup: all the ranges of the file, or nothing.
CachedHashes(f) ==
    LET found == [i \in DOMAIN RangesOf(f) |-> get_if_fresh(f.path, RangesOf(f)[i], The(f.mtime))]
    IN IF \A i \in DOMAIN found : found[i] # {} THEN {[i \in DOMAIN found |-> The(found[i])]} ELSE {}

\* file.chunk_hashes = hashes, or file.hash = its only element.
WithHashes(f, hashes) ==
    IF IsChunked(f) THEN [f EXCEPT !.chunk_hashes = {hashes}]
    ELSE [f EXCEPT !.hash = {hashes[1]}]

HashOf(f) ==
    IF IsChunked(f) THEN hash_file_chunked(tree, f.path, chunk, The(f.size))
    ELSE {<<h>> : h \in hash_file(tree, f.path)}

CacheAll(table, f, hashes) ==
    FoldLeft(LAMBDA t, i : put(t, f.path, RangesOf(f)[i], hashes[i], The(f.mtime)),
             table, [i \in DOMAIN hashes |-> i])

Entry(path) == The({f \in The(shot).files : f.path = path})
FirstTime == 10      \* later than any file of Starts

\* HashStatistics::default()
NoCounts == [total |-> 0, hashed |-> 0, skipped |-> 0]

\* hash_manifest returns, and its statistics go with its result.
Idle == /\ shot' = {} /\ todo' = {} /\ got' = Nothing /\ stopped' = FALSE
        /\ counts' = NoCounts /\ holdings' = Nothing

\* collect_abs_snapshot, and of hash_manifest what it does before it hashes.
Collect ==
    /\ shot = {} /\ Len(snaps) < MaxSnaps
    /\ \E order \in SetToSeqs(LinksMet(tree, {Root}, {})) :
       \E m \in collect_abs_snapshot(tree, {Root}, {},
                    [optional_filenames |-> {}, policy |-> policy, chunk |-> chunk], order) :
         LET regular == {f \in m.files : IsRegular(f)}
             cached  == {f \in regular : CachedHashes(f) # {}}
         IN /\ shot' = {[m EXCEPT !.files = (@ \ cached) \cup
                            {WithHashes(f, The(CachedHashes(f))) : f \in cached}]}
            /\ todo' = {f.path : f \in regular \ cached}
            /\ counts' = [total |-> Cardinality(regular), hashed |-> 0,
                         skipped |-> Cardinality(cached)]
            /\ holdings' = [p \in {f.path : f \in regular} |-> BytesAt(tree, p)]
    /\ UNCHANGED <<tree, mtime, policy, chunk, got, stopped, rows, snaps, torn>>

\* One closure of the parallel map.  goes_on is what the callback returns.
HashItem(path, goes_on) ==
    LET hashes == IF stopped THEN {} ELSE HashOf(Entry(path))
        called == ~stopped /\ hashes # {}
    IN /\ shot # {} /\ path \in todo
       /\ ~called => goes_on
       /\ todo' = todo \ {path}
       /\ got' = [p \in DOMAIN got \cup {path} |->
                    IF p = path THEN (IF goes_on THEN hashes ELSE {}) ELSE got[p]]
       /\ stopped' = (stopped \/ ~goes_on)
       /\ counts' = IF called THEN [counts EXCEPT !.hashed = @ + 1] ELSE counts
       /\ UNCHANGED <<tree, mtime, policy, chunk, shot, rows, snaps, holdings, torn>>

\* The results are applied and cached in order up to the first error; which
\* ones precede it is left open.
FinishHash ==
    LET failed == {p \in DOMAIN got : got[p] = {}}
        after  == The(shot)
        hashedFile(f) == IF f.path \in DOMAIN got THEN WithHashes(f, The(got[f.path])) ELSE f
    IN /\ shot # {} /\ todo = {}
       /\ \E applied \in SUBSET (DOMAIN got \ failed) :
            /\ failed = {} => applied = DOMAIN got
            /\ rows' = FoldLeft(LAMBDA t, p : CacheAll(t, Entry(p), The(got[p])),
                                rows, SetToSeq(applied))
            /\ torn' = torn \cup {p \in applied : Cardinality(holdings[p]) > 1}
       /\ snaps' = IF failed # {} THEN snaps
                   ELSE Append(snaps, [after EXCEPT !.files = {hashedFile(f) : f \in @}])
       /\ Idle
       /\ UNCHANGED <<tree, mtime, policy, chunk>>

-----------------------------------------------------------------------------
(* Whoever edits the directory.  A file or link may take any place that has *)
(* a directory above it; what was there, or below it, is gone.              *)

Node(kind, content, target) ==
    [kind |-> kind, bytes |-> content.bytes, mtime |-> mtime + 1,
     runnable |-> content.runnable, target |-> target]

NoContent == [bytes |-> <<>>, runnable |-> FALSE]

NewNodes ==
    {Node("file", c, <<>>) : c \in Writings} \cup {Node("dir", NoContent, <<>>)}
        \cup {Node("link", NoContent, t) : t \in Targets}

Without(path) == [q \in {r \in DOMAIN tree : r # path /\ ~Under(r, path)} |-> tree[q]]

Edited(fs) ==
    /\ mtime < FirstTime + MaxChanges /\ Len(snaps) < MaxSnaps
    /\ tree' = fs
    /\ mtime' = mtime + 1
    /\ holdings' = [p \in DOMAIN holdings |-> holdings[p] \cup BytesAt(fs, p)]
    /\ UNCHANGED <<policy, chunk, shot, todo, got, stopped, counts, rows, snaps, torn>>

Write(path) ==
    /\ Front(path) \in DOMAIN tree /\ tree[Front(path)].kind = "dir"
    /\ \E node \in NewNodes :
         Edited([q \in DOMAIN Without(path) \cup {path} |->
                    IF q = path THEN node ELSE tree[q]])

Unlink(path) == path \in DOMAIN tree /\ Edited(Without(path))

-----------------------------------------------------------------------------
\* SymlinkPolicy
SymlinkPolicy == SubtreePolicies \cup {"preserve", "transitive_include_targets"}

ChainInit ==
    /\ \E start \in Starts : tree = start.tree /\ chunk = start.chunk
    /\ mtime = FirstTime
    /\ policy \in Policies
    /\ shot = {} /\ todo = {} /\ got = Nothing /\ stopped = FALSE
    /\ counts = NoCounts
    /\ rows = Nothing /\ snaps = <<>> /\ holdings = Nothing /\ torn = {}

ChainNext ==
    \/ Collect
    \/ \E p \in todo, goes_on \in BOOLEAN : HashItem(p, goes_on)
    \/ FinishHash
    \/ \E p \in Places : Write(p) \/ Unlink(p)

=============================================================================
