----------------------------- MODULE MCSnapshots -----------------------------
(***************************************************************************)
(* The snapshots crate for TLC.  A behaviour is about one of its           *)
(* operations, its topic; the state of the others rests.                   *)
(***************************************************************************)
EXTENDS MCHashUpload, SnapshotLaws, Download, CacheSync

VARIABLE topic

laws == <<mtime, policy, chunk, shot, todo, got, stopped, counts, snaps, holdings, torn>>
fetch == <<job, step, tasks, halt, tally, attempts, clashes>>
snapVars == <<topic, vars, tree, rows, laws, fetch, syncVars>>

-----------------------------------------------------------------------------
(* File systems *)

W == <<"", "w">>
X == <<"", "x">>
In(name) == W \o name
Dir == NewDir
File(bytes, time) == [Dir EXCEPT !.kind = "file", !.bytes = bytes, !.mtime = time]
Link(target) == [Dir EXCEPT !.kind = "link", !.target = target]

\* A file that edits turn into a directory; a directory with a file, and a
\* link that leads out of the root to a directory.
MCStarts ==
    {[chunk |-> 1, tree |-> W :> Dir @@ X :> Dir @@ <<"", "x", "s">> :> File(<<"q">>, 1)
                            @@ In(<<"a">>) :> File(<<"u">>, 2)],
     [chunk |-> 0 - 1,
      tree |-> W :> Dir @@ X :> Dir @@ <<"", "x", "s">> :> Dir
               @@ <<"", "x", "s", "t">> :> File(<<"q">>, 1) @@ In(<<"a">>) :> Dir
               @@ In(<<"a", "b">>) :> File(<<"u">>, 2) @@ In(<<"c">>) :> Link(<<"..", "x">>)]}
MCPlaces == {In(<<"a">>), In(<<"a", "b">>), In(<<"c">>)}
MCWritings == {[bytes |-> <<"u">>, runnable |-> FALSE], [bytes |-> <<"u", "v">>, runnable |-> TRUE]}
MCPolicies == {"preserve", "collapse_escaping"}
MCTargets == {<<"a">>, <<"", "x", "s">>}

-----------------------------------------------------------------------------
(* Downloads: differences between trees, onto the first of the two, the    *)
(* last of which deletes a link and the file it points to; and whole       *)
(* snapshots onto trees with conflicting files, one of them with a file    *)
(* that has the name of another one's copy.                                *)

Trees ==
    <<W :> Dir @@ In(<<"a">>) :> File(<<"u">>, 2),
      W :> Dir @@ In(<<"a">>) :> Dir @@ In(<<"a", "b">>) :> File(<<"u", "v">>, 3)
        @@ In(<<"c">>) :> Link(In(<<"a">>)),
      W :> Dir @@ In(<<"a">>) :> File(<<"v">>, 4) @@ In(<<"c">>) :> File(<<"u", "v", "u">>, 5),
      W :> Dir @@ In(<<"a">>) :> File(<<"u">>, 2) @@ In(<<"c">>) :> Link(In(<<"a">>)),
      W :> Dir,
      W :> Dir @@ In(<<"a">>) :> File(<<"v">>, 4) @@ In(<<"a (1)">>) :> File(<<"u", "v">>, 3)>>

Hashed(f, fs, c) ==
    IF ~IsRegular(f) THEN f
    ELSE IF c > 0 /\ The(f.size) > c
    THEN [f EXCEPT !.chunk_hashes = hash_file_chunked(fs, f.path, c, The(f.size))]
    ELSE [f EXCEPT !.hash = hash_file(fs, f.path)]

Taken(fs, c) ==
    {[m EXCEPT !.files = {Hashed(f, fs, c) : f \in @}] :
        m \in collect_abs_snapshot(fs, {W}, {},
                [optional_filenames |-> {}, policy |-> "preserve", chunk |-> c],
                SetToSeq(LinksMet(fs, {W}, {})))}

\* The snapshots of the trees, in whole files and in chunks of two bytes.
Takes == [i \in DOMAIN Trees |-> [c \in {2, 0 - 1} |-> The(Taken(Trees[i], c))]]

ObjectsOf(m) ==
    [h \in UNION {f.hash \cup UNION {Range(c) : c \in f.chunk_hashes} : f \in m.files} |->
        [bytes |-> h.digest]]

RowsFor(m) ==
    FoldLeft(LAMBDA t, f : put(t, f.path, WHOLE_FILE_RANGE, The(f.hash), The(f.mtime)),
             Nothing, SetToSeq({f \in m.files : f.hash # {}}))

\* An object of one byte that is not what its name says.
Spoiled(objects_of) ==
    [h \in DOMAIN objects_of |-> IF Len(h.digest) = 1 THEN [bytes |-> <<"z">>] ELSE objects_of[h]]

DiffDownload(takes, i, j, c, cached) ==
    [tree |-> Trees[i], rows |-> IF cached THEN RowsFor(takes[i][c]) ELSE Nothing,
     manifest |-> The(diff_snapshots(takes[i][c], takes[j][c], Options(FALSE, FALSE))),
     objects |-> ObjectsOf(takes[j][c]), conflict |-> "overwrite", deletes |-> TRUE,
     symlinks |-> "preserve", cached |-> cached, want |-> {Trees[j]}]

WholeDownload(takes, i, j, conflict, genuine) ==
    [tree |-> Trees[i], rows |-> RowsFor(takes[3][2]), manifest |-> takes[j][2],
     objects |-> IF genuine THEN ObjectsOf(takes[j][2])
                 ELSE Spoiled(ObjectsOf(takes[j][2])), conflict |-> conflict, deletes |-> FALSE,
     symlinks |-> "exclude_all", cached |-> TRUE, want |-> {}]

DownloadsOf(takes) ==
    {DiffDownload(takes, d[1], d[2], d[3], d[4]) :
        d \in {<<1, 2, 2, FALSE>>, <<2, 1, 2, TRUE>>, <<1, 3, 2, TRUE>>, <<3, 2, 0 - 1, FALSE>>,
               <<2, 3, 0 - 1, TRUE>>, <<4, 5, 2, FALSE>>}}
        \cup {WholeDownload(takes, d[1], d[2], d[3], d[4]) :
                d \in {<<1, 3, "skip", TRUE>>, <<1, 3, "overwrite", TRUE>>,
                       <<1, 3, "create_copy", TRUE>>, <<1, 6, "create_copy", TRUE>>,
                       <<3, 1, "create_copy", FALSE>>, <<2, 1, "skip", FALSE>>}}

MCDownloads == DownloadsOf(Takes)

-----------------------------------------------------------------------------
(* Syncs *)

H(bytes) == [digest |-> bytes]
WholeFile(name, bytes) ==
    [RegularFile(<<"", name>>, Len(bytes), 1) EXCEPT !.hash = {H(bytes)}]
ChunkedFile(name, chunks) ==
    [RegularFile(<<"", name>>, Len(FlattenSeq(chunks)), 1) EXCEPT
        !.chunk_hashes = {[i \in DOMAIN chunks |-> H(chunks[i])]}]
ManifestOf(files, c) == [EmptyManifest(c) EXCEPT !.files = files]

One  == H(<<"u">>)
Two  == H(<<"u", "v">>)
Four == H(<<"u", "v", "w", "x">>)
WholeFiles == ManifestOf({WholeFile("a", One.digest), WholeFile("b", Two.digest)}, 0 - 1)
LastIsShort == ManifestOf({ChunkedFile("a", <<Four.digest, One.digest>>)}, 4)

Sync(manifest, missing, from, to, entries, config, forced) ==
    [manifests |-> {manifest, ManifestOf({WholeFile("c", One.digest)}, 4)},
     source |-> {One, Two, Four} \ missing, from |-> from, to |-> to,
     dest |-> [h \in {One} |-> h.digest], entries |-> entries, config |-> config, forced |-> forced]

InParts1 == {[multipart_threshold |-> 1, part_size |-> 1]}
MCSyncs ==
    {Sync(WholeFiles, {}, "s3", "s3", {One, Two}, {}, forced) : forced \in BOOLEAN}
        \cup {Sync(LastIsShort, {}, "s3", "s3", {One}, c, FALSE) : c \in {{}, InParts1}}
        \cup {Sync(WholeFiles, {Two}, "fs", "s3", {One, Two}, {}, FALSE),
              Sync(WholeFiles, {}, "s3", "fs", {}, {}, FALSE)}

-----------------------------------------------------------------------------
UploadRests ==
    /\ disk = Contents /\ edits = {} /\ pc = [f \in Files |-> "finished"]
    /\ units = [f \in Files |-> <<>>] /\ dedup = <<>> /\ objects = <<>> /\ sessions = {}
    /\ hashCache = <<>> /\ stats = [hashed |-> 0, uploaded |-> 0, skipped |-> 0]
    /\ cancelled = FALSE /\ result = [f \in Files |-> <<>>] /\ outcome = "err" /\ PoolInit

LawsRest ==
    /\ mtime = 0 /\ policy = "preserve" /\ chunk = 0 /\ shot = {} /\ todo = {} /\ got = Nothing
    /\ stopped = FALSE /\ counts = Nothing /\ snaps = <<>> /\ holdings = Nothing /\ torn = {}

TreeRests == tree = Nothing /\ rows = Nothing

FetchRests ==
    /\ job = Nothing /\ step = "rest" /\ tasks = Nothing /\ halt = FALSE /\ tally = Nothing
    /\ attempts = 0 /\ clashes = {}

SyncRests ==
    /\ sync = Nothing /\ dest = Nothing /\ uploads = Nothing /\ check_cache = Nothing
    /\ syncStep = "rest" /\ items = Nothing /\ syncHalt = FALSE /\ syncTally = Nothing
    /\ past = NewPast /\ calls = 0 /\ losses = 0

SnapInit ==
    \/ topic = "upload" /\ Init /\ TreeRests /\ LawsRest /\ FetchRests /\ SyncRests
    \/ topic = "chain" /\ ChainInit /\ UploadRests /\ FetchRests /\ SyncRests
    \/ topic = "download" /\ DownloadInit /\ UploadRests /\ LawsRest /\ SyncRests
    \/ topic = "sync" /\ SyncInit /\ UploadRests /\ TreeRests /\ LawsRest /\ FetchRests

SnapNext ==
    /\ UNCHANGED topic
    /\ \/ topic = "upload" /\ Next /\ UNCHANGED <<tree, rows, laws, fetch, syncVars>>
       \/ topic = "chain" /\ ChainNext /\ UNCHANGED <<vars, fetch, syncVars>>
       \/ topic = "download" /\ DownloadNext /\ UNCHANGED <<vars, laws, syncVars>>
       \/ topic = "sync" /\ SyncNext /\ UNCHANGED <<vars, tree, rows, laws, fetch>>

\* Only HASH_UPLOAD is asked for liveness; its fairness is that of FairSpec.
SnapSpec == SnapInit /\ [][SnapNext]_snapVars /\ Fairness

-----------------------------------------------------------------------------
\* CollectionsAreFaithful, of the snapshots that a caller takes (ops/collect.rs).
SnapshotsAreFaithful == topic = "chain" => CollectionsAreFaithful

\* DownloadIsAtomic, at every moment of a download (ops/download.rs).
DownloadsAreAtomic == topic = "download" => DownloadIsAtomic

\* DownloadIsExact, when a download has returned Ok (ops/download.rs).
DownloadsAreExact == topic = "download" => DownloadIsExact

=============================================================================
