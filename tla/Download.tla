------------------------------- MODULE Download -------------------------------
(***************************************************************************)
(* DOWNLOAD (ops/download.rs): the entries of a manifest are put on the    *)
(* disk from a data cache.  Deletions, symlinks and directories come       *)
(* first, then one task per file, then mtimes and the hash cache.  A task  *)
(* fetches the parts of its file concurrently into a temporary file that   *)
(* replaces the target.  The process may be killed at any moment and the   *)
(* download started again.                                                 *)
(*                                                                         *)
(* The disk and the hash cache are those of SnapshotChain.                 *)
(***************************************************************************)
EXTENDS SnapshotChain

CONSTANTS
    Downloads,    \* what is downloaded where: [tree, rows, manifest, objects,
                  \*    conflict, deletes, symlinks, cached,
                  \*    want: {} or the tree it should make]
    FetchSize,     \* multipart_part_size of the data cache
    MaxAttempts   \* a bound on the calls

VARIABLES
    job,        \* the member of Downloads
    step,       \* where the call is: "begin", "work", "ok", "err"
    tasks,      \* path -> the task that downloads the file
    halt,       \* the flag cancelled
    tally,      \* DownloadStatistics: total, downloaded and skipped files
    attempts,   \* history: the number of calls
    clashes     \* history: the targets that two tasks of a call had at once

downloadVars == <<tree, rows, job, step, tasks, halt, tally, attempts, clashes>>

-----------------------------------------------------------------------------
(* What the operating system does.  A Result of a file system. *)

Exists(fs, path) == metadata(fs, path) # {}

\* The place a path names, its last component not followed.
PlaceOf(fs, path) == {Append(q, Last(path)) : q \in canonicalize(fs, Front(path))}

Put(fs, path, node) == [q \in DOMAIN fs \cup {path} |-> IF q = path THEN node ELSE fs[q]]
Drop(fs, path) == [q \in DOMAIN fs \ {path} |-> fs[q]]

remove_file(fs, path) ==
    LET here == {q \in PlaceOf(fs, path) \cap DOMAIN fs : fs[q].kind # "dir"}
    IN IF here = {} THEN fs ELSE Drop(fs, The(here))

remove_dir(fs, path) ==
    LET here == {q \in PlaceOf(fs, path) \cap DOMAIN fs :
                    fs[q].kind = "dir" /\ \A r \in DOMAIN fs : ~Under(r, q)}
    IN IF here = {} THEN fs ELSE Drop(fs, The(here))

NewDir == [kind |-> "dir", bytes |-> <<>>, mtime |-> 0, runnable |-> FALSE, target |-> <<>>]

\* Each directory above and at the path, made where it is missing.
create_dir_all(fs, path) ==
    FoldLeft(LAMBDA r, n :
                IF r = {} THEN {}
                ELSE LET p == SubSeq(path, 1, n) IN
                     IF \E m \in metadata(The(r), p) : m.kind = "dir" THEN r
                     ELSE IF symlink_metadata(The(r), p) # {} THEN {}
                     ELSE {Put(The(r), q, NewDir) : q \in PlaceOf(The(r), p)},
             {fs}, [i \in 1..(Len(path) - 1) |-> i + 1])

\* rename of a file: fails on a directory.
rename(fs, from, to) ==
    {Drop(Put(fs, q, fs[from]), from) : q \in {r \in PlaceOf(fs, to) :
        r \in DOMAIN fs => fs[r].kind # "dir"}}

-----------------------------------------------------------------------------
(* Deletions, symlinks, directories *)

DeletedFiles(m) == {f.path : f \in {g \in m.files : g.deleted}}

\* One file after the other, in the order of the manifest; one that does not
\* exist is left alone, and so is a link whose target is gone by then.
ApplyDeletes(fs, m, files) ==
    LET dirs   == {d.path : d \in {e \in m.dirs : e.deleted}}
        order  == SetToSortSeq(dirs, LAMBDA p, q : Len(p) > Len(q))
        rm(t, p) == IF Exists(t, p) THEN remove_file(t, p) ELSE t
    IN FoldLeft(remove_dir, FoldLeft(rm, fs, files), order)

\* Kahn's algorithm on the symlinks: one after the one it points to, those on
\* a cycle at the end.
SymlinkOrder(links) ==
    LET pointsAt(f) == {g \in links : g.path = The(f.symlink_target)}
        rounds == FoldLeft(LAMBDA seq, i :
                    seq \o SetToSeq({f \in links \ Range(seq) : pointsAt(f) \subseteq Range(seq)}),
                    <<>>, [i \in 1..Cardinality(links) |-> i])
    IN rounds \o SetToSeq(links \ Range(rounds))

handle_symlink(fs, f, symlinks) ==
    LET node   == [NewDir EXCEPT !.kind = "link", !.target = The(f.symlink_target)]
        parent == create_dir_all(fs, Front(f.path))
        bare   == remove_file(The(parent), f.path)
    IN IF symlinks = "exclude_all" THEN {fs}
       ELSE IF parent = {} THEN {}
       ELSE {Put(bare, q, node) : q \in {r \in PlaceOf(bare, f.path) : r \notin DOMAIN bare}}

CreateSymlinks(fs, m, symlinks) ==
    FoldLeft(LAMBDA r, f : IF r = {} THEN {} ELSE handle_symlink(The(r), f, symlinks),
             {fs}, SymlinkOrder({f \in m.files : IsSymlink(f) /\ ~f.deleted}))

FilesOf(m) == {f \in m.files : IsRegular(f)}

\* The directories of the manifest and then the parents of its files.
EnsureDirs(fs, m) ==
    LET dirs == {d.path : d \in Kept(m.dirs)} \cup {Front(f.path) : f \in FilesOf(m)}
    IN FoldLeft(LAMBDA r, p : IF r = {} THEN {} ELSE create_dir_all(The(r), p),
                {fs}, SetToSortSeq(dirs \ {Empty}, LAMBDA p, q : Len(p) < Len(q)))

-----------------------------------------------------------------------------
(* The work list *)

\* The ranges and the hashes that the hash cache is asked for.
Pairs(f, m) ==
    IF f.hash # {} THEN <<[range |-> WHOLE_FILE_RANGE, hash |-> The(f.hash)]>>
    ELSE [i \in DOMAIN The(f.chunk_hashes) |->
            [range |-> Slices(The(f.size), m.chunk)[i], hash |-> The(f.chunk_hashes)[i]]]

SkipsOnAnyMtime(f, fs, table, j) ==
    IF j.cached /\ IsHashed(f) /\ f.mtime # {} /\ Exists(fs, f.path)
    THEN \A i \in DOMAIN Pairs(f, j.manifest) :
            \E k \in DOMAIN table : k = <<f.path, Pairs(f, j.manifest)[i].range>>
                                    /\ table[k].hash = Pairs(f, j.manifest)[i].hash
    ELSE Exists(fs, f.path) /\ j.conflict = "skip"

\* collect_work_item: is the file on the disk as it should be, or to be left alone?
collect_work_item(f, fs, table, j) ==
    LET fresh(i, node) ==
            LET pair == Pairs(f, j.manifest)[i] IN
            \E k \in DOMAIN table : /\ k = <<f.path, pair.range>>
                                    /\ table[k] = [hash |-> pair.hash, mtime |-> node.mtime]
        known == /\ j.cached /\ IsHashed(f) /\ f.mtime # {}
                 /\ \E node \in metadata(fs, f.path) :
                        \A i \in DOMAIN Pairs(f, j.manifest) : fresh(i, node)
    IN known \/ (Exists(fs, f.path) /\ j.conflict = "skip")

\* What a task fetches: the bytes [from, to) of an object, written at an
\* offset.  Only an object fetched whole has its hash verified.
PartsOf(hash, size, offset) ==
    IF size >= 2 * FetchSize
    THEN {[hash |-> hash, from |-> r[1], to |-> r[2], at |-> offset + r[1], verify |-> FALSE] :
            r \in Range(Slices(size, FetchSize))}
    ELSE {[hash |-> hash, from |-> 0, to |-> size, at |-> offset, verify |-> TRUE]}

FetchesOf(f, m) ==
    IF f.chunk_hashes # {}
    THEN UNION {LET cut == Slices(The(f.size), m.chunk)[i] IN
                PartsOf(The(f.chunk_hashes)[i], cut[2] - cut[1], cut[1]) :
                    i \in DOMAIN The(f.chunk_hashes)}
    ELSE PartsOf(The(f.hash), The(f.size), 0)

NewTask(f) == [stage |-> "queued", target |-> f.path, parts |-> {}, failed |-> {}]

\* The synchronous start of download_manifest; files is the order in which the
\* manifest lists its deleted files.
BeginDownload(files) ==
    LET m      == job.manifest
        erased == IF job.deletes THEN ApplyDeletes(tree, m, files) ELSE tree
        linked == CreateSymlinks(erased, m, job.symlinks)
        ready  == IF linked = {} THEN {} ELSE EnsureDirs(The(linked), m)
        skipped == {f \in FilesOf(m) : collect_work_item(f, The(ready), rows, job)}
    IN /\ step = "begin"
       /\ IF ready = {}
          THEN \* how far it came before the error is on the disk
               /\ tree' = IF linked = {} THEN erased ELSE The(linked)
               /\ step' = "err" /\ UNCHANGED <<tasks, tally>>
          ELSE /\ tree' = The(ready) /\ step' = "work"
               /\ tasks' = [p \in {f.path : f \in FilesOf(m) \ skipped} |->
                                NewTask(The({f \in FilesOf(m) : f.path = p}))]
               /\ tally' = [total |-> Cardinality(FilesOf(m)), downloaded |-> 0,
                            skipped |-> Cardinality(skipped)]
       /\ halt' = FALSE /\ attempts' = attempts + 1
       /\ UNCHANGED <<rows, job, clashes>>

-----------------------------------------------------------------------------
(* One task *)

FileAt(path) == The({f \in FilesOf(job.manifest) : f.path = path})

\* A name of its own for each call and task: its suffix is drawn at random.
TempOf(target, n, copy) ==
    Append(Front(target), Last(target) \o ".tmp" \o ToString(n) \o (IF copy THEN "c" ELSE ""))
temp_download_path(target, path) == TempOf(target, attempts, target # path)

\* The first "name (i)" that is free; one of the first few is.
create_copy_path(fs, path) ==
    LET copy(i) == Append(Front(path), Last(path) \o " (" \o ToString(i) \o ")")
        free == {i \in 1..(Cardinality(DOMAIN fs) + 1) : ~Exists(fs, copy(i))}
    IN copy(Min(free))

NewFile(bytes) == [NewDir EXCEPT !.kind = "file", !.bytes = bytes, !.mtime = FirstTime]
preallocate_file(fs, path, size) == Put(fs, path, NewFile([i \in 1..size |-> "0"]))

\* A small whole file goes through memory, the others are assembled on disk.
IsDirect(f) == f.hash # {} /\ \A p \in FetchesOf(f, job.manifest) : p.verify

\* The task has its worker and its memory.
StartTask(path) ==
    LET task == tasks[path]
        f    == FileAt(path)
        target == IF Exists(tree, path) /\ job.conflict = "create_copy"
                  THEN create_copy_path(tree, path) ELSE path
    IN /\ step = "work" /\ task.stage = "queued"
       /\ IF halt \/ ~IsHashed(f)
          THEN tasks' = [tasks EXCEPT ![path].stage = "failed"] /\ UNCHANGED <<tree, clashes>>
          ELSE /\ tasks' = [tasks EXCEPT ![path] =
                    [stage |-> "fetching", target |-> target,
                     parts |-> FetchesOf(f, job.manifest), failed |-> {}]]
               /\ tree' = IF IsDirect(f) THEN tree
                          ELSE preallocate_file(tree, temp_download_path(target, path), The(f.size))
               /\ clashes' = clashes \cup {tasks[p].target : p \in {q \in DOMAIN tasks :
                                    tasks[q].stage = "fetching" /\ tasks[q].target = target}}
       /\ UNCHANGED <<rows, job, step, halt, tally, attempts>>

WrittenAt(bytes, data, at) ==
    SubSeq(bytes, 1, at) \o data \o SubSeq(bytes, at + Len(data) + 1, Len(bytes))

FetchedUnverified(part) ==
    {SubSeq(job.objects[h].bytes, part.from + 1, part.to) :
        h \in {part.hash} \cap DOMAIN job.objects}

\* get_object and its check, or stream_range_to_file_at_offset.
Fetched(part) ==
    {SubSeq(job.objects[h].bytes, part.from + 1, part.to) :
        h \in {g \in {part.hash} \cap DOMAIN job.objects :
                part.verify => xxh3_128(job.objects[g].bytes) = g}}

\* One spawned request.  It goes on after its task gave up on another one.
FetchPart(path, part, arrives) ==
    LET task == tasks[path]
        temp == temp_download_path(task.target, path)
        data == IF arrives THEN Fetched(part) ELSE {}
    IN /\ step # "begin" /\ part \in task.parts
       /\ tasks' = [tasks EXCEPT ![path].parts = @ \ {part},
                                 ![path].failed = IF data = {} THEN @ \cup {part.at} ELSE @]
       /\ tree' = IF data = {} THEN tree
                  ELSE IF IsDirect(FileAt(path)) THEN Put(tree, temp, NewFile(The(data)))
                  ELSE Put(tree, temp, NewFile(WrittenAt(tree[temp].bytes, The(data), part.at)))
       /\ UNCHANGED <<rows, job, step, halt, tally, attempts, clashes>>

\* The requests are awaited in order; the first that failed ends the task and
\* leaves the temporary file.
TaskFails(path) ==
    LET task == tasks[path]
    IN /\ step = "work" /\ task.stage = "fetching"
       /\ \E at \in task.failed : \A part \in task.parts : part.at > at
       /\ tasks' = [tasks EXCEPT ![path].stage = "failed"]
       /\ UNCHANGED <<tree, rows, job, step, halt, tally, attempts, clashes>>

atomic_replace(fs, temp, target) == rename(fs, temp, target)

\* atomic_replace, then progress; goes_on is what the callback returns.
FinishTask(path, goes_on) ==
    LET task == tasks[path]
        temp == temp_download_path(task.target, path)
        done == atomic_replace(tree, temp, task.target)
    IN /\ step = "work" /\ task.stage = "fetching" /\ task.parts = {} /\ task.failed = {}
       /\ done = {} => goes_on
       /\ tree' = IF done = {} THEN Drop(tree, temp) ELSE The(done)
       /\ tasks' = [tasks EXCEPT ![path].stage =
                        IF done # {} /\ goes_on THEN "done" ELSE "failed"]
       /\ tally' = IF done = {} THEN tally ELSE [tally EXCEPT !.downloaded = @ + 1]
       /\ halt' = (halt \/ ~goes_on)
       /\ UNCHANGED <<rows, job, step, attempts, clashes>>

-----------------------------------------------------------------------------
(* The end of the call *)

\* set_modified, and the hash cache rows of one file.
Restored(fs, f, target) ==
    [fs EXCEPT ![The(PlaceOf(fs, target))].mtime = The(f.mtime)]

RowsOf(table, f, target) ==
    FoldLeft(LAMBDA t, pair : put(t, target, pair.range, pair.hash, The(f.mtime)),
             table, Pairs(f, job.manifest))

\* Results are applied in order up to the first error.
EndDownload ==
    LET done   == {p \in DOMAIN tasks : tasks[p].stage = "done"}
        failed == {p \in DOMAIN tasks : tasks[p].stage = "failed"}
    IN /\ step = "work" /\ done \cup failed = DOMAIN tasks
       /\ \E applied \in SUBSET done :
            /\ failed = {} => applied = done
            /\ tree' = FoldLeft(LAMBDA fs, p : Restored(fs, FileAt(p), tasks[p].target),
                                tree, SetToSeq(applied))
            /\ rows' = IF ~job.cached THEN rows
                       ELSE FoldLeft(LAMBDA t, p : RowsOf(t, FileAt(p), tasks[p].target),
                                     rows, SetToSeq(applied))
       /\ step' = IF failed = {} THEN "ok" ELSE "err"
       /\ UNCHANGED <<job, tasks, halt, tally, attempts, clashes>>

\* The process is killed, or its caller calls again.
Again ==
    /\ step \in {"work", "err"} /\ attempts < MaxAttempts
    /\ step' = "begin" /\ tasks' = Nothing
    /\ UNCHANGED <<tree, rows, job, halt, tally, attempts, clashes>>

DownloadInit ==
    /\ job \in Downloads
    /\ tree = job.tree /\ rows = job.rows
    /\ step = "begin" /\ tasks = Nothing /\ halt = FALSE /\ attempts = 0 /\ clashes = {}
    /\ tally = [total |-> 0, downloaded |-> 0, skipped |-> 0]

TaskStep(path) ==
    \/ StartTask(path)
    \/ \E part \in tasks[path].parts, arrives \in BOOLEAN : FetchPart(path, part, arrives)
    \/ TaskFails(path)
    \/ \E goes_on \in BOOLEAN : FinishTask(path, goes_on)

DownloadNext ==
    \/ \E files \in SetToSeqs(DeletedFiles(job.manifest)) : BeginDownload(files)
    \/ \E path \in DOMAIN tasks : TaskStep(path)
    \/ EndDownload
    \/ Again

-----------------------------------------------------------------------------
Holds(bytes, f) ==
    \/ f.hash = {xxh3_128(bytes)}
    \/ \E hashes \in f.chunk_hashes : \E c \in {job.manifest.chunk} :
        /\ Len(bytes) = The(f.size)
        /\ hashes = [i \in DOMAIN Slices(Len(bytes), c) |->
                xxh3_128(SubSeq(bytes, Slices(Len(bytes), c)[i][1] + 1,
                                       Slices(Len(bytes), c)[i][2]))]

\* The objects fetched in parts, whose hashes nobody compares, are genuine.
ObjectsAreGenuine ==
    \A f \in FilesOf(job.manifest) : \A part \in FetchesOf(f, job.manifest) :
        part.hash \in DOMAIN job.objects /\ ~part.verify =>
            xxh3_128(job.objects[part.hash].bytes) = part.hash

Copies(path) == {Append(Front(path), Last(path) \o " (" \o ToString(i) \o ")") :
                    i \in 1..(MaxAttempts + 1)}
Temps(n) == UNION {{TempOf(f.path, n, FALSE)} \cup {TempOf(t, n, TRUE) : t \in Copies(f.path)} :
                        f \in FilesOf(job.manifest)}
OldTemps == UNION {Temps(n) : n \in 1..attempts}

Removed(path) == \E e \in job.manifest.files \cup job.manifest.dirs :
                    /\ (path = e.path \/ Under(path, e.path))
                    /\ e.deleted \/ (e \in job.manifest.files /\ IsSymlink(e))

\* Whenever the process is killed, and whatever requests fail, a file under a
\* name that is not temporary is one that was there before or a whole file of
\* the manifest (temp_download_path, atomic_replace); the conflict resolutions
\* that promise to leave files alone do (collect_work_item, create_copy_path).
DownloadIsAtomic ==
    ObjectsAreGenuine =>
        \A path \in DOMAIN tree \ OldTemps :
            LET before == IF path \in DOMAIN job.tree THEN BytesAt(job.tree, path) ELSE {}
                now    == BytesAt(tree, path)
            IN tree[path].kind = "file" =>
                /\ now = before \/ \E f \in FilesOf(job.manifest), b \in now : Holds(b, f)
                /\ job.conflict # "overwrite" /\ before # {} /\ ~Removed(path) => now = before

\* A deleted link whose target was removed before it, and what it is in.
LeftBehind(path) ==
    \E p \in DeletedFiles(job.manifest) \cap DOMAIN tree :
        /\ tree[p].kind = "link" /\ ~Exists(tree, p)
        /\ path = p \/ Under(p, path)

\* A download that returned Ok left every file with its contents and its mtime
\* (Restored), under its name or under that of its copy, or skipped it because
\* it was there; no temporary file of the call is left, the hash cache is right
\* about the files on the disk (RowsOf), and the statistics add up.  A copy that
\* was given the name of another file of the manifest is excepted: one of the two
\* is lost, and the hash cache takes one for the other, also in later calls
\* (create_copy_path looks long before the rename).  When the manifest is the
\* difference to another tree, the disk is that tree, whatever turned into what,
\* but for deleted links that were left behind, dangling (path.exists()).
DownloadIsExact ==
    step = "ok" /\ ObjectsAreGenuine =>
        /\ Temps(attempts) \cap DOMAIN tree = {}
        /\ tally.downloaded + tally.skipped = tally.total
        /\ \A f \in FilesOf(job.manifest) :
            LET put_at == IF f.path \in DOMAIN tasks THEN tasks[f.path].target ELSE f.path IN
            \E n \in metadata(tree, put_at) :
                \/ job.conflict = "skip" /\ Exists(job.tree, f.path)
                \/ put_at \in clashes
                \/ /\ n.kind = "file" /\ Holds(n.bytes, f)
                   /\ f.path \in DOMAIN tasks => {n.mtime} = f.mtime
        /\ \A k \in DOMAIN rows : \A n \in metadata(tree, k[1]) :
            n.kind = "file" /\ rows[k].mtime = n.mtime /\ k[1] \notin clashes =>
                rows[k].hash = xxh3_128(IF k[2] = WHOLE_FILE_RANGE THEN n.bytes
                                        ELSE SubSeq(n.bytes, k[2][1] + 1, k[2][2]))
        /\ \A want \in job.want :
            /\ DOMAIN want \subseteq DOMAIN tree
            /\ \A p \in DOMAIN tree \ (DOMAIN want \cup OldTemps) : LeftBehind(p)
            /\ \A p \in DOMAIN want : tree[p].kind = want[p].kind /\
                    (want[p].kind = "file" => tree[p].bytes = want[p].bytes)
=============================================================================
