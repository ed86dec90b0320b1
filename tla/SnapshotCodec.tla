---------------------------- MODULE SnapshotCodec ----------------------------
(***************************************************************************)
(* The on-disk manifest formats (codec.rs).  A document is a record of the *)
(* members of the JSON object; the JSON text, its key order and escapes    *)
(* are left out, and so is the order of the paths.  A v2025 name is a      *)
(* plain path or a reference "$n/rest" into the list of directories.       *)
(***************************************************************************)
EXTENDS Collect

Specs == {"abs_snapshot", "abs_diff", "rel_snapshot", "rel_diff"}
StyleOf(spec) == IF spec \in {"abs_snapshot", "abs_diff"} THEN "abs" ELSE "rel"
KindOf(spec)  == IF spec \in {"abs_snapshot", "rel_snapshot"} THEN "full" ELSE "diff"

validate_symlink_targets_relative(files) ==
    \A f \in files : \A t \in f.symlink_target : ~is_absolute_path(t)

-----------------------------------------------------------------------------
(* v2023: hashed regular files of a relative manifest, nothing else. *)

PathsV2023(files) ==
    {[path |-> f.path, hash |-> The(f.hash), size |-> f.size, mtime |-> f.mtime] :
        f \in {g \in files : IsRegular(g)}}

FlattenedForV2023(m) == The(subtree_impl(m, Dot, "collapse_all"))

DocumentV2023(m, total) ==
    LET files == FlattenedForV2023(m).files
        document == [version |-> "2023-03-03", alg |-> "xxh128",
                     paths |-> PathsV2023(files), total |-> total]
    IN IF \/ ~validate_symlink_targets_relative(m.files)
          \/ m.chunk # WHOLE_FILE_CHUNK_SIZE
          \/ \E f \in files : IsRegular(f) /\ f.hash = {}
       THEN {} ELSE {document}

encode_snapshot_v2023(m) == DocumentV2023(m, FlattenedForV2023(m).total_size)

\* The size of what is written: the deletions are dropped.
encode_snapshot_diff_v2023(m) ==
    DocumentV2023(m, MapThenSumSet(LAMBDA f : The(f.size),
        {f \in FlattenedForV2023(m).files : IsRegular(f) /\ f.size # {}}))

decode_v2023_with_kind(doc, kind) ==
    LET entry(p) == [RegularFile(p.path, The(p.size), The(p.mtime)) EXCEPT !.hash = {p.hash}]
        m == [EmptyManifest(WHOLE_FILE_CHUNK_SIZE) EXCEPT
                !.files = {entry(p) : p \in doc.paths}, !.total_size = doc.total]
    IN IF \/ doc.version # "2023-03-03" \/ doc.alg # "xxh128"
          \/ \E p \in doc.paths : p.size = {} \/ p.mtime = {}
       THEN {}
       ELSE IF validate(m, "rel", kind) THEN {m} ELSE {}

-----------------------------------------------------------------------------
(* v2025 *)

\* Every directory above a path but "/".  DirEntry::new turns "C:" into "C:/".
extract_parent_dirs(path) ==
    {SubSeq(path, 1, n) : n \in {k \in 1..(Len(path) - 1) : k > 1 \/ path[1] # ""}}

collect_all_directories(dirs, files) ==
    LET paths == {e.path : e \in dirs \cup {[path |-> f.path] : f \in files}}
                    \cup UNION {f.symlink_target : f \in files}
        inferred == UNION {extract_parent_dirs(p) : p \in paths}
    IN dirs \cup {DirEntry(p) : p \in inferred \ {d.path : d \in dirs}}

\* Parents before children, as in the order of their texts.
SortedDirs(dirs) == SetToSortSeq(dirs, LAMBDA d, e : Len(d.path) < Len(e.path))

encode_path_with_dir_index(path, sorted) ==
    LET here == {i \in DOMAIN sorted : sorted[i].path = Front(path)}
    IN IF Len(path) > 1 /\ here # {} THEN [ref |-> {The(here)}, rest |-> <<Last(path)>>]
       ELSE [ref |-> {}, rest |-> path]

encode_file(f, sorted) ==
    [name |-> encode_path_with_dir_index(f.path, sorted),
     hash |-> f.hash,
     chunk_hashes |-> IF f.hash = {} THEN f.chunk_hashes ELSE {},
     symlink |-> IF IsHashed(f) THEN {}
                 ELSE {encode_path_with_dir_index(t, sorted) : t \in f.symlink_target},
     size  |-> IF IsRegular(f) THEN f.size ELSE {},
     mtime |-> IF IsRegular(f) THEN f.mtime ELSE {},
     runnable |-> IsRegular(f) /\ f.runnable,
     delete |-> f.deleted]

encode_v2025(m, spec) ==
    LET sorted == SortedDirs(collect_all_directories(m.dirs, m.files))
    IN [spec |-> spec, alg |-> "xxh128", total |-> m.total_size,
        parent |-> m.parent, chunk |-> {m.chunk},
        dirs |-> [i \in DOMAIN sorted |->
            [name |-> encode_path_with_dir_index(sorted[i].path, sorted),
             delete |-> sorted[i].deleted]],
        files |-> {encode_file(f, sorted) : f \in m.files}]

\* encode_abs_* and encode_* of the four kinds.
encode_snapshot_v2025(m, spec) ==
    IF StyleOf(spec) = "rel" /\ ~validate_symlink_targets_relative(m.files) THEN {}
    ELSE {encode_v2025(m, spec)}

\* {} is the error: an unknown index, or a path with '/' that is no reference.
expand_path_reference(name, index) ==
    IF name.ref # {}
    THEN IF The(name.ref) \in DOMAIN index THEN {index[The(name.ref)] \o name.rest} ELSE {}
    ELSE IF Len(name.rest) = 1 \/ name.rest[1] = "" THEN {name.rest} ELSE {}

\* The directories expanded so far resolve the next one; <<>> stands for the
\* error from there on.
build_dir_index(dirs) ==
    FoldLeft(LAMBDA acc, d :
                LET paths == IF acc = {} THEN {} ELSE expand_path_reference(d.name, The(acc))
                IN {Append(The(acc), p) : p \in paths},
             {<<>>}, dirs)

decode_file(f, index) ==
    {[FileEntry(p) EXCEPT !.hash = f.hash, !.size = f.size, !.mtime = f.mtime,
        !.chunk_hashes = f.chunk_hashes,
        !.symlink_target = UNION {expand_path_reference(t, index) : t \in f.symlink},
        !.runnable = f.runnable, !.deleted = f.delete] :
            p \in expand_path_reference(f.name, index)}

FileExpands(f, index) ==
    /\ expand_path_reference(f.name, index) # {}
    /\ \A t \in f.symlink : expand_path_reference(t, index) # {}

DefaultChunk == 1000

decode_v2025(doc) ==
    LET indexes == build_dir_index(doc.dirs)
        index   == The(indexes)
        m == [files |-> UNION {decode_file(f, index) : f \in doc.files},
              dirs |-> {[DirEntry(index[i]) EXCEPT !.deleted = doc.dirs[i].delete] :
                            i \in DOMAIN doc.dirs},
              total_size |-> doc.total, parent |-> doc.parent,
              chunk |-> IF doc.chunk = {} THEN DefaultChunk ELSE The(doc.chunk)]
    IN IF \/ doc.spec \notin Specs \/ doc.alg # "xxh128" \/ indexes = {}
       THEN {}
       ELSE IF \E f \in doc.files : ~FileExpands(f, index) THEN {}
       ELSE IF validate(m, StyleOf(doc.spec), KindOf(doc.spec)) THEN {m} ELSE {}
=============================================================================
