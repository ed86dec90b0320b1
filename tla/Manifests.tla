------------------------------ MODULE Manifests ------------------------------
(***************************************************************************)
(* Snapshot manifests (manifest.rs, path_util.rs): the entries of a file   *)
(* tree, their validation, their total size and their common root.         *)
(*                                                                         *)
(* A path is the sequence its text splits into at '/': "/a/b" is           *)
(* <<"", "a", "b">>, "/" is <<"", "">>, "C:/" is <<"C:", "">>, "a/b" is    *)
(* <<"a", "b">> and the empty text is <<"">>.  "p starts with d followed   *)
(* by '/'" is then "d is a proper prefix of p".  An Option is {} or {x}.   *)
(* The lists of entries are sets: their order carries no meaning.          *)
(***************************************************************************)
EXTENDS Integers, Sequences, FiniteSetsExt, Functions

Drives == {"C:", "D:"}
WHOLE_FILE_CHUNK_SIZE == 0 - 1

Empty   == <<"">>
Slash   == <<"", "">>
Dot     == <<".">>
Under(p, dir) == Len(p) > Len(dir) /\ SubSeq(p, 1, Len(dir)) = dir

-----------------------------------------------------------------------------
(* path_util.rs *)

IsAbs(p) == p[1] \in Drives \cup {""}

\* One component of a path being normalized; parts is what is kept so far.
PushComponent(parts, component, abs) ==
    IF component \in {"", "."} THEN parts
    ELSE IF component # ".." THEN Append(parts, component)
    ELSE IF ~abs /\ (parts = <<>> \/ parts[Len(parts)] = "..") THEN Append(parts, "..")
    ELSE IF parts = <<>> THEN parts
    ELSE SubSeq(parts, 1, Len(parts) - 1)

PushComponents[parts \in Seq(STRING), rest \in Seq(STRING), abs \in BOOLEAN] ==
    IF rest = <<>> THEN parts
    ELSE PushComponents[PushComponent(parts, Head(rest), abs), Tail(rest), abs]

FromParts(p, parts) ==
    IF IsAbs(p) THEN <<p[1]>> \o (IF parts = <<>> THEN Empty ELSE parts)
    ELSE IF parts = <<>> THEN Dot ELSE parts

normalize_path(p) ==
    IF p = Empty THEN Empty
    ELSE FromParts(p, PushComponents[<<>>, IF p[1] \in Drives THEN Tail(p) ELSE p, IsAbs(p)])

is_absolute_path(p) == p[1] \in Drives \/ (p[1] = "" /\ Len(p) > 1)

-----------------------------------------------------------------------------
(* Entries *)

FileEntry(path) ==
    [path |-> normalize_path(path), hash |-> {}, size |-> {}, mtime |-> {},
     chunk_hashes |-> {}, symlink_target |-> {}, runnable |-> FALSE,
     deleted |-> FALSE]

RegularFile(path, size, mtime) ==
    [FileEntry(path) EXCEPT !.size = {size}, !.mtime = {mtime}]

Symlink(path, target) ==
    [FileEntry(path) EXCEPT !.symlink_target = {normalize_path(target)}]

DeletedFile(path) == [FileEntry(path) EXCEPT !.deleted = TRUE]

DirEntry(path) == [path |-> normalize_path(path), deleted |-> FALSE]

DeletedDir(path) == [path |-> normalize_path(path), deleted |-> TRUE]

IsSymlink(f) == f.symlink_target # {}
IsRegular(f) == ~IsSymlink(f) /\ ~f.deleted
IsHashed(f)  == f.hash # {} \/ f.chunk_hashes # {}

The(option) == CHOOSE x \in option : TRUE
Nothing == <<>>

\* Where the chunks of a file, or the parts of an object, start and end.
Slices(size, size_of_chunk) ==
    [i \in 1..((size + size_of_chunk - 1) \div size_of_chunk) |->
        <<(i - 1) * size_of_chunk, Min({i * size_of_chunk, size})>>]

-----------------------------------------------------------------------------
(* Manifest<P, K>.  P is the path style ("abs", "rel"), K the kind ("full", *)
(* "diff"); like the phantom types they are no part of the value.           *)

EmptyManifest(chunk) ==
    [files |-> {}, dirs |-> {}, total_size |-> 0, parent |-> {}, chunk |-> chunk]

recompute_total_size(m) ==
    [m EXCEPT !.total_size =
        MapThenSumSet(LAMBDA f : The(f.size),
                      {f \in m.files : IsRegular(f) /\ f.size # {}})]

with_files(m, files) == recompute_total_size([m EXCEPT !.files = files])

clear_hashes(m) ==
    [m EXCEPT !.files =
        {IF IsRegular(f) THEN [f EXCEPT !.hash = {}, !.chunk_hashes = {}] ELSE f :
            f \in m.files}]

\* The entries that stay: a diff's deletion markers name nothing that exists.
LivePaths(m) ==
    {f.path : f \in {g \in m.files : ~g.deleted}}
        \cup {d.path : d \in {e \in m.dirs : ~e.deleted}}

parent_dir(path) ==
    IF path \in {Empty, Slash, Dot} THEN path
    ELSE IF Len(path) = 1 THEN Dot
    ELSE IF Len(path) = 2 /\ path[1] \in Drives \cup {""} THEN <<path[1], "">>
    ELSE SubSeq(path, 1, Len(path) - 1)

dir_is_empty(dir, live) ==
    LET others == live \ {dir}
    IN IF dir = Slash THEN \A p \in others : ~(p[1] = "" /\ Len(p) > 1)
       ELSE IF dir = Dot THEN \A p \in others : is_absolute_path(p)
       ELSE \A p \in others : ~Under(p, dir)

CommonPrefix(paths) ==
    LET least == Min({Len(p) : p \in paths})
        agree == {n \in 0..least : \A p, q \in paths : SubSeq(p, 1, n) = SubSeq(q, 1, n)}
    IN SubSeq(CHOOSE p \in paths : TRUE, 1, Max(agree))

longest_common_dir_prefix(paths) ==
    LET common == CommonPrefix(paths)
    IN IF common = <<>> THEN Dot
       ELSE IF Len(common) = 1 /\ common[1] \in Drives \cup {""}
            THEN <<common[1], "">>
       ELSE common

common_root(m) ==
    LET live == LivePaths(m)
        contributors ==
            {parent_dir(f.path) : f \in {g \in m.files : ~g.deleted}}
                \cup {d.path : d \in {e \in m.dirs : /\ ~e.deleted
                                                      /\ dir_is_empty(e.path, live)}}
    IN IF contributors = {} THEN {} ELSE {longest_common_dir_prefix(contributors)}

-----------------------------------------------------------------------------
(* Manifest::validate *)

validate_path(path, style) ==
    path # Empty /\ (is_absolute_path(path) <=> style = "abs")

validate_deleted(deleted, kind) == kind = "full" => ~deleted

FileIsValid(f, style) ==
    IF f.deleted
    THEN f.size = {} /\ f.mtime = {} /\ ~IsHashed(f) /\ ~IsSymlink(f)
    ELSE IF IsSymlink(f)
    THEN validate_path(The(f.symlink_target), style) /\ ~IsHashed(f)
    ELSE /\ f.hash = {} \/ f.chunk_hashes = {}
         /\ f.size # {} /\ f.mtime # {}

ChunksAreValid(f, chunk) ==
    f.chunk_hashes # {} =>
        /\ f.size # {} /\ chunk # WHOLE_FILE_CHUNK_SIZE
        /\ The(f.size) > chunk
        /\ Len(The(f.chunk_hashes)) = (The(f.size) + chunk - 1) \div chunk

NoDuplicatePaths(m) ==
    /\ \A f, g \in m.files : f.path = g.path => f = g
    /\ \A d, e \in m.dirs : d.path = e.path => d = e
    /\ {f.path : f \in m.files} \cap {d.path : d \in m.dirs} = {}

validate(m, style, kind) ==
    /\ m.chunk = WHOLE_FILE_CHUNK_SIZE \/ m.chunk > 0
    /\ \A f \in m.files : /\ validate_path(f.path, style)
                          /\ validate_deleted(f.deleted, kind)
                          /\ FileIsValid(f, style)
                          /\ ChunksAreValid(f, m.chunk)
    /\ \A d \in m.dirs : /\ validate_path(d.path, style)
                         /\ validate_deleted(d.deleted, kind)
    /\ NoDuplicatePaths(m)
=============================================================================
