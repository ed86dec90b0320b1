----------------------------- MODULE SnapshotOps -----------------------------
(***************************************************************************)
(* The operations on manifests that touch no file: DIFF, COMPOSE, JOIN,    *)
(* FILTER, SUBTREE and PARTITION (ops/*.rs).  A Result is {} when the code *)
(* returns an error and {value} otherwise.                                 *)
(***************************************************************************)
EXTENDS Manifests, SequencesExt

-----------------------------------------------------------------------------
(* DIFF *)

entries_differ(old, new, ignore_hashes, ignore_runnable) ==
    IF IsSymlink(old) # IsSymlink(new) THEN TRUE
    ELSE IF IsSymlink(new) THEN old.symlink_target # new.symlink_target
    ELSE \/ old.size # new.size \/ old.mtime # new.mtime
         \/ ~ignore_hashes /\ (old.hash # new.hash \/ old.chunk_hashes # new.chunk_hashes)
         \/ ~ignore_runnable /\ old.runnable # new.runnable

has_hashed_files(m) ==
    LET regular == {f \in m.files : IsRegular(f)}
    IN IF regular = {} THEN {} ELSE {\E f \in regular : IsHashed(f)}

\* The entry that a file present now contributes to the diff, if any.
ChangedEntry(parent, new, options) ==
    LET old == {f \in parent.files : f.path = new.path}
    IN IF old = {} THEN {new}
       ELSE IF ~entries_differ(The(old), new, options.ignore_hashes,
                               options.preserve_runnable) THEN {}
       ELSE IF options.preserve_runnable /\ ~IsSymlink(new)
       THEN {[new EXCEPT !.runnable = The(old).runnable]}
       ELSE {new}

DiffDropsDirContents(parent, current, options) ==
    LET there == {d.path : d \in current.dirs}
        gone  == {d.path : d \in parent.dirs} \ there
        goneFiles == {f.path : f \in parent.files} \ {f.path : f \in current.files}
    IN {[EmptyManifest(parent.chunk) EXCEPT
            !.files = UNION {ChangedEntry(parent, f, options) : f \in current.files}
                        \cup {DeletedFile(p) : p \in {q \in goneFiles :
                                \A d \in gone : ~Under(q, d)}},
            !.dirs = {d \in current.dirs : d.path \notin {e.path : e \in parent.dirs}}
                        \cup {DeletedDir(p) : p \in gone}]}

diff_snapshots(parent, current, options) ==
    LET goneFiles == {f.path : f \in parent.files} \ {f.path : f \in current.files}
        goneDirs  == {d.path : d \in parent.dirs} \ {d.path : d \in current.dirs}
    IN IF /\ ~options.ignore_hashes
          /\ has_hashed_files(parent) # {} /\ has_hashed_files(current) # {}
          /\ has_hashed_files(parent) # has_hashed_files(current)
       THEN {}
       ELSE {recompute_total_size([EmptyManifest(parent.chunk) EXCEPT
                !.files = UNION {ChangedEntry(parent, f, options) : f \in current.files}
                            \cup {DeletedFile(p) : p \in goneFiles},
                !.dirs = {d \in current.dirs : d.path \notin {e.path : e \in parent.dirs}}
                            \cup {DeletedDir(p) : p \in goneDirs},
                !.parent = options.parent_manifest_hash])}

-----------------------------------------------------------------------------
(* COMPOSE.  The trie is a function whose domain is closed under prefixes; *)
(* the operations of TrieNode are lifted to sets of paths or entries.      *)

NewNode == [file |-> {}, deleted |-> FALSE]
NodesOn(p) == {SubSeq(p, 1, n) : n \in 1..Len(p)}

insert_path(trie, paths) ==
    [q \in DOMAIN trie \cup UNION {NodesOn(p) : p \in paths} |->
        IF q \in DOMAIN trie THEN trie[q] ELSE NewNode]

insert(trie, entries) ==
    LET grown == insert_path(trie, {f.path : f \in entries})
    IN [q \in DOMAIN grown |->
            LET here == {f \in entries : f.path = q}
            IN IF here = {} THEN grown[q] ELSE [file |-> {The(here)}, deleted |-> FALSE]]

Pruned(trie, nodes) == [q \in DOMAIN trie \ nodes |-> trie[q]]

delete_subtree(trie, paths) ==
    Pruned(trie, {q \in DOMAIN trie : \E p \in paths : q = p \/ Under(q, p)})

delete_if_empty(trie, paths) ==
    Pruned(trie, {p \in paths \cap DOMAIN trie :
                    trie[p].file = {} /\ \A q \in DOMAIN trie : ~Under(q, p)})

\* Deepest first; paths of one length never contain each other.
DeleteDirsDeepestFirst(trie, paths) ==
    LET depths == {Len(p) : p \in paths}
        byDepth == IF depths = {} THEN <<>> ELSE [n \in 1..Max(depths) |-> Max(depths) + 1 - n]
    IN FoldLeft(LAMBDA t, n : delete_if_empty(t, {p \in paths : Len(p) = n}), trie, byDepth)

mark_deleted(trie, paths) ==
    LET grown == insert_path(trie, paths)
    IN [q \in DOMAIN grown |->
            IF q \in paths THEN [file |-> {}, deleted |-> TRUE] ELSE grown[q]]

make_path(node) == IF Last(node) = "" THEN Slash ELSE node

collect_files(trie) ==
    UNION {trie[q].file : q \in {r \in DOMAIN trie : ~trie[r].deleted}}

collect_dirs(trie) ==
    {DirEntry(make_path(q)) :
        q \in {r \in DOMAIN trie : trie[r].file = {} /\ ~trie[r].deleted}}

collect_files_with_deletions(trie) ==
    LET leaf(q) == \A r \in DOMAIN trie : ~Under(r, q)
    IN UNION {IF trie[q].deleted
              THEN IF trie[q].file # {} \/ leaf(q) THEN {DeletedFile(make_path(q))} ELSE {}
              ELSE trie[q].file : q \in DOMAIN trie}

collect_dirs_with_deletions(trie) ==
    {IF trie[q].deleted THEN DeletedDir(make_path(q)) ELSE DirEntry(make_path(q)) :
        q \in {r \in DOMAIN trie : trie[r].file = {}}}

reconcile_deleted_flags(trie) ==
    [q \in DOMAIN trie |->
        [trie[q] EXCEPT !.deleted =
            @ /\ \A r \in DOMAIN trie : ~(/\ Under(r, q) /\ trie[r].file # {}
                                          /\ ~trie[r].deleted)]]

PathsOf(entries, deleted) == {e.path : e \in {f \in entries : f.deleted = deleted}}
Kept(entries) == {e \in entries : ~e.deleted}

ApplyDiff(trie, diff) ==
    LET withoutFiles == delete_subtree(trie, PathsOf(diff.files, TRUE))
        withoutDirs  == DeleteDirsDeepestFirst(withoutFiles, PathsOf(diff.dirs, TRUE))
    IN insert_path(insert(withoutDirs, Kept(diff.files)), PathsOf(diff.dirs, FALSE))

compose_snapshot_with_diffs(base, diffs) ==
    LET loaded == insert_path(insert(<<>>, base.files), {d.path : d \in base.dirs})
        trie   == FoldLeft(ApplyDiff, loaded, diffs)
    IN IF \E i \in DOMAIN diffs : diffs[i].chunk # base.chunk THEN {}
       ELSE {recompute_total_size([EmptyManifest(base.chunk) EXCEPT
                !.files = collect_files(trie), !.dirs = collect_dirs(trie)])}

MergeDiff(trie, diff) ==
    LET marked == mark_deleted(trie, PathsOf(diff.files, TRUE) \cup PathsOf(diff.dirs, TRUE))
        added  == insert_path(insert(marked, Kept(diff.files)), PathsOf(diff.dirs, FALSE))
    IN [q \in DOMAIN added |->
            IF q \in PathsOf(diff.dirs, FALSE) THEN [added[q] EXCEPT !.deleted = FALSE]
            ELSE added[q]]

compose_diffs(diffs) ==
    LET trie == reconcile_deleted_flags(FoldLeft(MergeDiff, <<>>, diffs))
    IN IF diffs = <<>> \/ \E i \in DOMAIN diffs : diffs[i].chunk # diffs[1].chunk THEN {}
       ELSE {recompute_total_size([EmptyManifest(diffs[1].chunk) EXCEPT
                !.files = collect_files_with_deletions(trie),
                !.dirs = collect_dirs_with_deletions(trie),
                !.parent = diffs[1].parent])}

-----------------------------------------------------------------------------
(* JOIN *)

join_path(prefix, path) == normalize_path(prefix \o path)

\* Mutant: the target of a symlink is not joined.
JoinFileKeepsTarget(prefix, f) == [f EXCEPT !.path = join_path(prefix, @)]

join_file(prefix, f) ==
    [f EXCEPT !.path = join_path(prefix, @),
              !.symlink_target = {join_path(prefix, t) : t \in @}]

join_dir(prefix, d) == [d EXCEPT !.path = join_path(prefix, @)]

join_impl(m, prefix) ==
    [m EXCEPT !.files = {join_file(prefix, f) : f \in @},
              !.dirs = {join_dir(prefix, d) : d \in @},
              !.parent = {}]

join_manifest(m, prefix) == IF prefix = Empty THEN {} ELSE {join_impl(m, prefix)}

(* FILTER.  Include and exclude are sets of paths, those the globs match. *)

matches_path(filter, path) ==
    /\ filter.include = {} \/ path \in filter.include
    /\ path \notin filter.exclude

filter_manifest(m, filter) ==
    recompute_total_size(
        [m EXCEPT !.files = {f \in @ : matches_path(filter, f.path)},
                  !.dirs = {d \in @ : matches_path(filter, d.path)}])

-----------------------------------------------------------------------------
(* SUBTREE *)

CollapsePolicies == {"collapse_all", "collapse_escaping"}
SubtreePolicies  == CollapsePolicies \cup {"exclude_all", "exclude_escaping"}

strip_prefix(path, prefix) ==
    LET base == IF Last(prefix) = "" THEN Front(prefix) ELSE prefix
    IN IF prefix \in {Empty, Dot} THEN {path}
       ELSE IF path = prefix THEN {Empty}
       ELSE IF Under(path, base) THEN {SubSeq(path, Len(base) + 1, Len(path))}
       ELSE {}

\* resolve_symlink: the regular or deleted entry at the end of the chain.
RECURSIVE Follow(_, _, _)
Follow(target, files, visited) ==
    LET here == {f \in files : f.path = target}
    IN IF target \in visited \/ here = {} THEN {}
       ELSE IF ~IsSymlink(The(here)) THEN here
       ELSE Follow(The(The(here).symlink_target), files, visited \cup {target})

resolve_symlink(target, files) == Follow(target, files, {})

is_dir_target(target, files) == \E f \in files : Under(f.path, target)

expand_dir_symlink(link, target, files, policy) ==
    LET moved(f, e) == [e EXCEPT !.path = link \o SubSeq(f.path, Len(target) + 1, Len(f.path))]
    IN UNION {IF IsSymlink(f) /\ policy = "collapse_all"
              THEN {moved(f, e) : e \in resolve_symlink(The(f.symlink_target), files)}
              ELSE {moved(f, f)} : f \in {g \in files : Under(g.path, target)}}

Collapsed(f, rel, files, policy) ==
    LET target == The(f.symlink_target)
    IN IF is_dir_target(target, files) THEN expand_dir_symlink(rel, target, files, policy)
       ELSE {[e EXCEPT !.path = rel] : e \in resolve_symlink(target, files)}

process_symlink(f, rel, prefix, files, policy) ==
    LET inside == strip_prefix(The(f.symlink_target), prefix)
    IN CASE policy = "exclude_all"  -> {}
         [] policy = "collapse_all" -> Collapsed(f, rel, files, policy)
         [] inside # {} -> {[f EXCEPT !.path = rel, !.symlink_target = inside]}
         [] OTHER -> IF policy = "exclude_escaping" THEN {}
                     ELSE Collapsed(f, rel, files, policy)

process_files(files, prefix, policy) ==
    UNION {UNION {IF IsSymlink(f) THEN process_symlink(f, rel, prefix, files, policy)
                  ELSE {[f EXCEPT !.path = rel]} :
                      rel \in strip_prefix(f.path, prefix) \ {Empty}} : f \in files}

process_dirs(dirs, prefix) ==
    UNION {{[d EXCEPT !.path = normalize_path(rel)] :
                rel \in strip_prefix(d.path, prefix) \ {Empty}} : d \in dirs}

manifest_is_absolute(m) ==
    LET entries == IF m.files # {} THEN m.files ELSE m.dirs
    IN {is_absolute_path(e.path) : e \in entries}

subtree_impl(m, subtree, policy) ==
    LET prefix == normalize_path(subtree)
    IN IF \/ policy \notin SubtreePolicies
          \/ prefix \notin {Dot, Empty} /\ ~(manifest_is_absolute(m) \subseteq
                                                {is_absolute_path(prefix)})
       THEN {}
       ELSE {recompute_total_size([EmptyManifest(m.chunk) EXCEPT
                !.files = process_files(m.files, prefix, policy),
                !.dirs = process_dirs(m.dirs, prefix)])}

-----------------------------------------------------------------------------
(* PARTITION.  The roots are a set: the order of the result is left out. *)

longest_common_prefix(dirs) ==
    LET common == CommonPrefix(dirs)
    IN IF Cardinality(dirs) = 1 THEN The(dirs)
       ELSE IF common = <<"">> THEN Slash
       ELSE IF common = <<>> THEN Empty
       ELSE common

containing_dir(path) ==
    IF Len(path) = 1 THEN Empty
    ELSE IF Len(path) = 2 /\ path[1] = "" THEN Slash
    ELSE Front(path)

all_dir_paths(m) == {containing_dir(f.path) : f \in m.files} \cup {d.path : d \in m.dirs}

find_root_for_path(path, roots) ==
    {r \in roots : r = Dot \/ path = r \/ Under(path, r)}

validate_no_nested_roots(roots) == \A a, b \in roots : ~Under(a, b)

validate_path_style(m, options) ==
    manifest_is_absolute(m) # {} =>
        \A p \in options.roots \cup options.referenced_paths :
            is_absolute_path(p) = The(manifest_is_absolute(m))

GroupKey(path) ==
    IF path[1] = "" /\ Len(path) > 1 THEN SubSeq(path, 1, 2) ELSE SubSeq(path, 1, 1)

group_into_roots(paths) ==
    LET prefix == longest_common_prefix(paths)
    IN IF paths = {} THEN {}
       ELSE IF Cardinality(paths) = 1 THEN paths
       ELSE IF prefix \notin {Empty, Slash} THEN {prefix}
       ELSE {longest_common_prefix({p \in paths : GroupKey(p) = k}) :
                k \in {GroupKey(p) : p \in paths}}

auto_roots(paths, abs) ==
    LET named == paths \ {Empty}
    IN IF paths = {} THEN {}
       ELSE IF abs \/ named = paths THEN {longest_common_prefix(paths)}
       ELSE IF named = {} THEN {Dot}
       ELSE LET prefix == longest_common_prefix(named \cup {Dot})
            IN IF prefix = Empty THEN {Dot} ELSE {prefix}

compute_roots(m, options) ==
    LET abs   == manifest_is_absolute(m) # {FALSE}
        paths == all_dir_paths(m) \cup {normalize_path(p) : p \in options.referenced_paths}
        explicit == {normalize_path(r) : r \in options.roots}
        remaining == {p \in paths : IF p = Empty /\ ~abs THEN Dot \notin explicit
                                    ELSE find_root_for_path(p, explicit) = {}}
    IN IF ~validate_no_nested_roots(explicit) THEN {}
       ELSE IF explicit = {} THEN {auto_roots(paths, abs)}
       ELSE {explicit \cup group_into_roots(remaining)}

partition_manifest(m, options) ==
    LET roots == compute_roots(m, options)
    IN IF \/ options.policy \notin SubtreePolicies
          \/ ~validate_path_style(m, options) \/ roots = {}
       THEN {}
       ELSE {[r \in The(roots) |-> The(subtree_impl(m, r, options.policy))]}
=============================================================================
