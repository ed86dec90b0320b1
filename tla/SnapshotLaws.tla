----------------------------- MODULE SnapshotLaws -----------------------------
(***************************************************************************)
(* What the operations on snapshots promise, stated over the snapshots a   *)
(* caller of SnapshotChain takes of a directory that is edited meanwhile.  *)
(***************************************************************************)
EXTENDS SnapshotChain

Settled == shot = {} /\ snaps # <<>>

WithinOrAt(p, dir) == p = dir \/ Under(p, dir)
AllPaths(m) == {f.path : f \in m.files} \cup {d.path : d \in m.dirs}
Above(paths) == UNION {{SubSeq(p, 1, n) : n \in 1..(Len(p) - 1)} : p \in paths}

-----------------------------------------------------------------------------
(* DIFF and COMPOSE *)

Options(ignore_hashes, preserve_runnable) ==
    [ignore_hashes |-> ignore_hashes, preserve_runnable |-> preserve_runnable,
     parent_manifest_hash |-> {}]

DiffsOf(options) ==
    [i \in 1..(Len(snaps) - 1) |-> The(diff_snapshots(snaps[i], snaps[i + 1], options))]

\* The directories that a snapshot implies and does not list.
Unlisted(m) == Above(AllPaths(m)) \ {d.path : d \in m.dirs}

\* Composing the first snapshot with the diffs since gives the last one.  Of
\* the directories it may keep those that no snapshot listed, and what is above.
DiffsRebuild(options) ==
    LET made == The(compose_snapshot_with_diffs(snaps[1], DiffsOf(options)))
        last == Last(snaps)
        dirs == {d.path : d \in last.dirs} \cup Unlisted(last)
        lost == UNION {Unlisted(snaps[i]) : i \in DOMAIN snaps}
        made_dirs == {d.path : d \in made.dirs}
    IN /\ made.files = last.files
       /\ made.total_size = last.total_size
       /\ {make_path(p) : p \in dirs} \subseteq made_dirs
       /\ made_dirs \subseteq {make_path(p) : p \in dirs \cup lost \cup Above(lost)}

\* One of the diffs deletes a file where that or a later one has a directory.
FileBecomesDir(diffs) ==
    \E i, j \in DOMAIN diffs : i <= j /\
        \E f \in diffs[i].files :
            f.deleted /\ \E e \in Kept(diffs[j].files) \cup Kept(diffs[j].dirs) :
                            Under(e.path, f.path) \/ (e.path = f.path /\ e \in diffs[j].dirs)

\* The same files; the same directories too where the snapshots list theirs.
OneDiffIsAsGood ==
    LET diffs == DiffsOf(Options(FALSE, FALSE))
        once  == The(compose_snapshot_with_diffs(snaps[1], <<The(compose_diffs(diffs))>>))
        each  == The(compose_snapshot_with_diffs(snaps[1], diffs))
    IN diffs # <<>> =>
        /\ once.files = each.files
        /\ (\A i \in DOMAIN snaps : Unlisted(snaps[i]) \subseteq Above({Root}))
                => once.dirs = each.dirs

\* With preserve_runnable the execute bits stay as they were.
RunnableIsPreserved ==
    LET made == The(compose_snapshot_with_diffs(snaps[1], DiffsOf(Options(FALSE, TRUE))))
        bare(m) == {[f EXCEPT !.runnable = FALSE] : f \in m.files}
    IN /\ bare(made) = bare(Last(snaps))
       /\ Len(snaps) = 2 =>
            \A f \in snaps[1].files, g \in made.files :
                f.path = g.path /\ ~IsSymlink(g) => f.runnable = g.runnable

\* However the directory was edited between the snapshots, applying the diffs
\* between them in order to the first snapshot gives the files of the last one
\* (diff_snapshots, compose_snapshot_with_diffs), with and without hashes.
\* Composing the diffs into one first (compose_diffs) makes no difference
\* unless they turn a file into a directory.
DiffsRebuildSnapshots ==
    Settled =>
        /\ \A ignore_hashes \in BOOLEAN : DiffsRebuild(Options(ignore_hashes, FALSE))
        /\ RunnableIsPreserved
        /\ FileBecomesDir(DiffsOf(Options(FALSE, FALSE))) \/ OneDiffIsAsGood

\* compose_diffs documents its result as equivalent to applying all the diffs
\* in order.
ComposedDiffIsEquivalent == Settled => OneDiffIsAsGood

-----------------------------------------------------------------------------
(* SUBTREE, JOIN, PARTITION, FILTER, the common root and the formats *)

Subtree(m, pol) == The(subtree_impl(m, Root, pol))
Rejoined(m, dir) == The(join_manifest(m, dir))

Escapes(f) == IsSymlink(f) /\ ~WithinOrAt(The(f.symlink_target), Root)

\* Cutting the root out and joining it back loses what escapes and no more.
SubtreeInvertsJoin(m) ==
    LET back == Rejoined(Subtree(m, "exclude_escaping"), Root)
    IN /\ back.files = {f \in m.files : Under(f.path, Root) /\ ~Escapes(f)}
       /\ back.dirs = {d \in m.dirs : Under(d.path, Root)}

\* A collapsed symlink to a file is that file under the link's name.
CollapseKeepsContent(m) ==
    LET flat == Rejoined(Subtree(m, "collapse_all"), Root)
    IN /\ \A f \in flat.files : /\ ~IsSymlink(f)
                                /\ \E g \in m.files : g = [f EXCEPT !.path = g.path]
       /\ \A f \in m.files : \A t \in f.symlink_target :
            \A e \in resolve_symlink(t, m.files) :
                Under(f.path, Root) => [e EXCEPT !.path = f.path] \in flat.files

PartitionsOf(m, roots, referenced) ==
    The(partition_manifest(m, [roots |-> roots, referenced_paths |-> referenced,
                               policy |-> "collapse_escaping"]))

\* Every file is in a partition, in only one when the roots are found.
PartitionCovers(m) ==
    \A roots \in {{}} \cup {{p} : p \in Places} : \A referenced \in {{}, {Root}} :
        LET parts == PartitionsOf(m, roots, referenced)
            homes == UNION {{<<r, f>> : f \in Rejoined(parts[r], r).files} : r \in DOMAIN parts}
            of(f) == {h \in homes : h[2] = f}
        IN \A f \in {g \in m.files : ~IsSymlink(g)} :
            /\ of(f) # {}
            /\ roots = {} => Cardinality(of(f)) = 1

\* The common root is the deepest directory that holds every file and every
\* empty directory.
CommonRootIsDeepest(m) ==
    LET holders == {Front(f.path) : f \in m.files}
                    \cup {d.path : d \in {e \in m.dirs :
                            \A p \in AllPaths(m) : ~Under(p, e.path)}}
        within(dir) == \A h \in holders : WithinOrAt(h, dir)
    IN /\ (common_root(m) = {}) = (holders = {})
       /\ \A root \in common_root(m) :
            LET dir == IF root = Slash THEN Empty ELSE root
            IN within(dir) /\ \A h \in holders : \A n \in (Len(dir) + 1)..Len(h) :
                                ~within(SubSeq(h, 1, n))

\* Decoding what was encoded gives the manifest with its implied directories.
CodecKeepsManifest(m, spec) ==
    LET named == AllPaths(m) \cup UNION {f.symlink_target : f \in m.files}
        added == {p \in Above(named) : p # Empty} \ {d.path : d \in m.dirs}
    IN validate([m EXCEPT !.dirs = @ \cup {DirEntry(p) : p \in added}],
                StyleOf(spec), KindOf(spec)) =>
        decode_v2025(The(encode_snapshot_v2025(m, spec)))
            = {[m EXCEPT !.dirs = @ \cup {DirEntry(p) : p \in added}]}

\* v2023 keeps the regular files, whatever the symlinks led to among them.
OldCodecKeepsFiles(m) ==
    \A doc \in encode_snapshot_v2023(m) :
        LET back == decode_v2023_with_kind(doc, "full")
            flat == The(subtree_impl(m, Dot, "collapse_all"))
        IN /\ back # {}
           /\ The(back).files = {[f EXCEPT !.runnable = FALSE] : f \in flat.files}
           /\ The(back).total_size = flat.total_size

\* A diff loses its deletions in v2023, and nothing else.
OldCodecKeepsChanges(d) ==
    LET rel == The(subtree_impl(d, Root, "collapse_all"))
    IN \A doc \in encode_snapshot_diff_v2023(rel) :
        LET back == The(decode_v2023_with_kind(doc, "diff"))
        IN /\ back.files = {[f EXCEPT !.runnable = FALSE] :
                               f \in {g \in rel.files : ~g.deleted}}
           /\ back = recompute_total_size(back)

\* Hashes make no difference to a diff that ignores them, and one that does not
\* refuses to compare a hashed manifest with its unhashed form.
HashesCompareWithHashes(m) ==
    LET bare == clear_hashes(m)
        hashed == \E f \in m.files : IsHashed(f)
    IN /\ \A d \in diff_snapshots(m, bare, Options(TRUE, FALSE)) :
            d.files = {} /\ d.dirs = {}
       /\ hashed => diff_snapshots(m, bare, Options(FALSE, FALSE)) = {}

\* A filter and its complement split the manifest and its size.
FilterSplits(m) ==
    \A p \in Places :
        LET kept == filter_manifest(m, [include |-> {p}, exclude |-> {}])
            rest == filter_manifest(m, [include |-> {}, exclude |-> {p}])
        IN /\ kept.files \cup rest.files = m.files
           /\ kept.total_size + rest.total_size = m.total_size

\* Any snapshot taken stays valid and keeps its files through the operations:
\* subtree_impl and join_impl undo each other, collapsing keeps contents,
\* partition_manifest loses no file, common_root is the deepest one, and both
\* formats give back what was written (decode after encode), for a snapshot,
\* for its subtree and for a diff.
OperationsKeepFiles ==
    Settled =>
        LET last == Last(snaps)
            diffs == DiffsOf(Options(FALSE, FALSE))
        IN /\ validate(last, "abs", "full")
           /\ SubtreeInvertsJoin(last) /\ CollapseKeepsContent(last)
           /\ PartitionCovers(last) /\ CommonRootIsDeepest(last) /\ FilterSplits(last)
           /\ CodecKeepsManifest(last, "abs_snapshot")
           /\ \A pol \in SubtreePolicies :
                LET cut == Subtree(last, pol)
                IN CodecKeepsManifest(cut, "rel_snapshot") /\ OldCodecKeepsFiles(cut)
           /\ HashesCompareWithHashes(last)
           /\ diffs # <<>> => /\ CodecKeepsManifest(Last(diffs), "abs_diff")
                             /\ OldCodecKeepsChanges(Last(diffs))

-----------------------------------------------------------------------------
(* COLLECT and HASH *)

CollectedNow(pol, order) ==
    collect_abs_snapshot(tree, {Root}, {},
        [optional_filenames |-> {}, policy |-> pol, chunk |-> chunk], order)

\* A manifest names the files that the file system has under those names:
\* reading an entry's path through the symlinks of the tree gives the file
\* recorded (file_meta, collapse_symlink), under every policy.  No policy but
\* preserve and exclude_all loses a regular file of the root; the two escaping
\* policies leave no link that leads out of it (is_escaping), and including
\* targets leaves none that leads to a file that is not in the manifest.
CollectionsAreFaithful ==
    shot = {} =>
      \A order \in SetToSeqs(LinksMet(tree, {Root}, {})), pol \in SymlinkPolicy :
        \E m \in CollectedNow(pol, order) :
           /\ \A f \in m.files : IsRegular(f) =>
                \E n \in metadata(tree, f.path) :
                    f = file_meta(f.path, n) /\ n.kind = "file"
           /\ \A q \in OfKind(tree, WalkDir(tree, Root), "file") :
                \E f \in m.files : f.path = q
           /\ pol \in {"exclude_escaping", "collapse_escaping", "collapse_all"} =>
                \A f \in m.files : ~Escapes(f)
           /\ pol = "transitive_include_targets" =>
                \A f \in m.files : \A t \in f.symlink_target :
                    \A n \in symlink_metadata(tree, t) :
                        n.kind = "dir" \/ t \in AllPaths(m)

\* A hash in a snapshot, read now or taken from the cache of an earlier run
\* (get_if_fresh), is the hash of contents that the file had after it was
\* collected; a file hashed in chunks had the size recorded for it
\* (hash_file_chunked).  The exception is a path that once changed between its
\* collection and its hashing: hash_manifest cached the hash of what it read
\* under the mtime that was collected.
HashesAreGenuine ==
    \A m \in shot :
        /\ \A f \in {g \in m.files : IsHashed(g) /\ g.path \notin torn} :
            \E b \in holdings[f.path] : f.hash = {xxh3_128(b)} \/
                (f.chunk_hashes # {} /\ Len(b) = The(f.size))
        /\ \A p \in DOMAIN got : \A hashes \in got[p] :
            \E b \in holdings[p] : FlattenSeq([i \in DOMAIN hashes |-> hashes[i].digest]) = b
        /\ todo = {} /\ (\A p \in DOMAIN got : got[p] # {}) =>
            counts.hashed + counts.skipped = counts.total
=============================================================================
