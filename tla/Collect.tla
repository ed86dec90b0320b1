------------------------------- MODULE Collect -------------------------------
(***************************************************************************)
(* COLLECT (ops/collect.rs): an absolute snapshot of directories and files *)
(* of a file system, under one of the six symlink policies.                *)
(*                                                                         *)
(* The file system is a function from absolute paths to nodes; "/" itself  *)
(* has none.  A node is [kind, bytes, mtime, runnable, target], its target *)
(* the text of a symlink, absolute or relative to the link's directory.    *)
(***************************************************************************)
EXTENDS SnapshotOps

-----------------------------------------------------------------------------
(* What the operating system does with a path. *)

RECURSIVE Resolve(_, _, _, _)
Resolve(tree, done, rest, hops) ==
    LET here == Append(done, Head(rest))
    IN IF rest = <<>> THEN {done}
       ELSE IF Head(rest) = ".."
       THEN Resolve(tree, IF Len(done) > 1 THEN Front(done) ELSE done, Tail(rest), hops)
       ELSE IF here \notin DOMAIN tree THEN {}
       ELSE IF tree[here].kind # "link"
       THEN IF Len(rest) > 1 /\ tree[here].kind = "file" THEN {}
            ELSE Resolve(tree, here, Tail(rest), hops)
       ELSE IF hops = 0 THEN {}
       ELSE IF tree[here].target[1] = ""
       THEN Resolve(tree, Empty, Tail(tree[here].target) \o Tail(rest), hops - 1)
       ELSE Resolve(tree, done, tree[here].target \o Tail(rest), hops - 1)

\* std::fs::canonicalize; a chain of more than |tree| links is a loop.
canonicalize(tree, path) == Resolve(tree, Empty, Tail(path), Cardinality(DOMAIN tree))

\* std::fs::metadata follows every link, std::fs::symlink_metadata all but the last.
metadata(tree, path) == {tree[q] : q \in canonicalize(tree, path)}

symlink_metadata(tree, path) ==
    LET names == {Append(q, Last(path)) : q \in canonicalize(tree, Front(path))}
    IN {tree[n] : n \in names \cap DOMAIN tree}

\* WalkDir with follow_links(false) from a directory that is no link itself.
WalkDir(tree, dir) == {q \in DOMAIN tree : q = dir \/ Under(q, dir)}

OfKind(tree, paths, kind) == {q \in paths : tree[q].kind = kind}

-----------------------------------------------------------------------------
file_meta(path, node) ==
    [RegularFile(path, Len(node.bytes), node.mtime) EXCEPT !.runnable = node.runnable]

\* Also what Preserve does inline.
resolve_symlink_target(tree, link) ==
    LET target == tree[link].target
    IN normalize_path(IF is_absolute_path(target) THEN target ELSE Front(link) \o target)

EscapingOnlyAbove(target, collected) ==
    /\ target \notin collected
    /\ \E p \in collected : Under(p, target)

is_escaping(target, collected) ==
    /\ target \notin collected
    /\ \A p \in collected : ~Under(target, p)

-----------------------------------------------------------------------------
(* collapse_symlink.  acc holds the files and directories pushed and the    *)
(* links visited; frame the outermost link being collapsed, if any.         *)

RECURSIVE collapse_symlink(_, _, _, _, _)
collapse_symlink(tree, acc, mpath, link, frame) ==
    LET entered == [acc EXCEPT !.visited = @ \cup {link}]
        real    == canonicalize(tree, link)
        target  == The(real)
        outer   == IF frame = {} THEN [root |-> target, mroot |-> mpath] ELSE The(frame)
        mapped(q) == mpath \o SubSeq(q, Len(target) + 1, Len(q))
        nested(a, q) ==
            LET end == canonicalize(tree, q)
            IN IF end = {} THEN a
               ELSE IF The(end) = outer.root \/ Under(The(end), outer.root)
               THEN [a EXCEPT !.files = @ \cup
                        {Symlink(mapped(q), outer.mroot \o
                            SubSeq(The(end), Len(outer.root) + 1, Len(The(end))))}]
               ELSE IF tree[The(end)].kind = "dir"
               THEN collapse_symlink(tree, a, mapped(q), q, {outer})
               ELSE [a EXCEPT !.files = @ \cup {file_meta(mapped(q), tree[The(end)])}]
        visit(a, q) ==
            CASE tree[q].kind = "link" -> nested(a, q)
              [] tree[q].kind = "file" -> [a EXCEPT !.files = @ \cup {file_meta(mapped(q), tree[q])}]
              [] tree[q].kind = "dir"  -> [a EXCEPT !.dirs = @ \cup {DirEntry(mapped(q))}]
    IN IF link \in acc.visited THEN acc
       ELSE IF real = {} THEN entered
       ELSE IF tree[target].kind = "file"
       THEN [entered EXCEPT !.files = @ \cup {file_meta(mpath, tree[target])}]
       ELSE FoldLeft(visit, entered, SetToSeq(WalkDir(tree, target) \ {target}))

CollapseAllOf(tree, order) ==
    FoldLeft(LAMBDA acc, link : collapse_symlink(tree, acc, link, link, {}),
             [files |-> {}, dirs |-> {}, visited |-> {}], order)

\* TransitiveIncludeTargets: the loop over the queue of links.
RECURSIVE IncludeTargets(_, _, _, _)
IncludeTargets(tree, queue, seen, files) ==
    LET link   == The(queue)
        target == resolve_symlink_target(tree, link)
        node   == symlink_metadata(tree, target)
        fresh  == IF target \in seen \/ node = {} THEN {}
                  ELSE IF The(node).kind = "dir"
                  THEN WalkDir(tree, target) \ (seen \cup {target})
                  ELSE {target}
    IN IF queue = {} THEN files
       ELSE IncludeTargets(tree, (queue \ {link}) \cup OfKind(tree, fresh, "link"),
                           seen \cup {target} \cup fresh,
                           files \cup {Symlink(link, target)}
                                 \cup {file_meta(q, tree[q]) : q \in OfKind(tree, fresh, "file")})

\* process_symlinks; the links come in the order the walk met them.
process_symlinks(tree, order, policy, seen) ==
    LET links  == Range(order)
        asLink(set) == {Symlink(q, resolve_symlink_target(tree, q)) : q \in set}
        inside == {q \in links : ~is_escaping(resolve_symlink_target(tree, q), seen)}
        only(files) == [files |-> files, dirs |-> {}]
    IN CASE policy = "exclude_all" -> only({})
         [] policy = "preserve" -> only(asLink(links))
         [] policy = "exclude_escaping" -> only(asLink(inside))
         [] policy = "transitive_include_targets" ->
                only(IncludeTargets(tree, links, seen, {}))
         [] policy = "collapse_all" -> CollapseAllOf(tree, order)
         [] policy = "collapse_escaping" ->
                LET all == CollapseAllOf(tree, SelectSeq(order, LAMBDA q : q \notin inside))
                IN [all EXCEPT !.files = @ \cup asLink(inside)]

-----------------------------------------------------------------------------
\* collect_single_file looks no further than "is it a link".
collect_single_file(tree, path) ==
    {file_meta(path, node) :
        node \in {n \in symlink_metadata(tree, path) : n.kind # "link"}}

\* The symlinks a collection defers.
LinksMet(tree, directories, filenames) ==
    OfKind(tree, UNION {WalkDir(tree, d) : d \in directories}
                    \cup (filenames \cap DOMAIN tree), "link")

\* order is the order in which the walk met the links: any order is possible.
collect_abs_snapshot(tree, directories, filenames, options, order) ==
    LET named   == filenames \cup
                    {q \in options.optional_filenames : symlink_metadata(tree, q) # {}}
        walked  == UNION {WalkDir(tree, d) : d \in directories}
        rest    == process_symlinks(tree, order, options.policy, walked \cup named)
        regular == {file_meta(q, tree[q]) : q \in OfKind(tree, walked, "file")}
                    \cup UNION {collect_single_file(tree, q) : q \in named \ walked}
        dirs    == {DirEntry(q) : q \in OfKind(tree, walked, "dir")}
    IN IF \/ \E d \in directories : \A n \in metadata(tree, d) : n.kind # "dir"
          \/ \E q \in filenames : symlink_metadata(tree, q) = {}
       THEN {}
       ELSE {[with_files(EmptyManifest(options.chunk), regular \cup rest.files)
                EXCEPT !.dirs = dirs \cup rest.dirs]}
=============================================================================
