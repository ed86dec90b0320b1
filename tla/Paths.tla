------------------------------- MODULE Paths -------------------------------
(***************************************************************************)
(* Path strings as the expression library and job creation treat them:     *)
(* parsing by the path's own format instead of the host's, joining, the     *)
(* URI grammar, and the path methods (functions/path_parse.rs,              *)
(* functions/path.rs, uri_path.rs of openjd-expr).                          *)
(*                                                                         *)
(* A path is a sequence of lexemes: the separators "/" and "\\", the dot,   *)
(* a drive such as "C:", a URI scheme such as "s3:", and words.  That is    *)
(* what the code tells apart; the letters of a word are not modelled.       *)
(***************************************************************************)
EXTENDS Integers, Sequences, SequencesExt, FiniteSets

CONSTANTS Drive,     \* lexemes that are a letter and a colon
          Scheme,    \* lexemes that are a URI scheme and a colon
          FoldCase   \* the lexeme in lower case, for lexemes that have one

Fold(c) == IF c \in DOMAIN FoldCase THEN FoldCase[c] ELSE c
FoldPath(p) == [i \in DOMAIN p |-> Fold(p[i])]
-----------------------------------------------------------------------------
(* Helpers on sequences of lexemes. *)

IsSep(c, fmt) == c = "/" \/ (fmt = "Windows" /\ c = "\\")

Sep(fmt) == IF fmt = "Windows" THEN "\\" ELSE "/"

StartsWith(p, prefix) ==
    Len(prefix) <= Len(p) /\ SubSeq(p, 1, Len(prefix)) = prefix

EndsIn(p, S) == p # <<>> /\ p[Len(p)] \in S

Has(p, c) == \E i \in DOMAIN p : p[i] = c

From(p, i) == SubSeq(p, i, Len(p))

\* The first position at or after i that holds a separator, or past the end.
FirstSep(p, i, fmt) ==
    LET at == {j \in i..Len(p) : IsSep(p[j], fmt)}
    IN  IF at = {} THEN Len(p) + 1 ELSE CHOOSE j \in at : \A k \in at : j <= k

LastOf(p, i, S) ==
    LET at == {j \in i..Len(p) : p[j] \in S}
    IN  IF at = {} THEN 0 ELSE CHOOSE j \in at : \A k \in at : k <= j

Split(p, fmt) ==
    FoldLeft(LAMBDA acc, c : IF IsSep(c, fmt) THEN Append(acc, <<>>)
                             ELSE [acc EXCEPT ![Len(acc)] = Append(@, c)],
             << <<>> >>, p)

Joined(segments, sep) ==
    IF segments = <<>> THEN <<>>
    ELSE FoldLeft(LAMBDA acc, s : acc \o <<sep>> \o s, Head(segments), Tail(segments))

Replaced(p, from, to) == [i \in DOMAIN p |-> IF p[i] = from THEN to ELSE p[i]]

TrimEnd(p, S) ==
    LET keep == {i \in DOMAIN p : p[i] \notin S}
    IN  SubSeq(p, 1, IF keep = {} THEN 0 ELSE CHOOSE i \in keep : \A j \in keep : j <= i)

TrimStart(p, S) ==
    LET keep == {i \in DOMAIN p : p[i] \notin S}
    IN  IF keep = {} THEN <<>> ELSE From(p, CHOOSE i \in keep : \A j \in keep : i <= j)

Seps(fmt) == IF fmt = "Windows" THEN {"/", "\\"} ELSE {"/"}

Dot == <<".">>
-----------------------------------------------------------------------------
(* URIs: scheme "://" authority, then segments.  A lone letter before the   *)
(* colon is a drive, so Drive and Scheme are disjoint.                       *)

IsUri(p) == Len(p) >= 3 /\ p[1] \in Scheme /\ p[2] = "/" /\ p[3] = "/"

UriParse(p) ==
    LET slash == FirstSep(p, 4, "Posix")
        path  == From(p, slash + 1)
    IN  [authority |-> SubSeq(p, 1, slash - 1),
         parts     |-> IF path = <<>> THEN <<>> ELSE Split(path, "Posix")]

UriName(p) == LET u == UriParse(p) IN IF u.parts = <<>> THEN <<>> ELSE Last(u.parts)

UriParent(p) ==
    LET u == UriParse(p)
    IN  IF Len(u.parts) <= 1 THEN u.authority
        ELSE u.authority \o <<"/">> \o Joined(Front(u.parts), "/")

UriParts(p) == LET u == UriParse(p) IN <<u.authority>> \o u.parts

\* Where the extension of a name starts: the last dot, unless it opens or
\* closes the name; 0 when there is none.
SuffixAt(name) ==
    LET dot == LastOf(name, 1, {"."})
    IN  IF dot <= 1 \/ dot = Len(name) THEN 0 ELSE dot

StemOf(name) == IF SuffixAt(name) = 0 THEN name ELSE SubSeq(name, 1, SuffixAt(name) - 1)
SuffixOf(name) == IF SuffixAt(name) = 0 THEN <<>> ELSE From(name, SuffixAt(name))

UriStem(p) == StemOf(UriName(p))
UriSuffix(p) == SuffixOf(UriName(p))
-----------------------------------------------------------------------------
(* Anchors: the root, drive or share that no operation may strip. *)

UncAnchor(p, fmt) ==
    LET server == FirstSep(p, 3, fmt)
        share  == FirstSep(p, server + 1, fmt)
    IN  IF server > Len(p) THEN Len(p)
        ELSE IF share <= Len(p) THEN share ELSE Len(p)

AnchorLen(p, fmt) ==
    IF fmt = "Windows"
    THEN IF p # <<>> /\ p[1] \in Drive
         THEN IF Len(p) > 1 /\ IsSep(p[2], fmt) THEN 2 ELSE 1
         ELSE IF Len(p) >= 2 /\ IsSep(p[1], fmt) /\ IsSep(p[2], fmt) THEN UncAnchor(p, fmt)
         ELSE IF p # <<>> /\ IsSep(p[1], fmt) THEN 1 ELSE 0
    ELSE IF Len(p) >= 2 /\ p[1] = "/" /\ p[2] = "/" /\ (Len(p) < 3 \/ p[3] # "/") THEN 2
         ELSE IF p # <<>> /\ p[1] = "/" THEN 1 ELSE 0

\* Strip trailing separators down to the anchor.
Normalize(p, fmt) ==
    IF p = <<>> \/ p = Dot THEN p
    ELSE LET a == AnchorLen(p, fmt) IN SubSeq(p, 1, a) \o TrimEnd(From(p, a + 1), Seps(fmt))

\* A UNC share is always rendered with a closing backslash.
CloseUnc(a) ==
    IF /\ StartsWith(a, <<"\\", "\\">>)
       /\ Cardinality({i \in DOMAIN a : a[i] = "\\"}) >= 3
       /\ ~EndsIn(a, {"\\"})
    THEN Append(a, "\\") ELSE a

PosixRoot(slashes) ==
    CASE slashes = 0 -> <<>> [] slashes = 2 -> <<"/", "/">> [] OTHER -> <<"/">>

PathlibNormalize(p, fmt) ==
    IF p = <<>> THEN Dot
    ELSE IF fmt = "Uri" THEN p
    ELSE LET working == IF fmt = "Windows" THEN Replaced(p, "/", "\\") ELSE p
             slashes == Len(working) - Len(TrimStart(working, {"/"}))
             start   == IF fmt = "Windows" THEN AnchorLen(working, fmt) ELSE slashes
             anchor  == IF fmt = "Windows" THEN CloseUnc(SubSeq(working, 1, start))
                        ELSE PosixRoot(slashes)
             segs    == SelectSeq(Split(From(working, start + 1), fmt),
                                  LAMBDA s : s # <<>> /\ s # Dot)
             body    == Joined(segs, Sep(fmt))
         IN  IF anchor = <<>> /\ segs = <<>> THEN Dot
             ELSE IF \/ segs = <<>> \/ anchor = <<>> \/ EndsIn(anchor, Seps(fmt))
                     \/ (fmt = "Windows" /\ Len(anchor) = 1 /\ anchor[1] \in Drive)
             THEN anchor \o body
             ELSE anchor \o <<Sep(fmt)>> \o body

-----------------------------------------------------------------------------
(* Splitting. *)

\* <<parent, name>>
SplitName(path, fmt) ==
    LET p == Normalize(path, fmt)
        a == AnchorLen(p, fmt)
        s == LastOf(p, a + 1, Seps(fmt))
    IN  IF p = Dot THEN <<Dot, <<>>>>
        ELSE IF Len(p) <= a THEN <<p, <<>>>>
        ELSE IF s = 0 THEN <<SubSeq(p, 1, a), From(p, a + 1)>>
        ELSE <<SubSeq(p, 1, s - 1), From(p, s + 1)>>

FileName(p, fmt) == SplitName(p, fmt)[2]

Parent(p, fmt) ==
    LET base == IF fmt = "Windows" THEN Replaced(SplitName(p, fmt)[1], "/", "\\")
                ELSE SplitName(p, fmt)[1]
    IN  IF fmt = "Windows" /\ CloseUnc(base) # base THEN CloseUnc(base)
        ELSE IF base = <<>> /\ p # <<>> /\ p # Dot THEN Dot ELSE base

FileStem(p, fmt) == StemOf(FileName(p, fmt))

Extension(p, fmt) == SuffixOf(FileName(p, fmt))

Parts(path, fmt) ==
    LET p == Normalize(path, fmt)
        a == AnchorLen(p, fmt)
        anchor == IF fmt = "Windows" THEN CloseUnc(Replaced(SubSeq(p, 1, a), "/", "\\"))
                  ELSE SubSeq(p, 1, a)
    IN  IF p = <<>> \/ p = Dot THEN <<>>
        ELSE (IF a > 0 THEN <<anchor>> ELSE <<>>)
             \o SelectSeq(Split(From(p, a + 1), fmt), LAMBDA s : s # <<>>)

-----------------------------------------------------------------------------
(* Joining.  Each part of join_pathlib starts over when it is absolute. *)

JoinPathlibPosix(parts) ==
    LET step(acc, part) ==
            LET segs == SelectSeq(Split(part, "Posix"), LAMBDA s : s # <<>> /\ s # Dot)
            IN  IF part = <<>> THEN acc
                ELSE IF part[1] = "/" THEN [abs |-> TRUE, segs |-> segs]
                ELSE [acc EXCEPT !.segs = @ \o segs]
        end == FoldLeft(step, [abs |-> FALSE, segs |-> <<>>], parts)
    IN  IF end.abs THEN <<"/">> \o Joined(end.segs, "/")
        ELSE IF end.segs = <<>> THEN Dot ELSE Joined(end.segs, "/")

\* <<drive, rest>>: "C:" or the server and share of a UNC path
WinParseDrive(p) ==
    IF p # <<>> /\ p[1] \in Drive THEN <<SubSeq(p, 1, 1), From(p, 2)>>
    ELSE IF Len(p) >= 2 /\ IsSep(p[1], "Windows") /\ IsSep(p[2], "Windows")
    THEN LET server == FirstSep(p, 3, "Windows")
             share  == FirstSep(p, server + 1, "Windows")
         IN  IF server > Len(p) THEN <<p, <<>>>>
             ELSE <<SubSeq(p, 1, share - 1), From(p, share)>>
    ELSE <<<<>>, p>>

JoinPathlibWindows(parts) ==
    LET step(acc, part) ==
            LET drive  == WinParseDrive(part)[1]
                after  == WinParseDrive(part)[2]
                rooted == after # <<>> /\ IsSep(after[1], "Windows")
                segs   == SelectSeq(Split(IF rooted THEN Tail(after) ELSE after, "Windows"),
                                    LAMBDA s : s # <<>> /\ s # Dot)
                other  == /\ drive # <<>> /\ acc.drive # <<>>
                          /\ FoldPath(drive) # FoldPath(acc.drive)
            IN  [drive |-> IF drive # <<>> THEN drive ELSE acc.drive,
                 root  |-> IF rooted THEN <<"\\">> ELSE IF other THEN <<>> ELSE acc.root,
                 segs  |-> (IF rooted \/ other THEN <<>> ELSE acc.segs) \o segs]
        end  == FoldLeft(step, [drive |-> <<>>, root |-> <<>>, segs |-> <<>>], parts)
        head == end.drive \o end.root
        glue == IF head # <<>> /\ ~EndsIn(head, {"\\"} \cup Drive) THEN <<"\\">> ELSE <<>>
    IN  IF head = <<>> /\ end.segs = <<>> THEN Dot
        ELSE IF end.segs = <<>> THEN head
        ELSE head \o glue \o Joined(end.segs, "\\")

JoinPathlib(parts, fmt) ==
    IF fmt = "Windows" THEN JoinPathlibWindows(parts) ELSE JoinPathlibPosix(parts)

IsAbsolute(p, fmt) ==
    \/ IsUri(p)
    \/ Len(p) >= 2 /\ p[1] = p[2] /\ p[1] \in {"/", "\\"}
    \/ IF fmt = "Windows" THEN Len(p) >= 2 /\ p[1] \in Drive /\ p[2] \in {"/", "\\"}
       ELSE p # <<>> /\ p[1] = "/"

\* {} or {the server and share}
ExtractUncRoot(p) ==
    IF ~(Len(p) >= 2 /\ p[1] = p[2] /\ p[1] \in {"/", "\\"}) THEN {}
    ELSE LET server == FirstSep(p, 3, "Windows")
         IN  IF server > Len(p) THEN {}
             ELSE {SubSeq(p, 1, FirstSep(p, server + 1, "Windows") - 1)}

\* `non_uri_join`: the tail of `join` once right is known not to be absolute.
NonUriJoin(left, right, fmt) ==
    IF fmt = "Windows" /\ right # <<>> /\ right[1] \in {"/", "\\"}
    THEN IF left # <<>> /\ left[1] \in Drive THEN <<left[1]>> \o right
         ELSE IF ExtractUncRoot(left) # {} THEN (CHOOSE r \in ExtractUncRoot(left) : TRUE) \o right
         ELSE right
    ELSE TrimEnd(left, Seps(fmt)) \o <<Sep(fmt)>> \o right

JoinPath(left, right, fmt) ==
    LET r == IF fmt = "Windows" THEN Replaced(right, "\\", "/") ELSE right
    IN  IF IsAbsolute(right, fmt) THEN right
        ELSE IF ~IsUri(left) THEN NonUriJoin(left, right, fmt)
        ELSE IF fmt = "Windows" /\ right # <<>> /\ right[1] \in Drive THEN right
        ELSE IF r # <<>> /\ r[1] = "/" THEN UriParse(left).authority \o r
        ELSE TrimEnd(left, {"/"}) \o <<"/">> \o r

-----------------------------------------------------------------------------
(* Path values and their methods.  A result is {} for an error. *)

\* A Windows path value is stored with backslashes; a URI is kept verbatim.
NewPath(p, fmt) == IF ~IsUri(p) /\ fmt = "Windows" THEN Replaced(p, "/", "\\") ELSE p

\* path(x) on a string or path
PathOf(p, fmt) == NewPath(IF IsUri(p) THEN p ELSE PathlibNormalize(p, fmt), fmt)

\* path([...]) on a list of parts
PathOfParts(parts, fmt) ==
    PathOf(IF parts = <<>> THEN <<>>
           ELSE IF IsUri(parts[1]) THEN Joined(parts, "/")
           ELSE JoinPathlib(parts, fmt), fmt)

PropName(p, fmt) == IF IsUri(p) THEN UriName(p) ELSE FileName(p, fmt)
PropStem(p, fmt) == IF IsUri(p) THEN UriStem(p) ELSE FileStem(p, fmt)
PropSuffix(p, fmt) == IF IsUri(p) THEN UriSuffix(p) ELSE Extension(p, fmt)
PropParent(p, fmt) == NewPath(IF IsUri(p) THEN UriParent(p) ELSE Parent(p, fmt), fmt)
PropParts(p, fmt) == IF IsUri(p) THEN UriParts(p) ELSE Parts(p, fmt)

HasEmptyName(p, fmt) == PropName(p, fmt) = <<>>

IsValidName(name, fmt) ==
    name # <<>> /\ name # Dot /\ \A i \in DOMAIN name : ~IsSep(name[i], fmt)

IsValidSuffix(suffix, fmt) ==
    \/ suffix = <<>>
    \/ /\ Len(suffix) > 1 /\ suffix[1] = "."
       /\ \A i \in DOMAIN suffix : ~IsSep(suffix[i], fmt)

JoinParentAndName(parent, name, fmt) ==
    IF parent = <<>> \/ parent = Dot
    THEN IF fmt = "Windows" /\ name[1] \in Drive THEN <<".", "\\">> \o name ELSE name
    ELSE IF \/ EndsIn(parent, Seps(fmt))
            \/ fmt = "Windows" /\ Len(parent) = 1 /\ parent[1] \in Drive
    THEN parent \o name
    ELSE parent \o <<Sep(fmt)>> \o name

Renamed(p, name, fmt) ==
    NewPath(IF IsUri(p) THEN UriParent(p) \o <<"/">> \o name
            ELSE JoinParentAndName(Parent(p, fmt), name, fmt), fmt)

WithName(p, name, fmt) ==
    IF ~IsValidName(name, fmt) \/ HasEmptyName(p, fmt) THEN {} ELSE {Renamed(p, name, fmt)}

WithStem(p, stem, fmt) ==
    LET ext == PropSuffix(p, fmt)
    IN  IF \/ \E i \in DOMAIN stem : IsSep(stem[i], fmt)
           \/ HasEmptyName(p, fmt)
           \/ stem = <<>> /\ ext # <<>>
           \/ ~IsValidName(stem \o ext, fmt)
        THEN {} ELSE {Renamed(p, stem \o ext, fmt)}

WithSuffix(p, suffix, fmt) ==
    LET name == PropStem(p, fmt) \o suffix
    IN  IF ~IsValidSuffix(suffix, fmt) \/ HasEmptyName(p, fmt) \/ ~IsValidName(name, fmt)
        THEN {} ELSE {Renamed(p, name, fmt)}

\* On Windows the comparison ignores case.
PathStartsWith(p, base, fmt) ==
    IF fmt = "Windows" THEN StartsWith(FoldPath(p), FoldPath(base)) ELSE StartsWith(p, base)

IsRelativeTo(p, base, fmt) ==
    /\ PathStartsWith(p, base, fmt)
    /\ \/ Len(p) = Len(base)
       \/ EndsIn(base, {"/", "\\"})
       \/ p[Len(base) + 1] \in {"/", "\\"}

RelativeTo(p, base, fmt) ==
    LET rel == TrimStart(TrimStart(From(p, Len(base) + 1), {"/"}), {"\\"})
    IN  IF ~IsRelativeTo(p, base, fmt) THEN {}
        ELSE {NewPath(IF rel = <<>> THEN Dot ELSE rel, fmt)}
-----------------------------------------------------------------------------
(* What the operations promise each other. *)

\* `path()` settles a path: building a path value from a path value changes
\* nothing, its parts rebuild it (a POSIX path may keep two leading slashes,
\* which join_pathlib folds into one, and a URI without segments has no part
\* for its closing slash), a valid name written back leaves it as it is, and
\* the parent is a proper prefix until the anchor is reached.
PathLaws(p, fmt) ==
    LET q == PathOf(p, fmt)
    IN  /\ PathOf(q, fmt) = q
        /\ \/ fmt = "Posix" /\ StartsWith(q, <<"/", "/">>)
           \/ IsUri(q) /\ UriParse(q).parts = <<>>
           \/ PathOfParts(PropParts(q, fmt), fmt) = q
        /\ LET name == PropName(q, fmt)
           IN  IsValidName(name, fmt) =>
                 /\ WithName(q, name, fmt) = {q}
                 /\ PropStem(q, fmt) \o PropSuffix(q, fmt) = name
                 /\ WithSuffix(q, PropSuffix(q, fmt), fmt) = {q}
                 /\ PropStem(q, fmt) # <<>> => WithStem(q, PropStem(q, fmt), fmt) = {q}
        /\ LET up == PropParent(q, fmt)
           IN  up \in {q, Dot} \/ (StartsWith(q, up) /\ Len(up) < Len(q))

\* A relative path joined to a settled base that is not the current directory
\* is found under it again: relative_to undoes the join.  (relative_to drops
\* a leading backslash in either format, so on POSIX a name that starts with
\* one is not covered; nor is a base that is no more than an anchor
\* of several separators, some of which the join trims, or a scheme without
\* an authority.)
JoinLaws(base, p, fmt) ==
    LET b == PathOf(base, fmt)
        r == PathOf(p, fmt)
        relative == /\ AnchorLen(r, fmt) = 0 /\ ~IsUri(r) /\ r # Dot
        joined == PathOf(JoinPath(b, r, fmt), fmt)
        whole == IF IsUri(b) THEN Len(UriParse(b).authority) > 3
                 ELSE \/ AnchorLen(b, fmt) < Len(b)
                      \/ Len(b) = 1
                      \/ b[1] \in Drive
    IN  relative /\ b # Dot /\ r[1] # "\\" /\ whole =>
          /\ IsRelativeTo(joined, b, fmt)
          /\ RelativeTo(joined, b, fmt) = {r}
=============================================================================
