---------------------------- MODULE PathMapping ----------------------------
(***************************************************************************)
(* Path mapping rules (path_mapping.rs of openjd-expr) and the order in     *)
(* which a session keeps them (session.rs of openjd-sessions).              *)
(*                                                                         *)
(* A rule is [format, source, dest]; results are {} (no match) or {path}.   *)
(***************************************************************************)
EXTENDS Paths

LexemeBytes(c) == IF c \in Drive THEN 2 ELSE IF c \in Scheme THEN 3 ELSE 1
ByteLen(p) == FoldLeft(LAMBDA n, c : n + LexemeBytes(c), 0, p)

SplitPathParts(p, windows) ==
    SelectSeq(Split(p, IF windows THEN "Windows" ELSE "Posix"), LAMBDA s : s # <<>>)

IsRooted(p, windows) == p # <<>> /\ (p[1] = "/" \/ (windows /\ p[1] = "\\"))

HasTrailingSlash(p, windows) == EndsIn(p, IF windows THEN {"/", "\\"} ELSE {"/"})

Extended(dest, parts, sep) == FoldLeft(LAMBDA acc, s : acc \o <<sep>> \o s, dest, parts)

ApplyFilesystem(rule, p, windows, sep) ==
    LET source == SplitPathParts(rule.source, windows)
        parts  == SplitPathParts(p, windows)
        same(a, b) == IF windows THEN FoldPath(a) = FoldPath(b) ELSE a = b
        mapped == Extended(rule.dest, From(parts, Len(source) + 1), sep)
    IN  IF \/ IsRooted(rule.source, windows) # IsRooted(p, windows)
           \/ Len(parts) < Len(source)
           \/ \E i \in DOMAIN source : ~same(source[i], parts[i])
        THEN {}
        ELSE {IF HasTrailingSlash(p, windows) /\ ~EndsIn(mapped, {sep})
              THEN Append(mapped, sep) ELSE mapped}

\* Where the path begins after scheme and authority; 1 when there is no "://".
UriPathStart(p) == IF IsUri(p) THEN FirstSep(p, 4, "Posix") ELSE 1

ApplyUri(rule, p, sep) ==
    LET head(u) == SubSeq(u, 1, UriPathStart(u) - 1)
        tail(u) == From(u, UriPathStart(u))
        rest    == From(tail(p), Len(tail(rule.source)) + 1)
        mapped  == Extended(rule.dest, IF rest = <<>> THEN <<>> ELSE Split(Tail(rest), "Posix"), sep)
    IN  IF \/ FoldPath(head(p)) # FoldPath(head(rule.source))
           \/ ~StartsWith(tail(p), tail(rule.source))
           \/ rest # <<>> /\ rest[1] # "/"
        THEN {}
        ELSE {IF EndsIn(p, {"/"}) /\ ~EndsIn(mapped, {sep}) THEN Append(mapped, sep) ELSE mapped}

ApplyWithFormat(rule, p, out) ==
    IF rule.format = "Uri" THEN ApplyUri(rule, p, Sep(out))
    ELSE ApplyFilesystem(rule, p, rule.format = "Windows", Sep(out))

Matching(rules, p, out) == {i \in DOMAIN rules : ApplyWithFormat(rules[i], p, out) # {}}

\* The first match wins.
ApplyRulesWithFormat(rules, p, out) ==
    LET hits == Matching(rules, p, out)
    IN  IF hits = {} THEN p
        ELSE LET i == CHOOSE i \in hits : \A j \in hits : i <= j
             IN  CHOOSE q \in ApplyWithFormat(rules[i], p, out) : TRUE

Inserted(rules, r) ==
    LET longer == SelectSeq(rules, LAMBDA x : ByteLen(x.source) >= ByteLen(r.source))
    IN  longer \o <<r>> \o From(rules, Len(longer) + 1)

\* Mutant: additional rules are appended to the sorted ones.
ExtendedUnsorted(rules, additional) == rules \o additional

\* Session::new and with_path_mapping: a stable sort, longest source first.
SortedRules(rules) == FoldLeft(Inserted, <<>>, rules)

\* Session::extend_path_mapping_rules
ExtendPathMappingRules(rules, additional) == SortedRules(rules \o additional)
-----------------------------------------------------------------------------
\* The components a rule of the given format compares, and the components of
\* a path under it; folded where case does not count.
Components(p, format) ==
    CASE format = "Uri" -> IF IsUri(p) THEN <<FoldPath(UriParse(p).authority)>> \o UriParse(p).parts
                           ELSE <<p>>
      [] format = "Windows" -> LET s == SplitPathParts(p, TRUE) IN [i \in DOMAIN s |-> FoldPath(s[i])]
      [] format = "Posix" -> SplitPathParts(p, FALSE)

Covers(rule, p) ==
    /\ rule.format # "Uri" =>
          IsRooted(rule.source, rule.format = "Windows") = IsRooted(p, rule.format = "Windows")
    /\ StartsWith(Components(p, rule.format), Components(rule.source, rule.format))

\* The rule of the session that applies to a path is the most specific one:
\* no other rule of its format that covers the path names more components,
\* and the mapped path is the rule's destination followed by the components
\* below the rule's source (a backslash in a POSIX name becomes a separator
\* on Windows).  Destinations are written without a closing separator and
\* sources without redundant ones.
MappedByTheDeepestRule(given, added, p, out) ==
    LET rules  == given \o added
        mapped == ApplyRulesWithFormat(ExtendPathMappingRules(SortedRules(given), added), p, out)
        hits   == {i \in DOMAIN rules : Covers(rules[i], p)}
        depth(i) == Len(Components(rules[i].source, rules[i].format))
        below(i) == LET n == Len(SplitPathParts(p, rules[i].format = "Windows"))
                        k == Len(SelectSeq(From(Components(p, rules[i].format), depth(i) + 1),
                                           LAMBDA s : s # <<>>))
                    IN  From(SplitPathParts(p, rules[i].format = "Windows"), n - k + 1)
    IN  IF hits = {} THEN mapped = p
        ELSE \E i \in hits :
                /\ \A j \in hits : rules[j].format = rules[i].format => depth(j) <= depth(i)
                /\ \/ out = "Windows" /\ \E j \in DOMAIN below(i) : Has(below(i)[j], "\\")
                   \/ SplitPathParts(mapped, out = "Windows")
                        = SplitPathParts(rules[i].dest, out = "Windows") \o below(i)
                /\ HasTrailingSlash(p, rules[i].format = "Windows") => EndsIn(mapped, {Sep(out)})
=============================================================================
