------------------------------- MODULE PathSpec -------------------------------
(***************************************************************************)
(* The path filters of internal/pathspec.  A path is a sequence of          *)
(* segments; in a pattern the segment "*" stands for any glob.  A regular   *)
(* expression is the set of the paths it matches.                           *)
(***************************************************************************)
EXTENDS Naturals, Sequences, SequencesExt

Regex(paths) == [regex |-> TRUE, matches |-> paths]
Glob(path) == [regex |-> FALSE, path |-> path]

Matches(glob, path) ==
    /\ Len(glob) = Len(path)
    /\ \A i \in DOMAIN glob : glob[i] \in {"*", path[i]}

\* Everything below a path, or the whole path by a glob; a glob of one segment
\* is for the last segment, also where that is a directory's.
MatchExcludes(patterns, path) ==
    \E p \in patterns :
        IF p.regex THEN path \in p.matches
        ELSE \/ IsPrefix(p.path, path)
             \/ path # <<>> /\ Matches(p.path, IF Len(p.path) > 1 THEN path ELSE <<Last(path)>>)

\* Directories above an included path are walked too; the root, <<>>, is above
\* and below nothing here: "." is only compared with "." itself.
MatchIncludePaths(path, includes) ==
    \E i \in includes :
        \/ path = i
        \/ path # <<>> /\ i # <<>> /\ (IsPrefix(i, path) \/ IsPrefix(path, i))

HasPathPrefix(path, prefix) == IsPrefix(prefix, path)
=============================================================================
