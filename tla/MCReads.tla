------------------------------ MODULE MCReads ------------------------------
(* Stored nodes for what only reads the graph.  Labels are ordered as listed. *)
EXTENDS MCPrograms

Labels == <<"Disk", "Get", "Run", "Store", "a", "b", "c", "m">>
LabelLess(x, y) ==
    LET At(l) == CHOOSE i \in DOMAIN Labels : Labels[i] = l IN At(x) < At(y)
Wk == INSTANCE Wiki WITH Less <- LabelLess

\* Sources at the root, in a and in a/b, each in the package of its directory or
\* in none, in the order of path and line.
Stored(kind, path, first, qn, words) ==
    [kind |-> kind, path |-> path, first |-> first, qn |-> qn, name |-> IF qn = <<>> THEN "" ELSE Last(qn), words |-> words]
PackageAt(path, yes) == IF yes THEN <<Stored("package", path, 0, path, {})>> ELSE <<>>
FileAt(path, symbols, yes) == IF yes THEN <<Stored("file", path, 1, path, {"note"})>> \o symbols ELSE <<>>
WikiNodes(root, top, a, inA, b, inB, again) ==
    LET all == PackageAt(<<>>, root)
               \o PackageAt(<<"a">>, a)
               \o FileAt(<<"a", "b">>, <<>>, b /\ inB = "file")
               \o PackageAt(<<"a", "b">>, b /\ inB # "file")
               \o FileAt(<<"a", "b", "c">>, <<Stored("function", <<"a", "b", "c">>, 3, <<"b", "Get">>, {})>>, inB = "c")
               \o FileAt(<<"a", "m">>,
                         <<Stored("function", <<"a", "m">>, 2, <<"a", "Run">>, {}),
                           Stored("class", <<"a", "m">>, 4, <<"a", "Store">>, {"note"}),
                           Stored("function", <<"a", "m">>, 5, <<"a", "Store", "Get">>, {}),
                           Stored("type", <<"a", "m">>, 8, IF again THEN <<"b", "Get">> ELSE <<"a", "Disk">>, {})>>, inA)
               \o FileAt(<<"m">>, <<Stored("function", <<"m">>, 2, <<"m", "Run">>, {"note"})>>, top)
    IN  [i \in DOMAIN all |-> [kind |-> all[i].kind, path |-> all[i].path, first |-> all[i].first, qn |-> all[i].qn,
                               name |-> all[i].name, words |-> all[i].words, id |-> i]]
GivenWikis ==
    {WikiNodes(root, top, a, inA, b, inB, again) :
        root \in BOOLEAN, top \in BOOLEAN, a \in BOOLEAN, inA \in BOOLEAN, b \in BOOLEAN,
        inB \in {"c", "file", "none"}, again \in BOOLEAN}

TreeRequests(nodes) ==
    {[of |-> "tree", id |-> id, depth |-> depth] :
        id \in {n.id : n \in Range(Wk!Preorder(Wk!BuildTree(nodes, {})))}
               \union {<<>>, <<"folder", <<"c">>>>, <<"symbol", <<"none">>>>},
        depth \in {0, 1, 2, 5, 21}}
SearchRequests == {[of |-> "search", query |-> q, limit |-> l] : q \in {"note", "Get", "a", "m"}, l \in 1 .. 3}
RefRequests ==
    {[of |-> "ref", path |-> p, symbol |-> s] :
        p \in {<<>>, <<"root">>, <<"a">>, <<"a", "m">>, <<"m">>, <<"a", "b", "c">>},
        s \in {<<>>, <<"Get">>, <<"Store", "Get">>, <<"Run">>}}
GraphRequests == {[of |-> "graph", limit |-> l] : l \in {1, 3, 20}}
Disks == {<<>>, (<<"docs", "a", "m">> :> "ok"), (<<"docs", "a", "m">> :> "big") @@ (<<".ccg", "docs", "a", "m">> :> "ok"),
          (<<"namespaces", "b", "docs", "a", "m">> :> "ok"),
          (<<"namespaces", "other", "docs", "a", "m">> :> "ok")}
DocRequests ==
    {[of |-> "doc", namespace |-> ns, disk |-> d, docs |-> docs] :
        ns \in {"default", "b"}, d \in Disks,
        docs \in {<<path>> : path \in {<<"docs", "a", "m">>, <<"docs", "c">>, <<"other", "docs", "a", "m">>, <<"..", "m">>}}
                 \union {<<<<"docs", "a", "m">>, <<>>, <<"docs", "c">>>>}}
\* A call of each function by the next, in the order of the nodes.
CallsAmong(nodes) ==
    [i \in 1 .. Len(nodes) - 1 |-> [from |-> i, to |-> i + 1, kind |-> IF nodes[i].kind = "file" THEN "contains" ELSE "calls"]]

AskWiki(nodes, r) ==
    CASE r.of = "tree"   -> Wk!HandleTree(nodes, r.id, r.depth)
      [] r.of = "search" -> Wk!HandleSearch(nodes, r.query, r.limit)
      [] r.of = "ref"    -> Wk!HandleRef(nodes, r)
      [] r.of = "graph"  -> Wk!HandleGraph(nodes, CallsAmong(nodes), r.limit, {})
      [] Len(r.docs) = 1 -> Wk!HandleDoc(nodes, r.disk, r.namespace, r.docs[1])
      [] OTHER           -> Wk!HandleContext(nodes, r.disk, r.namespace, r.docs)
WikiRequests(nodes) == TreeRequests(nodes) \union SearchRequests \union RefRequests \union GraphRequests \union DocRequests

-----------------------------------------------------------------------------
\* What a reader of the whole tree sees

WholeTree(nodes) == Range(Wk!Preorder(Wk!BuildTree(nodes, {})))

\* The root goes by no name: its own opens nothing level by level.
RootId == <<"root", <<>>>>
OpenedBy(id) == IF id = RootId THEN <<>> ELSE id
NamedBy(id) == IF id = <<>> THEN RootId ELSE id

\* A package with something further below hides that from who opens it.
Nested(nodes, id) ==
    \E p, n \in Range(nodes) :
        /\ p.kind = "package" /\ p.path # <<>> /\ n.path # p.path
        /\ IsPrefix(p.path, n.path) /\ (n.kind = "package" \/ Front(n.path) # p.path)
        /\ id = <<>> \/ (id[1] = "folder" /\ IsPrefix(id[2], p.path))

RECURSIVE SameUpTo(_, _, _)
\* The same nodes in the same order down to a depth, where each says whether the
\* whole tree has more.
SameUpTo(lazy, full, depth) ==
    /\ <<lazy.id, lazy.label, lazy.kind, lazy.words, lazy.doc, lazy.details>>
         = <<full.id, full.label, full.kind, full.words, full.doc, full.details>>
    /\ lazy.id[1] # "root" => lazy.more = (full.children # <<>>)
    /\ IF depth = 0 THEN lazy.children = <<>>
       ELSE /\ DOMAIN lazy.children = DOMAIN full.children
            /\ \A i \in DOMAIN lazy.children : SameUpTo(lazy.children[i], full.children[i], depth - 1)
=============================================================================
