-------------------------------- MODULE Wiki --------------------------------
(***************************************************************************)
(* The wiki of internal/app/wiki and adapters/inbound/wikihttp: one tree of *)
(* folders, packages, files and symbols, made of the nodes of a graph in    *)
(* two ways, at once for searches and references and level by level for     *)
(* the browser; and the handlers that look something up in it.              *)
(*                                                                          *)
(* `nodes` is what NavigationNodes returns, in its order; a node has id,    *)
(* kind, path (of the root package: <<>>), first, qn and name, and `words`, *)
(* the texts of its annotation; a package has its directory for a path.     *)
(* The name of a tree node is its kind of identifier and a path, or of a    *)
(* symbol the qualified name; a request that names no node has <<>>.        *)
(***************************************************************************)
EXTENDS PathSpec, FiniteSets, TLC

CONSTANTS Less(_, _)   \* the order of labels

SymbolKinds == {"function", "class", "type", "test"}
IsSymbol(n) == n.kind \in SymbolKinds
SymbolsOf(nodes, path) == SelectSeq(nodes, LAMBDA n : n.path = path /\ IsSymbol(n))

Kept(nodes, exclude) == SelectSeq(nodes, LAMBDA n : ~MatchExcludes(exclude, n.path))

DocPath(path) == <<"docs">> \o path

\* What browsers see of a node; details are the stored node of a symbol, more
\* says that it can be opened.
TreeNode(of, name, words, more) ==
    [id |-> <<of, name>>, label |-> IF of = "root" THEN "Root" ELSE Last(name), kind |-> of, words |-> words,
     more |-> more, doc |-> IF of = "file" THEN DocPath(name) ELSE <<>>, details |-> <<>>, children |-> <<>>]
SymbolTreeNode(n) ==
    [id |-> <<"symbol", n.qn>>, label |-> n.name, kind |-> n.kind, words |-> n.words, more |-> FALSE,
     doc |-> <<>>, details |-> <<n>>, children |-> <<>>]

\* Labels of different kinds of symbols are not compared.
KindRank(kind) ==
    CASE kind = "folder" -> 0 [] kind = "package" -> 1 [] kind = "file" -> 2 [] OTHER -> 3
TreeBefore(a, b) == IF a.kind # b.kind THEN KindRank(a.kind) < KindRank(b.kind) ELSE Less(a.label, b.label)

\* Stable insertion: a node goes to the left until one it need not precede.
SortTree(children) ==
    LET Insert(sorted, c) ==
            InsertAt(sorted, Max({0} \union {i \in DOMAIN sorted : ~TreeBefore(c, sorted[i])}) + 1, c)
    IN  FoldLeft(Insert, <<>>, children)

-----------------------------------------------------------------------------
\* The whole tree

FirstWords(nodes) ==
    LET said == SelectSeq(nodes, LAMBDA n : n.words # {}) IN IF said = <<>> THEN {} ELSE said[1].words
WordsAt(nodes, kind, path) == FirstWords(SelectSeq(nodes, LAMBDA n : n.kind = kind /\ n.path = path))

\* What the maps of the builder hold: a file is in the package of its directory,
\* or in a folder; a package is in the folder above it, which has folders above it.
TreeState(nodes) ==
    LET packages == {n.path : n \in {n \in Range(nodes) : n.kind = "package"}} \ {<<>>}
        files == {n.path : n \in {n \in Range(nodes) : n.kind # "package"}}
        parents == {Front(p) : p \in packages} \union {Front(f) : f \in {f \in files : Front(f) \notin packages}}
    IN  [packages |-> packages, files |-> files, folders |-> UNION {Prefixes(p) : p \in parents} \ {<<>>}]

In(paths, dir) == {p \in paths : Front(p) = dir}

ChildNames(state, of, name) ==
    CASE of \in {"root", "folder"} ->
           {<<"folder", p>> : p \in In(state.folders, name)}
           \union {<<"package", p>> : p \in In(state.packages, name)}
           \union {<<"file", p>> : p \in In(IF name \in state.packages THEN {} ELSE state.files, name)}
      [] of = "package" -> {<<"file", p>> : p \in In(state.files, name)}
      [] OTHER -> {}

RECURSIVE FullNode(_, _, _, _)
FullNode(nodes, state, of, name) ==
    LET below == SetToSeq(ChildNames(state, of, name))
        Words == IF of \in {"package", "file"} THEN WordsAt(nodes, of, name) ELSE {}
    IN  [TreeNode(of, name, Words, FALSE) EXCEPT !.children =
            SortTree(IF of = "file" THEN [i \in DOMAIN SymbolsOf(nodes, name) |-> SymbolTreeNode(SymbolsOf(nodes, name)[i])]
                     ELSE [i \in DOMAIN below |-> FullNode(nodes, state, below[i][1], below[i][2])])]

BuildTree(nodes, exclude) ==
    FullNode(Kept(nodes, exclude), TreeState(Kept(nodes, exclude)), "root", <<>>)

RECURSIVE Preorder(_)
Preorder(tree) == <<tree>> \o FlattenSeq([i \in DOMAIN tree.children |-> Preorder(tree.children[i])])

\* The first node in reading order, as findRefTreeNode and its like look for one.
FirstWith(tree, Test(_)) ==
    LET found == SelectSeq(Preorder(tree), Test) IN IF found = <<>> THEN <<>> ELSE <<found[1]>>
FindNode(tree, id) == FirstWith(tree, LAMBDA n : n.id = id)

-----------------------------------------------------------------------------
\* The tree level by level

PathNodes(nodes, exclude, dir, kinds) ==
    SelectSeq(Kept(nodes, exclude), LAMBDA n : n.kind \in kinds /\ (dir = <<>> \/ IsStrictPrefix(dir, n.path)))

HasDirectFile(nodes, exclude, dir) ==
    \E n \in Range(PathNodes(nodes, exclude, dir, {"file"})) : Front(n.path) = dir
HasSymbol(nodes, path) == SymbolsOf(nodes, path) # <<>>

TreeNodeForModel(nodes, exclude, n) ==
    CASE n.kind = "package" -> TreeNode("package", n.path, n.words, HasDirectFile(nodes, exclude, n.path))
      [] n.kind = "file" -> TreeNode("file", n.path, n.words, HasSymbol(nodes, n.path))
      [] OTHER -> SymbolTreeNode(n)

\* The path below a directory that leads to another one further down.
ImmediateChildPath(dir, path) == SubSeq(path, 1, Len(dir) + 1)

Entry(kind, n) == [kind |-> kind, node |-> n]
KindOf(entries, path) == IF path \in DOMAIN entries THEN entries[path].kind ELSE ""

\* Mutant of FolderEntry: a file or folder takes the place of a package.
FolderEntryLast(entries, dir, n) ==
    LET child == ImmediateChildPath(dir, n.path)
    IN  IF n.path = <<>> THEN entries
        ELSE (child :> IF n.path = child /\ ~IsSymbol(n) THEN Entry(n.kind, <<n>>)
                       ELSE Entry(IF n.path = child THEN "file" ELSE "folder", <<>>)) @@ entries

\* One node below a folder: a package takes the place of a folder of its path.
FolderEntry(entries, dir, n) ==
    LET child == ImmediateChildPath(dir, n.path)
        immediate == n.path = child
    IN  CASE n.path = <<>> -> entries
          [] n.kind = "package" /\ immediate -> (child :> Entry("package", <<n>>)) @@ entries
          [] n.kind = "file" /\ immediate ->
               IF KindOf(entries, child) = "package" THEN entries ELSE (child :> Entry("file", <<n>>)) @@ entries
          [] IsSymbol(n) /\ immediate ->
               IF child \in DOMAIN entries THEN entries ELSE (child :> Entry("file", <<>>)) @@ entries
          [] OTHER ->
               IF KindOf(entries, child) = "package" THEN entries ELSE (child :> Entry("folder", <<>>)) @@ entries

\* One node below a package, of which only those directly in it count.
PackageEntry(entries, dir, n) ==
    IF Front(n.path) # dir THEN entries
    ELSE IF n.kind = "file" THEN (n.path :> Entry("file", <<n>>)) @@ entries
    ELSE IF n.path \in DOMAIN entries THEN entries ELSE (n.path :> Entry("file", <<>>)) @@ entries

MaterializeLazyEntries(nodes, exclude, entries) ==
    LET Node(path) ==
            IF entries[path].node # <<>> THEN TreeNodeForModel(nodes, exclude, entries[path].node[1])
            ELSE TreeNode(entries[path].kind, path, {},
                          entries[path].kind # "file" \/ HasSymbol(nodes, path))
        paths == SetToSeq(DOMAIN entries)
    IN  SortTree([i \in DOMAIN paths |-> Node(paths[i])])

LazyChildren(nodes, exclude, tree) ==
    LET dir == tree.id[2]
    IN  CASE tree.id[1] \in {"root", "folder"} ->
               MaterializeLazyEntries(nodes, exclude,
                   FoldLeft(LAMBDA es, n : FolderEntry(es, dir, n), <<>>,
                            PathNodes(nodes, exclude, dir, {"package", "file"} \union SymbolKinds)))
          [] tree.id[1] = "package" ->
               MaterializeLazyEntries(nodes, exclude,
                   FoldLeft(LAMBDA es, n : PackageEntry(es, dir, n), <<>>,
                            PathNodes(nodes, exclude, dir, {"file"} \union SymbolKinds)))
          [] tree.id[1] = "file" ->
               SortTree([i \in DOMAIN SymbolsOf(nodes, dir) |-> SymbolTreeNode(SymbolsOf(nodes, dir)[i])])
          [] OTHER -> <<>>

RECURSIVE PopulateLazyChildren(_, _, _, _)
PopulateLazyChildren(nodes, exclude, tree, depth) ==
    IF depth = 0 THEN tree
    ELSE LET children == LazyChildren(nodes, exclude, tree)
         IN  [tree EXCEPT !.children = [i \in DOMAIN children |->
                                          PopulateLazyChildren(nodes, exclude, children[i], depth - 1)],
                          !.more = @ \/ children # <<>>]

\* The stored node with the least id; the excluded ones count here.
LeastId(found) == CHOOSE n \in found : \A m \in found : n.id <= m.id

\* The node to start at, if there is one.  Only no name at all is the root: its
\* own name, "root", is that of no node here.
LazyBaseNode(nodes, exclude, id) ==
    LET stored == {n \in Range(nodes) : n.kind = id[1] /\ n.path = id[2]}
        symbols == SelectSeq(nodes, LAMBDA n : IsSymbol(n) /\ n.qn = id[2])
    IN  CASE id = <<>> -> <<TreeNode("root", <<>>, {}, TRUE)>>
          [] id[1] = "root" -> <<>>
          [] id[1] = "folder" ->
               IF PathNodes(nodes, exclude, id[2], {"package", "file"}) = <<>> THEN <<>>
               ELSE <<TreeNode("folder", id[2], {}, TRUE)>>
          [] id[1] \in {"package", "file"} ->
               IF stored # {} THEN <<TreeNodeForModel(nodes, exclude, LeastId(stored))>>
               ELSE IF id[1] = "file" /\ HasSymbol(nodes, id[2]) THEN <<TreeNode("file", id[2], {}, TRUE)>>
               ELSE <<>>
          [] OTHER -> IF symbols = <<>> THEN <<>> ELSE <<SymbolTreeNode(symbols[1])>>

\* Depth 0 asks for all of it, and finds the root by its name too.
BuildSubtree(nodes, exclude, id, depth) ==
    IF depth = 0
    THEN LET tree == BuildTree(nodes, exclude) IN IF id = <<>> THEN <<tree>> ELSE FindNode(tree, id)
    ELSE LET base == LazyBaseNode(nodes, exclude, id)
         IN  [i \in DOMAIN base |-> PopulateLazyChildren(nodes, exclude, base[i], depth)]

HandleTree(nodes, id, depth) ==
    LET root == BuildSubtree(nodes, {}, id, depth)
    IN  CASE depth \notin 0 .. 20 -> [status |-> 400]
          [] root = <<>> -> [status |-> 404]
          [] OTHER -> [status |-> 200, root |-> root[1]]

-----------------------------------------------------------------------------
\* Search, references and the graph view

\* Matches in reading order, with the labels that lead to each; the root is none.
RECURSIVE SearchNode(_, _, _, _, _)
SearchNode(tree, query, labels, results, limit) ==
    LET Visit(found, child) ==
            LET path == Append(labels, child.label)
                hit == query = child.label \/ query \in child.words
            IN  IF Len(found) >= limit THEN found
                ELSE SearchNode(child, query, path,
                                IF hit THEN Append(found, [node |-> child, path |-> path]) ELSE found, limit)
    IN  FoldLeft(Visit, results, tree.children)
Search(tree, query, limit) == SearchNode(tree, query, <<tree.label>>, <<>>, limit)

HandleSearch(nodes, query, limit) ==
    IF query = "" \/ limit \notin 1 .. 100 THEN [status |-> 400]
    ELSE [status |-> 200, results |-> Search(BuildTree(nodes, {}), query, limit)]

SymbolFits(n, symbol) == symbol = <<n.name>> \/ IsSuffix(symbol, n.qn)

\* A reference names a path, a symbol or both; neither is the whole namespace.
\* A path is compared with that in the name of a tree node, and the root's is "root".
RefPathMatchesTree(tree, ref) ==
    IF ref.symbol # <<>>
    THEN /\ tree.details # <<>>
         /\ ref.path # <<>> => tree.details[1].path = ref.path
         /\ SymbolFits(tree.details[1], ref.symbol)
    ELSE \/ tree.details # <<>> /\ tree.details[1].path = ref.path
         \/ tree.kind \in {"file", "package", "folder"} /\ tree.id[2] = ref.path
         \/ tree.kind = "root" /\ ref.path = <<"root">>

FindRefTreeNode(tree, ref) ==
    IF ref.path = <<>> /\ ref.symbol = <<>> THEN <<tree>>
    ELSE FirstWith(tree, LAMBDA n : RefPathMatchesTree(n, ref))

\* The graph is looked through in the order of its kinds.
KindOrder == <<"class", "file", "function", "package", "test", "type">>
ByKind(nodes) == FlattenSeq([i \in DOMAIN KindOrder |-> SelectSeq(nodes, LAMBDA n : n.kind = KindOrder[i])])
FitsRef(n, ref) ==
    IF ref.symbol # <<>> THEN (ref.path # <<>> => n.path = ref.path) /\ SymbolFits(n, ref.symbol)
    ELSE IsPrefix(ref.path, n.path)
ResolveReference(nodes, ref) ==
    LET found == SelectSeq(ByKind(nodes), LAMBDA n : FitsRef(n, ref))
    IN  IF (ref.path = <<>> /\ ref.symbol = <<>>) \/ found = <<>> THEN <<>> ELSE <<found[1]>>

\* What a reference leads to: the node of the tree, and one of the graph beside
\* it, which tells what the first does not.
RefTarget(tree, node) ==
    LET own == IF tree = <<>> THEN <<>> ELSE tree[1].details
        details == IF own # <<>> THEN own ELSE SelectSeq(node, LAMBDA n : n.kind # "file")
        docs == IF tree = <<>> THEN <<>> ELSE tree[1].doc
        source == SelectSeq(node, LAMBDA n : n.kind = "file") \o SelectSeq(details, LAMBDA n : n.path # <<>>)
    IN  [tree |-> tree, graph |-> node, details |-> details,
         doc |-> IF docs # <<>> \/ source = <<>> THEN docs ELSE DocPath(source[1].path)]

HandleRef(nodes, ref) ==
    LET tree == FindRefTreeNode(BuildTree(nodes, {}), ref)
        node == ResolveReference(nodes, ref)
    IN  IF tree = <<>> /\ node = <<>> THEN [status |-> 404]
        ELSE [status |-> 200, target |-> RefTarget(tree, node)]

\* The first nodes, and edges only between them; an edge has from, to and kind.
GraphView(nodes, edges, limit, kinds) ==
    LET ordered == ByKind(nodes)
        shown == SubSeq(ordered, 1, Min({limit, Len(ordered)}))
        ids == {n.id : n \in Range(shown)}
        between == SelectSeq(edges, LAMBDA e : {e.from, e.to} \subseteq ids /\ (kinds = {} \/ e.kind \in kinds))
    IN  [nodes |-> shown, edges |-> SubSeq(between, 1, Min({4 * limit, Len(between)})), total |-> Len(nodes)]

HandleGraph(nodes, edges, limit, kinds) ==
    LET view == GraphView(nodes, edges, limit, kinds)
    IN  IF limit \notin 1 .. 2000 THEN [status |-> 400]
        ELSE [status |-> 200, nodes |-> view.nodes, edges |-> view.edges, truncated |-> view.total > Len(view.nodes)]

-----------------------------------------------------------------------------
\* Documents.  `disk` has a size for each file by its whole path, "ok" or "big".

DefaultNamespace == "default"
ReadDocFile(disk, path) == IF disk[path] = "big" THEN [status |-> 500] ELSE [status |-> 200, file |-> path]

\* The default namespace has three places to look in; the first that has the
\* document counts.
ResolveDocPath(disk, doc) ==
    LET places == (IF doc[1] = "docs" THEN <<DocPath(Tail(doc))>> ELSE <<>>)
                  \o <<<<".ccg">> \o doc, <<"namespaces">> \o doc>>
        there == SelectSeq(places, LAMBDA p : p \in DOMAIN disk)
    IN  IF there = <<>> THEN [status |-> 404] ELSE ReadDocFile(disk, there[1])

\* Mutant of ReadDBFallbackDoc: a named namespace falls back to the shared places.
ReadDocAnywhere(disk, namespace, doc) ==
    LET own == <<"namespaces", namespace>> \o doc
    IN  IF doc = <<>> \/ doc[1] = ".." THEN [status |-> 400]
        ELSE IF namespace # DefaultNamespace /\ own \in DOMAIN disk THEN ReadDocFile(disk, own)
        ELSE ResolveDocPath(disk, doc)

\* A named namespace has only its own place.
ReadDBFallbackDoc(disk, namespace, doc) ==
    LET own == <<"namespaces", namespace>> \o doc
    IN  IF doc = <<>> \/ doc[1] = ".." THEN [status |-> 400]
        ELSE IF namespace = DefaultNamespace THEN ResolveDocPath(disk, doc)
        ELSE IF own \in DOMAIN disk THEN ReadDocFile(disk, own) ELSE [status |-> 404]

\* Where there is no document the tree gives one for its files.
FindDocPath(tree, doc) == FirstWith(tree, LAMBDA n : n.doc = doc)
HandleDoc(nodes, disk, namespace, doc) ==
    LET read == ReadDBFallbackDoc(disk, namespace, doc)
        node == FindDocPath(BuildTree(nodes, {}), doc)
    IN  IF read.status = 200 THEN read
        ELSE IF node # <<>> /\ node[1].doc # <<>> THEN [status |-> 200, tree |-> node[1]] ELSE read

\* Several documents at once; one that is not found is told beside the others.
HandleContext(nodes, disk, namespace, docs) ==
    LET asked == SelectSeq(docs, LAMBDA d : d # <<>>)
        Item(d) == LET answer == HandleDoc(nodes, disk, namespace, d)
                   IN  IF answer.status = 200 THEN answer ELSE [status |-> 404]
    IN  IF Len(docs) > 20 THEN [status |-> 400]
        ELSE [status |-> 200, items |-> [i \in DOMAIN asked |-> Item(asked[i])]]
=============================================================================
