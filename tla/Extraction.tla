----------------------------- MODULE Extraction -----------------------------
(***************************************************************************)
(* What one file contributes to the graph: the walker reads the matches of *)
(* the language's query one after the other and keeps one node for each    *)
(* symbol and the edges between them; it merges comments into blocks.  The *)
(* syntax tree is outside: a match says what was captured, and where.      *)
(* Names are strings, a qualified name is a sequence of them.              *)
(***************************************************************************)
EXTENDS Naturals, Integers, Sequences, FiniteSets, FiniteSetsExt, SequencesExt

CONSTANTS TestNames  \* the names isTestName accepts in the language

\* A definition has a name, a kind, a receiver ("" for none), its lines and the
\* types it says it implements.
Part(name) == IF name = "" THEN <<>> ELSE <<name>>
BuildQualifiedName(pkg, receiver, name) == Part(pkg) \o Part(receiver) \o <<name>>

NodeKind(def) ==
    CASE def.type = "class"              -> "class"
      [] def.type \in {"interface", "type"} -> "type"
      [] OTHER -> IF def.name \in TestNames THEN "test" ELSE "function"

FileNodeOf(path, lines) ==
    [name |-> path, qn |-> <<path>>, kind |-> "file", first |-> 1, last |-> lines]

NodeOf(pkg, def) ==
    [name |-> def.name, qn |-> BuildQualifiedName(pkg, def.receiver, def.name),
     kind |-> NodeKind(def), first |-> def.first, last |-> def.last]

RangesOverlap(m, n) == m.first <= n.last /\ n.first <= m.last

-----------------------------------------------------------------------------
\* One definition, when nodes are known already

SameSpan(nodes, new) ==
    {i \in DOMAIN nodes : /\ nodes[i].name = new.name
                          /\ nodes[i].first = new.first /\ nodes[i].last = new.last}

\* The symbol of that name that was added last.
NewestOf(nodes, new) ==
    LET named == {i \in DOMAIN nodes : nodes[i].kind # "file" /\ nodes[i].name = new.name}
    IN  IF named = {} THEN {} ELSE {CHOOSE i \in named : \A j \in named : j <= i}

\* Mutant of Overlapping: every pattern that matches adds a node.
OverlappingNever(nodes, new) == {}

Overlapping(nodes, new) == {i \in NewestOf(nodes, new) : RangesOverlap(nodes[i], new)}

\* A second capture with a receiver tells more, and class tells more than type.
Merge(node, new, receiver) ==
    [node EXCEPT !.qn = IF receiver # "" /\ receiver \notin Range(node.qn) THEN new.qn ELSE @,
                 !.kind = IF @ = "type" /\ new.kind = "class" THEN "class" ELSE @]

\* A wrapper (a decorated definition) starts further up and takes the place.
Widen(node, new) ==
    [node EXCEPT !.first = new.first, !.last = new.last, !.qn = new.qn, !.kind = new.kind]

\* Nodes, and which of them the definition is taken for; an inner definition adds
\* nothing to its wrapper.
Accept(nodes, def, pkg) ==
    LET new == NodeOf(pkg, def)
        same == SameSpan(nodes, new)
        around == Overlapping(nodes, new)
    IN  IF same # {}
        THEN LET i == CHOOSE i \in same : \A j \in same : j <= i
             IN  [nodes |-> [nodes EXCEPT ![i] = Merge(@, new, def.receiver)], at |-> {i}]
        ELSE IF around # {}
        THEN LET i == CHOOSE i \in around : TRUE
             IN  IF def.first < nodes[i].first
                 THEN [nodes |-> [nodes EXCEPT ![i] = Widen(@, new)], at |-> {i}]
                 ELSE [nodes |-> nodes, at |-> {}]
        ELSE [nodes |-> Append(nodes, new), at |-> {Len(nodes) + 1}]

\* Edges count by their fingerprint: of an implements edge the line is no part.
AppendUnique(edges, new) ==
    edges \union {e \in new : \A d \in edges : <<d.kind, d.source, d.target>> # <<e.kind, e.source, e.target>>}

DefinitionMatch(parsed, def) ==
    LET accepted == Accept(parsed.nodes, def, parsed.package)
    IN  [parsed EXCEPT
            !.nodes = accepted.nodes,
            !.edges = AppendUnique(@, {[kind |-> "implements", line |-> def.first,
                                        source |-> accepted.nodes[i].qn, target |-> <<t>>] :
                                          i \in accepted.at, t \in def.implements})]

ReferenceMatch(parsed, kind, m) ==
    [parsed EXCEPT !.edges = @ \union
        {[kind |-> kind, line |-> m.line, source |-> <<>>, target |-> <<m.target>>]}]

\* A package clause counts from where it stands.
Match(parsed, m) ==
    CASE m.what = "package"    -> [parsed EXCEPT !.package = m.name]
      [] m.what = "definition" -> DefinitionMatch(parsed, m)
      [] m.what = "call"       -> ReferenceMatch(parsed, "calls", m)
      [] m.what = "import"     -> ReferenceMatch(parsed, "imports_from", m)

\* After each match.
Parses(path, lines, pkg, matches) ==
    LET parsed[i \in 0 .. Len(matches)] ==
            IF i = 0 THEN [package |-> pkg, nodes |-> <<FileNodeOf(path, lines)>>, edges |-> {}]
            ELSE Match(parsed[i - 1], matches[i])
    IN  parsed

ExecuteQueries(path, lines, pkg, matches) == Parses(path, lines, pkg, matches)[Len(matches)]

-----------------------------------------------------------------------------
\* Edges the nodes imply

Symbols(nodes) == SelectSeq(nodes, LAMBDA n : n.kind # "file")

ContainsEdges(path, nodes) ==
    {[kind |-> "contains", line |-> n.first, source |-> <<path>>, target |-> n.qn] :
        n \in Range(Symbols(nodes))}

\* Of several tests of one qualified name the last counts.
TestedBy(nodes, edges) ==
    LET tests == {i \in DOMAIN nodes :
                     /\ nodes[i].kind = "test"
                     /\ \A j \in DOMAIN nodes :
                           j > i => nodes[j].kind # "test" \/ nodes[j].qn # nodes[i].qn}
    IN  {[kind |-> "tested_by", line |-> p[1].line, source |-> nodes[p[2]].qn, target |-> p[1].target] :
            p \in {q \in {e \in edges : e.kind = "calls"} \X tests :
                      nodes[q[2]].first <= q[1].line /\ q[1].line <= nodes[q[2]].last}}

-----------------------------------------------------------------------------
\* Comments

\* Some grammars let a line comment end at the start of the next line.
EndLine(c) ==
    IF c.kind = "line_comment" /\ c.column = 0 /\ c.last > c.first THEN c.last - 1 ELSE c.last

Block(c) ==
    [first |-> c.first, last |-> EndLine(c), text |-> c.text, docstring |-> FALSE, owner |-> 0]

\* A comment on the line after a block, or on its last line, continues it.
CollectComments(found) ==
    FoldLeft(LAMBDA blocks, c :
                IF blocks # <<>> /\ c.first - Last(blocks).last <= 1
                THEN Front(blocks) \o <<[Last(blocks) EXCEPT !.last = EndLine(c), !.text = @ \o c.text]>>
                ELSE Append(blocks, Block(c)),
             <<>>, found)

\* The first expression of a body is its docstring if it is a plain string; what
\* is no expression (an import, a return) may stand before it.
CollectDocstrings(bodies) ==
    LET FirstExpression(body) ==
            LET said == SelectSeq(body.statements, LAMBDA s : s.kind \in {"string", "expression"})
            IN  IF said = <<>> THEN <<>> ELSE SelectSeq(<<said[1]>>, LAMBDA s : s.kind = "string")
        Docstring(body, s) ==
            [first |-> s.first, last |-> s.last, text |-> s.text, docstring |-> TRUE, owner |-> body.owner]
    IN  FoldLeft(LAMBDA found, body :
                    LET e == FirstExpression(body)
                    IN  IF e = <<>> THEN found ELSE Append(found, Docstring(body, e[1])),
                 <<>>, bodies)

\* Docstrings take their place by line, after a comment on the same line.
MergeCommentBlocks(comments, docstrings) ==
    FoldLeft(LAMBDA merged, d : SelectSeq(merged, LAMBDA c : c.first <= d.first) \o <<d>>
                                \o SelectSeq(merged, LAMBDA c : c.first > d.first),
             comments, docstrings)

-----------------------------------------------------------------------------
\* source is what the grammar made of a file: its number of lines, its matches,
\* comments and bodies (of the module and its definitions) in the order of the tree.
Complete(walked, source) ==
    [nodes |-> walked.nodes, package |-> walked.package,
     edges |-> walked.edges \union ContainsEdges(source.path, walked.nodes)
                            \union TestedBy(walked.nodes, walked.edges),
     comments |-> MergeCommentBlocks(CollectComments(source.comments), CollectDocstrings(source.bodies))]

ParseWithComments(source, pkg) ==
    Complete(ExecuteQueries(source.path, Len(source.lines), pkg, source.matches), source)
=============================================================================
