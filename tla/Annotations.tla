---------------------------- MODULE Annotations ----------------------------
(***************************************************************************)
(* From comments to annotations: the normalizer strips the markers of a    *)
(* comment, the parser reads a summary, a context and tags, the binder     *)
(* gives each node at most one comment, and the store keeps one annotation *)
(* per node.  A line of a comment is its marker and what follows it: a     *)
(* blank, a text, a tag or a compiler directive.                           *)
(***************************************************************************)
EXTENDS Extraction

CONSTANTS
    BlockLanguages,  \* languages whose block delimiters are stripped
    LineMarkers,     \* of each language, the markers stripped from a line
    KnownTags        \* tag names, and the kind each stands for

-----------------------------------------------------------------------------
\* annotation.Normalizer

\* A comment that opens a block loses the opening and, if it closes one, the end.
StripBlockDelimiters(text, lang) ==
    IF lang \notin BlockLanguages \/ text[1].marker # "/*" THEN text
    ELSE LET opened == [text EXCEPT ![1].marker = ""]
         IN  IF Last(opened).body.kind = "close"
             THEN [opened EXCEPT ![Len(opened)].marker = "", ![Len(opened)].body = [kind |-> "blank"]]
             ELSE opened

\* A marker the language does not know stays, and hides a tag behind it.
StripLinePrefix(line, lang) ==
    IF line.marker = "" \/ line.marker \in LineMarkers[lang] THEN line.body
    ELSE [kind |-> "text", text |-> line]

Blank(b) == b.kind = "blank"
LeadingBlanksDropped(bodies) ==
    LET said == {i \in DOMAIN bodies : ~Blank(bodies[i])}
    IN  IF said = {} THEN <<>> ELSE SubSeq(bodies, CHOOSE i \in said : \A j \in said : i <= j, Len(bodies))

Normalize(text, lang) ==
    IF text = <<>> THEN <<>>
    ELSE LET kept == SelectSeq(StripBlockDelimiters(text, lang),
                               LAMBDA l : ~(lang = "go" /\ l.marker = "//" /\ l.body.kind = "directive"))
             bodies == [i \in DOMAIN kept |-> StripLinePrefix(kept[i], lang)]
         IN  Reverse(LeadingBlanksDropped(Reverse(LeadingBlanksDropped(bodies))))

-----------------------------------------------------------------------------
\* annotation.Parser

\* The paragraphs before the first tag, known or not.
Preamble(bodies) ==
    LET tags == {i \in DOMAIN bodies : bodies[i].kind = "tag"}
    IN  IF tags = {} THEN bodies
        ELSE SubSeq(bodies, 1, (CHOOSE i \in tags : \A j \in tags : i <= j) - 1)

Paragraphs(bodies) ==
    FoldLeft(LAMBDA p, b :
                IF Blank(b) THEN [p EXCEPT !.open = FALSE]
                ELSE IF p.open
                THEN [p EXCEPT !.list[Len(p.list)] = Append(@, b)]
                ELSE [list |-> Append(p.list, <<b>>), open |-> TRUE],
             [list |-> <<>>, open |-> FALSE], bodies).list

NeedsName(kind) == kind \in {"param", "throws"}

OrdinalOf(ordinals, kind) == IF kind \in DOMAIN ordinals THEN ordinals[kind] ELSE 0

\* A param or throws without a name is refused, but its ordinal is gone.
ParseTagLine(state, tag) ==
    IF tag.name \notin DOMAIN KnownTags
    THEN [state EXCEPT !.open = FALSE, !.warnings = Append(@, tag.name)]
    ELSE LET kind == KnownTags[tag.name]
             numbered == [state EXCEPT !.ordinals = [k \in DOMAIN @ \union {kind} |->
                             OrdinalOf(state.ordinals, k) + (IF k = kind THEN 1 ELSE 0)]]
         IN  IF NeedsName(kind) /\ ~tag.named
             THEN [numbered EXCEPT !.open = FALSE, !.warnings = Append(@, tag.name)]
             ELSE [numbered EXCEPT !.open = TRUE,
                      !.tags = Append(@, [kind |-> kind, ordinal |-> OrdinalOf(state.ordinals, kind),
                                          value |-> <<tag>>])]

ParseLine(state, b) ==
    CASE b.kind = "blank" -> [state EXCEPT !.open = FALSE]
      [] b.kind = "tag"   -> ParseTagLine(state, b)
      [] OTHER -> IF state.open THEN [state EXCEPT !.tags[Len(state.tags)].value = Append(@, b)]
                  ELSE state

Nth(list, n) == IF n \in DOMAIN list THEN list[n] ELSE <<>>

ParseAnnotation(bodies) ==
    LET paragraphs == Paragraphs(Preamble(bodies))
        tagged == FoldLeft(ParseLine, [open |-> FALSE, ordinals |-> <<>>, tags |-> <<>>, warnings |-> <<>>],
                           SubSeq(bodies, Len(Preamble(bodies)) + 1, Len(bodies)))
    IN  [summary |-> Nth(paragraphs, 1), context |-> Nth(paragraphs, 2), tags |-> tagged.tags]

HasContent(a) == a.summary # <<>> \/ a.context # <<>> \/ a.tags # <<>>

-----------------------------------------------------------------------------
\* binding.Binder

\* Blank lines, comments, decorators, and whatever else starts like one.
IsPassthroughLine(line) == line \in {"blank", "comment", "decorator", "directive"}

\* Mutant of HasCodeBetween: the line above the declaration is not looked at.
HasCodeBetweenShort(lines, end, start) ==
    \E l \in end + 1 .. start - 2 : l \in DOMAIN lines /\ ~IsPassthroughLine(lines[l])

HasCodeBetween(lines, end, start) ==
    \E l \in end + 1 .. start - 1 : l \in DOMAIN lines /\ ~IsPassthroughLine(lines[l])

\* With no lines to look at, only a comment right above binds.
BindsToSymbol(c, n, lines) ==
    IF c.docstring THEN c.owner = n.first
    ELSE LET gap == n.first - c.last
         IN  gap = 1 \/ (gap > 1 /\ lines # <<>> /\ ~HasCodeBetween(lines, c.last, n.first))

BindsToFile(c) == c.docstring => c.owner = 0

Binds(c, n, lines) == IF n.kind = "file" THEN BindsToFile(c) ELSE BindsToSymbol(c, n, lines)

Binding(c, n, lang) == [node |-> n, annotation |-> ParseAnnotation(Normalize(c.text, lang))]

\* The first comment that qualifies; a file takes one only if it says something.
BindNode(comments, n, lang, lines) ==
    LET candidates == SelectSeq(comments, LAMBDA c : Binds(c, n, lines))
        first == Binding(candidates[1], n, lang)
    IN  IF candidates = <<>> \/ (n.kind = "file" /\ ~HasContent(first.annotation)) THEN <<>>
        ELSE <<first>>

Bind(comments, nodes, lang, lines) ==
    FlattenSeq([i \in DOMAIN nodes |-> BindNode(comments, nodes[i], lang, lines)])

-----------------------------------------------------------------------------
\* The store

Key(n) == <<n.qn, n.first>>

\* A later node of a key in one batch changes the row of the earlier one.
UpsertNodes(rows, nodes) ==
    FoldLeft(LAMBDA r, n : [k \in DOMAIN r \union {Key(n)} |-> IF k = Key(n) THEN n ELSE r[k]],
             rows, nodes)

\* Nothing of a batch is stored when two annotations are for one node, or one is
\* for a node that is not there.
UpsertAnnotations(db, batch) ==
    LET ids == {batch[i].id : i \in DOMAIN batch}
    IN  IF Cardinality(ids) # Len(batch) \/ ~(ids \subseteq DOMAIN db.nodes)
        THEN [db EXCEPT !.refused = TRUE]
        ELSE [db EXCEPT !.annotations =
                [k \in DOMAIN @ \union ids |->
                    IF k \in ids THEN (CHOOSE a \in Range(batch) : a.id = k).annotation ELSE @[k]]]

EmptyStore == [nodes |-> <<>>, annotations |-> <<>>, refused |-> FALSE]

\* A binding of a node that is not stored is passed over.
AnnotationRow(db, b) ==
    IF Key(b.node) \notin DOMAIN db.nodes THEN <<>> ELSE <<[id |-> Key(b.node), annotation |-> b.annotation]>>

\* A build and an update agree on how; an update has the language to ask for too.
CollectAnnotations(db, nodes, comments, lang, lines) ==
    LET bindings == IF comments = <<>> \/ lang = "" THEN <<>> ELSE Bind(comments, nodes, lang, lines)
    IN  FlattenSeq([i \in DOMAIN bindings |-> AnnotationRow(db, bindings[i])])

PersistParsed(db, nodes, comments, lang, lines) ==
    LET stored == [db EXCEPT !.nodes = UpsertNodes(@, nodes)]
    IN  UpsertAnnotations(stored, CollectAnnotations(stored, nodes, comments, lang, lines))

\* The file's nodes go, and their annotations with them, before it is stored again.
DeleteNodesOfFile(db) == [db EXCEPT !.nodes = <<>>, !.annotations = <<>>]

StoreWalked(db, parsed, source) ==
    [parsed |-> parsed,
     db |-> PersistParsed(DeleteNodesOfFile(db), parsed.nodes, parsed.comments, source.lang, source.lines)]

StoreFile(db, source, pkg) == StoreWalked(db, ParseWithComments(source, pkg), source)
=============================================================================
