----------------------------- MODULE MCSources -----------------------------
(* Small source files for the walker and the binder: every layout of a few   *)
(* lines, and every short sequence of captures of two names.                 *)
EXTENDS Annotations, TLC

MCTestNames == {"TestIt"}
MCLineMarkers == [l \in {"go", "python", "rust"} |->
                    CASE l = "go" -> {"//", "*"} [] l = "python" -> {"#"} [] OTHER -> {"//", "///"}]
MCKnownTags == [t \in {"intent", "return", "returns", "param"} |-> IF t = "returns" THEN "return" ELSE t]

\* Lines of a layout: comments on a line of their own are a text, a tag, an
\* unknown tag or a tag without its name; a comment may follow code.
Comments == {"doc", "tag", "typo", "nameless"}
Trailing == {"codeDoc", "declDoc"}
Declares == {"decl", "declDoc"}
LineKinds == {"blank", "code", "decorator", "docstring"} \union Comments \union Trailing \union Declares
NameAt == <<"f", "g", "TestIt", "h", "i">>

Layouts(n) == {l \in [1 .. n -> LineKinds] :
                  /\ \E i \in 1 .. n : l[i] \in Declares
                  /\ \A i \in 1 .. n : l[i] = "docstring" => i = 1 \/ l[i - 1] \in Declares}

\* What the binder sees of the lines.
SourceLines(l) ==
    [i \in DOMAIN l |-> CASE l[i] \in Comments -> "comment"
                         [] l[i] \in {"blank", "decorator"} -> l[i]
                         [] OTHER -> "code"]

BodyAt(kind, i) ==
    CASE kind = "tag"      -> [kind |-> "tag", name |-> "intent", named |-> TRUE, line |-> i]
      [] kind = "typo"     -> [kind |-> "tag", name |-> "intnet", named |-> TRUE, line |-> i]
      [] kind = "nameless" -> [kind |-> "tag", name |-> "param", named |-> FALSE, line |-> i]
      [] OTHER             -> [kind |-> "text", line |-> i]

Marker(lang) == CASE lang = "python" -> "#" [] lang = "rust" -> "///" [] OTHER -> "//"

\* In Rust a comment ends at the start of the next line.
CommentAt(l, lang, i) ==
    [kind |-> IF lang = "rust" THEN "line_comment" ELSE "comment", first |-> i,
     last |-> IF lang = "rust" THEN i + 1 ELSE i, column |-> IF lang = "rust" THEN 0 ELSE 9,
     text |-> <<[marker |-> Marker(lang), body |-> BodyAt(l[i], i)]>>]

LinesOf(l, kinds) == SelectSeq([i \in DOMAIN l |-> i], LAMBDA i : l[i] \in kinds)

\* The first of the decorators right above a declaration.
Wrapped(l, i) ==
    CHOOSE j \in 1 .. i : /\ \A k \in j .. i - 1 : l[k] = "decorator"
                          /\ j = 1 \/ l[j - 1] # "decorator"
Capture(name, first, last) ==
    [what |-> "definition", name |-> name, type |-> "function", receiver |-> "", first |-> first,
     last |-> last, implements |-> {}]
CapturesAt(l, i, innerFirst) ==
    LET inner == Capture(NameAt[i], i, i)  outer == Capture(NameAt[i], Wrapped(l, i), i)
    IN  IF Wrapped(l, i) = i THEN <<inner>>
        ELSE IF innerFirst THEN <<inner, outer>> ELSE <<outer, inner>>

DocstringAt(i) ==
    <<[kind |-> "string", first |-> i, last |-> i,
       text |-> <<[marker |-> "", body |-> [kind |-> "text", line |-> i]]>>]>>
BodyOf(l, i) ==
    [owner |-> IF i = 0 THEN 0 ELSE Wrapped(l, i),
     statements |-> IF i + 1 \in DOMAIN l /\ l[i + 1] = "docstring" THEN DocstringAt(i + 1) ELSE <<>>]

Source(l, lang, innerFirst) ==
    [path |-> "a.x", lang |-> lang, lines |-> SourceLines(l),
     comments |-> LET at == LinesOf(l, Comments \union Trailing)
                  IN  [k \in DOMAIN at |-> CommentAt(l, lang, at[k])],
     bodies |-> LET at == <<0>> \o LinesOf(l, Declares) IN [k \in DOMAIN at |-> BodyOf(l, at[k])],
     matches |-> FlattenSeq(LET at == LinesOf(l, Declares)
                            IN  [k \in DOMAIN at |-> CapturesAt(l, at[k], innerFirst)])]

\* Lines of comments about a node: from the last code above it.
CodeAbove(lines, n) == {i \in 1 .. n.first - 1 : lines[i] = "code"}
Since(lines, n) ==
    LET code == CodeAbove(lines, n) IN IF code = {} THEN 0 ELSE CHOOSE i \in code : \A j \in code : j <= i

\* Which lines of the source an annotation speaks of.
LinesSaid(a) ==
    {b.line : b \in Range(a.summary) \union Range(a.context)}
    \union UNION {{b.line : b \in Range(t.value)} : t \in Range(a.tags)}

-----------------------------------------------------------------------------
\* Captures of two names, as several patterns of a query find them

Spans == {<<1, 2>>, <<2, 2>>, <<3, 4>>, <<4, 4>>, <<2, 4>>}
SomeCaptures ==
    {[Capture(name, s[1], s[2]) EXCEPT !.receiver = receiver, !.type = type, !.implements = {"Store"}] :
        name \in {"f", "TestIt"}, s \in Spans, receiver \in {"", "A"}, type \in {"function"}}
    \union {[Capture("f", 1, 4) EXCEPT !.type = type, !.implements = {"Store"}] : type \in {"class", "type"}}
CapturedFile(captures) ==
    [path |-> "a.x", lang |-> "go", lines |-> <<"comment", "code", "comment", "code">>,
     comments |-> <<CommentAt(<<"doc", "code", "doc", "code">>, "go", 1),
                    CommentAt(<<"doc", "code", "doc", "code">>, "go", 3)>>,
     bodies |-> <<>>,
     matches |-> <<[what |-> "package", name |-> "p"]>> \o captures
                 \o <<[what |-> "call", target |-> "g", line |-> 2], [what |-> "import", target |-> "q", line |-> 4]>>]

\* The file was stored before, when its first line declared f with a comment.
MCStoredFile ==
    [EmptyStore EXCEPT
        !.nodes = (<<<<"f">>, 1>> :> NodeOf("", Capture("f", 1, 1))),
        !.annotations = (<<<<"f">>, 1>> :> [summary |-> <<BodyAt("doc", 99)>>, context |-> <<>>, tags |-> <<>>])]
=============================================================================
