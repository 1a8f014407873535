--------------------------- MODULE MCGraphUpdate ---------------------------
(* Two directories with a package each, one of them with two files, and     *)
(* three texts: two define the same function, two make calls, and a call    *)
(* may go to either package.                                                *)
EXTENDS GraphUpdate

CONSTANTS a1, b1, b2, a, b, x, y

MCFiles == {a1, b1, b2}
MCDirectories == {a, b}
MCDirOf == [f \in MCFiles |-> IF f = a1 THEN a ELSE b]
MCNames == {x, y}
CallOf(package, name) == [package |-> package, name |-> name]
MCTexts == {
    [defs |-> {x}, calls |-> {CallOf(a, y), CallOf(b, y)}],
    [defs |-> {y}, calls |-> {CallOf(b, x)}],
    [defs |-> {y}, calls |-> {}]}
MCScopes == {MCFiles, {b1, b2}}
=============================================================================
