--------------------------- MODULE MCOptionStore ---------------------------
(* OptionStore with two subprojects, two values and three declarations. *)
EXTENDS OptionStore, TLC

CONSTANTS s, t, a, b

MCValue == {a, b}
MCSub == {s, t}
Subprojects == Permutations(MCSub)

Decl(type, choices, value, yield) ==
    [type |-> type, choices |-> choices, value |-> value, yield |-> yield]

\* A choice, a narrower one that yields, and an option of another type.
MCDecls == {Decl("combo", MCValue, a, FALSE), Decl("combo", {b}, b, TRUE),
            Decl("string", MCValue, b, TRUE)}
\* The subprojects start with equal files, and edits make them differ.
MCFiles == {f \in [Project -> MCDecls \cup {NoFile}] : f[s] = f[t]}
MCMaxEvents == [k \in Kind |-> IF k = "builtin" THEN 4 ELSE 3]

============================================================================
