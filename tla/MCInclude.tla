----------------------------- MODULE MCInclude -----------------------------
(* A source in a build directory that is a subdirectory of an include path. *)
EXTENDS Include

MCNames     == <<"A", "a", "b">>
MCFold      == [n \in ToSet(MCNames) |-> IF n = "A" THEN "a" ELSE n]
MCBuildRoot == <<"b">>
MCMainFile  == <<"b", "b">>

MCUserPaths   == << <<"a">>, << >>, <<"b">> >>
MCSystemPaths == << <<"A">> >>

\* A path is absent, a file, or a directory of files.
Entries(p, within) ==
    {{}, {<<p, "file">>}}
      \union {{<<p, "dir">>} \union {<<Append(p, n), "file">> : n \in ns} :
                 ns \in SUBSET within}

Tree(entries) ==
    [p \in {e[1] : e \in entries} |-> (CHOOSE e \in entries : e[1] = p)[2]]

MCDisks ==
    {Tree({<<<< >>, "dir">>, <<MCBuildRoot, "dir">>, <<MCMainFile, "file">>}
            \union a \union b \union c \union d) :
        a \in Entries(<<"a">>, {"A", "a"}),
        b \in Entries(<<"A">>, {"a"}),
        c \in Entries(<<"b", "a">>, {"b"}),
        d \in {{}, {<<<<"b", "A">>, "file">>}}}

MCSlashed ==
    Parts \X Parts \union {<<x, "..", y>> : x, y \in Parts}
                   \union {<<"..", x, y>> : x, y \in ToSet(MCNames)}

MCColons ==
    LET parts == {<< >>} \union {<<x>> : x \in Parts} \union Parts \X Parts
    IN  {Absolute(v, ps) : v \in {"Build", "Host"}, ps \in parts}
          \union {Relative(n, ps) : n \in 1 .. 2, ps \in parts}
=============================================================================
