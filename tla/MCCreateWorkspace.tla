------------------------- MODULE MCCreateWorkspace -------------------------
\* Instance: a folder with a file two levels down, which may vanish from the
\* disk and takes the folder it is in along; and a file.
EXTENDS CreateWorkspace

top == <<"a">>
deep == <<"a", "d", "f">>
file == <<"b">>

MCContents == [s \in {"s", "t"} |-> IF s = "s" THEN {top, deep} ELSE {file}]
MCDirectory == {top}
MCVolatile == {deep}
MCMatches == [q \in {"q"} |-> {deep}]

=============================================================================
