------------------------------ MODULE MCFSUtil ------------------------------
(***************************************************************************)
(* Instances of FSUtil for TLC.                                            *)
(***************************************************************************)
EXTENDS FSUtil

CONSTANTS c1, c2

d == <<"d">>
dx == <<"d", "x">>
de == <<"d", "e">>
dey == <<"d", "e", "y">>
dl == <<"d", "l">>
o == <<"o">>
oy == <<"o", "y">>
oz == <<"o", "z">>
m == <<"m">>
mz == <<"m", "z">>

\* A directory with a file, a directory, and a link to another directory; a link into it.
\* A socket, and a directory that cannot be changed, in one that can; a link that leads nowhere.
MCTrees ==
    {<<>> :> Dir @@ d :> Dir @@ dx :> File(1) @@ de :> Dir @@ dey :> File(2) @@ dl :> Link(o)
        @@ o :> Dir @@ oy :> File(3) @@ oz :> Link(<<>>) @@ m :> Link(de),
     <<>> :> Dir @@ d :> Dir @@ dx :> File(1) @@ <<"d", "g">> :> Dir @@ <<"d", "g", "y">> :> File(2)
        @@ de :> Socket @@ o :> File(3) @@ m :> Link(<<"n">>)}
MCNames == {"d", "e", "g", "l", "m", "n", "o", "w", "x", "y", "z"}
MCGuarded == {<<"d", "g">>}

Op(op, p, arg) == [op |-> op, path |-> p, arg |-> arg]
MCCalls ==
    {Op("Rm", p, <<>>) : p \in {d, de, m, o, oz \o o}}
    \cup {Op("Mkdir", p, <<>>) : p \in {d, de \o <<"n">>, mz, mz \o <<"n">>, dx \o <<"n">>}}
    \cup {Op("Mv", d, dx), Op("Mv", o, d), Op("Mv", de, d), Op("Mv", dl, oy), Op("Mv", o, <<"n">>),
          Op("Mv", m, de), Op("Mv", dx, dx), Op("Mv", dx, m),
          Op("Mv", dl \o <<"n">>, d), Op("Mv", o, oz \o dx)}
    \cup {Op("Symlink", de, o), Op("Symlink", o, m)}
    \cup {Op("Unlink", dx, FALSE), Op("Unlink", o, TRUE)}
    \cup {Op("OpenForWrite", p, <<>>) : p \in {m, dx, de \o <<"w">>, <<"n", "n", "w">>}}
    \cup {Op("ListAllFile", <<>>, {"x", "y", "w"}), Op("ListAllFile", d, {"y"}),
          Op("ListAllFile", m, {"x", "y", "w"})}

MCSymmetry == Permutations({c1, c2})
=============================================================================
