---------------------------- MODULE MCFileScanner ----------------------------
(* A small instance of FileScanner for TLC. *)
EXTENDS FileScanner, TLC

Link == [Thing("symlink") EXCEPT !.reparse = "symbolic_link"]
Hidden(facts) == [facts EXCEPT !.hidden = TRUE]
Foreign(facts) == [facts EXCEPT !.foreign = TRUE]

\* What stands at x: directories of every kind, and what may look like one.
Directories == {Thing("directory"), Hidden(Thing("directory")), Foreign(Thing("directory"))}
Others == {Hidden(Link), Foreign(Link), [Thing("other") EXCEPT !.reparse = "junction"],
           [Thing("directory") EXCEPT !.reparse = "volume_mount_point"],
           [Thing("other") EXCEPT !.reparse = "other"],
           [Thing("regular") EXCEPT !.cloud = TRUE], Thing("other")}

\* x holds an x and a y if it is a directory; y stands beside it, and perhaps z,
\* whose name is not valid UTF-8.
TreeOf(x, y, z, xx, xy) ==
    [p \in Path |-> CASE p = Root -> Thing("directory")
                      [] p = <<"x">> -> x [] p = <<"y">> -> y [] p = <<"z">> -> z
                      [] p = <<"x", "x">> -> xx [] p = <<"x", "y">> -> xy
                      [] OTHER -> Absent]
Trees ==
    {TreeOf(x, y, Absent, xx, xy) : x \in Directories, y \in {Thing("regular"), Link},
                                    xx \in {Thing("regular"), Link}, xy \in {Absent, Thing("directory")}}
    \cup {TreeOf(x, Thing("regular"), Absent, Absent, Absent) : x \in Others}
    \cup {TreeOf(Thing("directory"), Link, Thing("regular"), xx, Absent) : xx \in {Absent, Link}}

Changes == {Absent, Thing("regular"), Thing("directory"), Link}

NameZ == {"z"}
OnlyXX == {<<"x", "x">>}
OnlyXY == {<<"x", "y">>}
=============================================================================
