---------------------------- MODULE MCFileSystem ----------------------------
(***************************************************************************)
(* Three files in two directories, spelled in different ways, and the      *)
(* directories listed with and without a slash at the end.  On disk one of *)
(* the files would be a directory of another.                              *)
(***************************************************************************)
EXTENDS FileSystem, TLC

Path(rooted, segs) == [rooted |-> rooted, segs |-> segs, back |-> FALSE]
Absolute(segs) == Path(TRUE, segs)
Backslashes(path) == [path EXCEPT !.back = TRUE]

MCPaths ==
  [ memory   |-> { Absolute(<<"d", "f">>), Backslashes(Absolute(<<"d", "g">>)),
                   Path(FALSE, <<"d", "f">>) },
    physical |-> { Absolute(<<"d", "f">>), Absolute(<<"d", "g">>), Absolute(<<"d", "g", "x">>) },
    zip      |-> { Path(FALSE, <<"d", "">>), Path(FALSE, <<"d", "f">>), Path(FALSE, <<"d", "g">>) } ]
MCFolders ==
  [ memory   |-> { Path(FALSE, <<>>), Absolute(<<"d", "">>) },
    physical |-> { Absolute(<<"d">>) },
    zip      |-> { Absolute(<<"d">>), Absolute(<<>>) } ]

InOrder ==
  << Key(FALSE, <<>>), Key(TRUE, <<>>), Key(TRUE, <<"d">>), Key(TRUE, <<"d", "">>),
     Key(TRUE, <<"d", "f">>), Key(TRUE, <<"d", "g">>), Key(TRUE, <<"d", "g", "x">>),
     Key(FALSE, <<"d">>), Key(FALSE, <<"d", "">>), Key(FALSE, <<"d", "f">>),
     Key(FALSE, <<"d", "g">>), Key(FALSE, <<"d", "g", "x">>) >>
MCOrdinal == [k \in {InOrder[i] : i \in DOMAIN InOrder} |->
                CHOOSE i \in DOMAIN InOrder : InOrder[i] = k]
WriterSymmetry == Permutations(Writers)
=============================================================================
