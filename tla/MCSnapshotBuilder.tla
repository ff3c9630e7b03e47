-------------------------- MODULE MCSnapshotBuilder --------------------------
(***************************************************************************)
(* The entries of the model: a directory seen by a header, by entries with *)
(* two different times and only as the parent of a file; a path that is a  *)
(* file in one entry and a directory in another; duplicates of a file with *)
(* other metadata; an empty file; and the two shapes of an invalid path.   *)
(***************************************************************************)
EXTENDS SnapshotBuilder

Meta(size, modified, content) == [size |-> size, modified |-> modified, content |-> content]

Entry(path, kind, observation, meta) ==
    [path |-> path, kind |-> kind, observation |-> observation, meta |-> meta]

MCNames == {"a", "b"}
MCTimes == {"t1", "t2"}
MCBytes == {"x"}

MCEntries ==
    { Entry(<<"a">>, Directory, SectionHeader, NoMetadata),
      Entry(<<"a">>, Directory, DirectoryEntry, Meta(NONE, "t1", NONE)),
      Entry(<<"a">>, Directory, DirectoryEntry, Meta(NONE, "t2", NONE)),
      Entry(<<"a">>, File, FileEntry, Meta(0, "t1", NONE)),
      Entry(<<"a", "b">>, File, FileEntry, Meta(1, "t1", NONE)),
      Entry(<<"a", "b">>, File, FileEntry, Meta(1, "t1", <<"x">>)),
      Entry(<<"b", "a", "b">>, File, FileEntry, Meta(NONE, "t1", NONE)),
      Entry(<<"b", "a">>, File, FileEntry, Meta(0, "t2", << >>)),
      Entry(<<"b">>, "special", FileEntry, Meta(NONE, "t1", NONE)),
      Entry(<<"b">>, "special", FileEntry, Meta(1, "t2", NONE)),
      Entry(<<"b", "!">>, File, FileEntry, Meta(0, "t1", NONE)),
      Entry(<< >>, Directory, SectionHeader, NoMetadata) }
=============================================================================
