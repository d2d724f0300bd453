--------------------------- MODULE MCSchemaStream ---------------------------
(* Small instances of SchemaStream for TLC. *)
EXTENDS SchemaStream

\* Column b is excluded where the filter says so, and table x.
MCInitial(shape) ==
  [t \in {"t", "u", "x"} |->
     IF t = "t" THEN [cols |-> shape, row |-> [i \in DOMAIN shape |-> <<shape[i], 0>>]] ELSE None]

MCInitialTables == MCInitial(<<"k", "b", "a">>)
MCShapes == {<<"b", "k">>}
MCDrops == {<<"t">>, <<"u">>, <<"x">>}
MCTableRenames == {<<"t", "u">>}
MCColumnRenames == {<<"a", "c">>, <<"a", "b">>}
MCReplayable == {{"truncate", "other"}, {"drop"}}

MCDropsPair == {<<"t", "u">>}
MCRenameIn == {<<"x", "u">>}
MCRewindable == {{"other"}, {"drop"}}
MCReplayAll == {Kinds}
MCRewindAlters == {Alters}

=============================================================================
