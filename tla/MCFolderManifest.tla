-------------------------- MODULE MCFolderManifest --------------------------
(* Instances of FolderManifest for TLC.                                    *)
EXTENDS FolderManifest, TLC

\* Two folders that renames turn into one another, each with a subfolder.
MCPaths == {<<"a">>, <<"b">>, <<"a", "c">>, <<"b", "c">>}

FolderSymmetry == Permutations(Requests)

=============================================================================
