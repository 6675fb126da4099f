---------------------------- MODULE MCArchiveJobs ----------------------------
(* Instances of ArchiveJobs for TLC.                                       *)
EXTENDS ArchiveJobs

MCSlots == [extract |-> 1, create |-> 1, mkdir |-> 2]

\* The archives' folder holds "a" and the first copy of "a".
MCUserKeys == {<<0, <<"a">>>>, <<0, <<"a", 1>>>>}

Extraction(format, strategy, newFolder, archive) ==
    [kind |-> "extract", format |-> format, strategy |-> strategy,
     newFolder |-> newFolder, archive |-> archive]

Creation(keys, format) == [kind |-> "create", keys |-> keys, format |-> format]

Directory(dir, strategy) == [kind |-> "mkdir", dir |-> dir, strategy |-> strategy]

MCFolderEntries == {<<"d">>}

A == <<"a">>
B == <<"b">>
D == <<"d">>

\* Names that are there, that a copy of another takes, that come twice, that are
\* folders, or nothing; more entries, copies and files than are allowed; jobs on
\* one folder, which wait for one another or do not.
MCWorkloads ==
    {<<Extraction("zip", "keepBoth", FALSE, <<A, A>>),
       Extraction("rar", "keepBoth", FALSE, <<A>>)>>,
     <<Extraction("tar", "keepBoth", FALSE, <<A, <<"a", 2>>, A>>)>>,
     <<Extraction("zip", "keepBoth", FALSE, <<D, D, A>>)>>,
     <<Extraction("tar", "fail", FALSE, <<B, A>>),
       Extraction("rar", "skip", FALSE, <<A, <<>>, B>>)>>,
     <<Extraction("rar", "fail", TRUE, <<A>>),
       Extraction("zip", "skip", TRUE, <<D, A, B>>)>>,
     <<Extraction("tar", "replace", TRUE, <<A, D>>), Directory(1, "keepBoth")>>,
     <<Extraction("zip", "replace", TRUE, <<A, B, A, B>>)>>,
     <<Directory(1, "fail"), Extraction("tar", "keepBoth", TRUE, <<A>>)>>,
     <<Creation({<<"s">>, <<"h">>}, "zip"), Creation({<<"s", "t", "g">>}, "zip")>>,
     <<Creation({<<"s", "t">>, <<"s", "f">>}, "tar")>>,
     <<Creation({<<"s">>, <<".secure">>, <<"h">>}, "tar")>>}

MCTree == {<<"s", "f">>, <<".secure", "m">>, <<"s", "t", "g">>, <<"h">>}
MCFolders == {<<"s">>, <<"s", "t">>}

=============================================================================
