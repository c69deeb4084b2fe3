------------------------------ MODULE MCDaemon -------------------------------
(* Daemon for TLC: three objects, four plugins, and what can happen.       *)
EXTENDS Daemon, TLC

CONSTANT Mysql

Word(n, v) == [name |-> n, value |-> v]
Word0(n) == Word(n, <<>>)

\* The keyword buffer holds three: too few for the date of the photograph.
Photograph == <<Word("mimetype", <<"image", "jpeg">>), Word0("size"), Word0("artist"), Word0("date")>>
Drawing == <<Word0("size"), Word("mimetype", <<"image", "gif">>), Word0("artist")>>

TwoContents == {Drawing, Photograph}
ThreeData == <<Drawing, Photograph, Drawing>>
Files == <<"file", "file", "file">>
WithDirs == <<"file", "dir", "dir">>

ImagePlugins == {"jpeg", "gif", "photo", "generic", "pdf"}
NoPdf == {"pdf"}

\* readdir() returns them in one order or the other.
OneOrder == {<<"jpeg", "gif", "photo", "generic", "pdf">>}
TwoOrders == OneOrder \cup {<<"generic", "photo", "gif", "pdf", "jpeg">>}

Bounds(l, n, o, k) == [launches |-> l, objects |-> n, opens |-> o, kills |-> k]
Case(b, dbs, fg, found) ==
    b @@ [dbs |-> dbs, fg |-> fg, found |-> found, down |-> {}, faults |-> FALSE,
          rewrites |-> {}, edits |-> {}, unlinks |-> FALSE, fair |-> FALSE]

\* Starts and failures, with one object; service in the foreground, with three
\* objects of which two are alike, or with two that are opened, rewritten
\* and removed; service in the background; a database that cannot be reached, while the user
\* edits the filter of a plugin that is not installed.
Starting == [Case(Bounds(3, 1, 0, 1), {None, Sqlite, Mysql}, BOOLEAN, OneOrder)
                EXCEPT !.faults = TRUE]
Serving3 == Case(Bounds(2, 3, 0, 0), {None}, {TRUE}, TwoOrders)
Removing == [Case(Bounds(2, 2, 1, 0), {None}, {TRUE}, OneOrder)
                EXCEPT !.unlinks = TRUE, !.rewrites = TwoContents]
Background == [Case(Bounds(2, 2, 1, 0), {None}, {FALSE}, OneOrder) EXCEPT !.unlinks = TRUE]
MysqlDown == [Case(Bounds(2, 0, 0, 0), {Mysql, Sqlite}, {TRUE}, OneOrder)
                 EXCEPT !.down = {Mysql}]
Refused == [MysqlDown EXCEPT !.edits = {[section |-> <<"image", "png">>, filter |-> {"artist"}]}]
All == [starting |-> Starting, serving |-> Serving3, removing |-> Removing,
        background |-> Background, refused |-> Refused]

\* One thing each that the code does not cope with.
BackgroundOnly == [background |-> Background]
TwoStarts == Case(Bounds(2, 2, 1, 1), {None}, {TRUE}, OneOrder)
Simple == [simple |-> TwoStarts]
Killed == [killed |-> [TwoStarts EXCEPT !.unlinks = TRUE]]
FairLock == [fairlock |-> [TwoStarts EXCEPT !.fair = TRUE]]
Edited == [edited |-> [TwoStarts EXCEPT !.edits =
                          {[section |-> <<"image", "jpeg">>, filter |-> {"artist"}]}]]
Unreachable == [mysqldown |-> MysqlDown]
=============================================================================
