------------------------------ MODULE OpenFiles ------------------------------
(***************************************************************************)
(* What open(), read(), write() and flush() promise an application,        *)
(* whatever becomes of the descriptors of the daemon: a handle stands for  *)
(* the file it was opened on, from open() to the last close().             *)
(***************************************************************************)
CONSTANTS
    Handles,   \* open files of the applications
    Files,     \* files under archive/
    Special,   \* what is behind stats/ files and .tags lists: no user's file
    Foreign,   \* files of the daemon itself: its database
    NoFile,    \* a handle that is not open
    Values, Empty   \* what a file can hold, and what it holds at first

VARIABLES
    opened,    \* [Handles -> the file a handle was opened on]
    content,   \* [file -> Values]
    reply      \* [Handles -> what its last read(), or checksum, saw while it is open]

Init == /\ opened = [h \in Handles |-> NoFile]
        /\ content = [f \in Files \cup {Special, Foreign} |-> Empty]
        /\ reply = [h \in Handles |-> Empty]

Open(h, f) == /\ opened[h] = NoFile
              /\ opened' = [opened EXCEPT ![h] = f]
              /\ UNCHANGED <<content, reply>>

Read(h) == /\ opened[h] \in Files
           /\ reply' = [reply EXCEPT ![h] = content[opened[h]]]
           /\ UNCHANGED <<opened, content>>

Write(h, v) == /\ opened[h] \in Files
               /\ content' = [content EXCEPT ![opened[h]] = v]
               /\ UNCHANGED <<opened, reply>>

Close(h) == /\ opened' = [opened EXCEPT ![h] = NoFile]
            /\ reply' = [reply EXCEPT ![h] = Empty]
            /\ UNCHANGED content

Next == \E h \in Handles :
            \/ \E f \in Files \cup {Special} : Open(h, f)
            \/ Read(h) \/ Close(h)
            \/ \E v \in Values : Write(h, v)

Spec == Init /\ [][Next]_<<opened, content, reply>>
=============================================================================
