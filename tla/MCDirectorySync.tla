--------------------------- MODULE MCDirectorySync ---------------------------
EXTENDS DirectorySync

\* Recovery removes entries: the contents are numbered by what they hold.
MCContents == 0 .. 2
MCTwo == 0 .. 1
MCRepairs == [c \in MCContents |-> 0 .. c]
MCTwoRepairs == [c \in MCTwo |-> 0 .. c]
=============================================================================
