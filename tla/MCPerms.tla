------------------------------- MODULE MCPerms -------------------------------
EXTENDS Perms

\* Every mask, and a tree with a file at the top, a directory below it
\* holding a file, and a directory below that: an entry can vanish before
\* or after its directory is read, or while it waits for its Apply.
MCMasks == 0 .. 511
MCPaths == {"top", "top/a", "top/a/f", "top/b"}
MCDirs == {"top", "top/a"}
MCKids == [d \in MCDirs |-> IF d = "top" THEN <<"top/a", "top/b">> ELSE <<"top/a/f">>]
=============================================================================
