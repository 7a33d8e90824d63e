------------------------------- MODULE Archive -------------------------------
(***************************************************************************)
(* Extract of dev-tools/mage/common.go: a .tar.gz/.tgz archive goes to     *)
(* untar, a .zip to unzip.  Both walk the entries in order; each entry's   *)
(* path is filepath.Join(destinationDir, name), rejected unless it has     *)
(* destinationDir as a string prefix, and then created on the disk:        *)
(* directories with os.MkdirAll, files with os.Create / os.OpenFile and    *)
(* io.Copy, symlinks (tar only) with os.Symlink.  The operating system     *)
(* follows the symlinks already on the disk when it opens a path.          *)
(*                                                                         *)
(* A path is a sequence of names; its string is the names joined by "/".  *)
(* Disk paths are relative to the working directory, <<>>; a leading ".." *)
(* is above it.                                                            *)
(***************************************************************************)
EXTENDS Naturals, Sequences, SequencesExt, TLC

CONSTANTS
    Dests,           \* the destinationDir arguments, as sequences of names
    Names,           \* the entry names (header.Name, f.Name)
    Targets,         \* the symlink targets (header.Linkname)
    NamePrefixPairs, \* <<x, y>>: the name x is a proper string prefix of y
    MaxEntries

ASSUME \A t \in Targets : \A i \in DOMAIN t : t[i] = ".."  \* existing directories

Formats == {"tar", "zip", "other"}   \* by the file's extension

\* The entries an archive can hold: unzip tells only directories from files;
\* a tar header may also be a symlink or another type (a hard link, a
\* device...).
Entries(f) ==
    [type : {"dir", "reg"}, name : Names]
    \cup IF f = "tar" THEN [type : {"symlink"}, name : Names, link : Targets]
                           \cup [type : {"other"}, name : Names]
                      ELSE {}

-----------------------------------------------------------------------------
\* filepath.Clean of a relative path: drop "" and ".", and let ".." remove
\* the name before it unless that is a ".." too.
CleanStep(acc, c) ==
    CASE c \in {"", "."} -> acc
      [] c = ".." /\ acc # <<>> /\ Last(acc) # ".." -> Front(acc)
      [] OTHER -> Append(acc, c)

Clean(p) == FoldLeft(CleanStep, <<>>, p)

\* filepath.Join(dir, name).
Join(dir, name) == Clean(dir \o name)

\* strings.HasPrefix(path, dir) on the joined strings; Clean turns an empty
\* path into ".".
NamePrefix(x, y) == x = y \/ x = "" \/ <<x, y>> \in NamePrefixPairs

HasPrefix(path, dir) ==
    LET s == IF path = <<>> THEN <<".">> ELSE path IN
    /\ Len(dir) <= Len(s)
    /\ \A i \in 1..Len(dir) - 1 : s[i] = dir[i]
    /\ Len(dir) > 0 => NamePrefix(dir[Len(dir)], s[Len(dir)])

-----------------------------------------------------------------------------
VARIABLES
    format,   \* the archive's format, from sourceFile's extension
    dest,     \* destinationDir
    archive,  \* the archive's entries, in order
    k,        \* the loop index over the entries
    fs,       \* fs[p]: the directory, file or symlink at disk path p
    written,  \* the disk paths the extraction created or truncated
    pc

vars == <<format, dest, archive, k, fs, written, pc>>

Dir == [kind |-> "dir"]
File == [kind |-> "file"]

\* The working directory and those above it exist.
IsDir(p) == (\A i \in DOMAIN p : p[i] = "..") \/ (p \in DOMAIN fs /\ fs[p].kind = "dir")

Exists(p) == IsDir(p) \/ p \in DOMAIN fs

\* The disk path the operating system opens for path: every symlink on the
\* way, the last name's included, is replaced by its target.
RECURSIVE Walk(_, _)
Walk(done, rest) ==
    IF rest = <<>> THEN done
    ELSE LET next == Clean(Append(done, Head(rest))) IN
         IF next \in DOMAIN fs /\ fs[next].kind = "symlink"
         THEN Walk(<<>>, Clean(Front(next) \o fs[next].link) \o Tail(rest))
         ELSE Walk(next, Tail(rest))

Resolve(p) == Walk(<<>>, p)

\* os.MkdirAll(p) fails with ENOTDIR when a file is in the way; else it
\* creates the missing directories.
MkdirAllOk(p) == \A q \in Prefixes(Resolve(p)) : Exists(q) => IsDir(q)

Missing(p) == {q \in Prefixes(Resolve(p)) : ~Exists(q)}

-----------------------------------------------------------------------------
Init ==
    /\ format \in Formats
    /\ dest \in Dests
    /\ archive \in BoundedSeq(Entries(format), MaxEntries)
    /\ k = 1
    /\ fs = [p \in {} |-> Dir]
    /\ written = {}
    /\ pc = "open"

\* Any error ends Extract.
Fail == pc' = "failed" /\ UNCHANGED <<k, fs, written>>

\* The entry is done; on to the next.
NextEntry(newFs, newWritten) ==
    /\ fs' = newFs /\ written' = newWritten
    /\ k' = k + 1 /\ UNCHANGED pc

\* os.MkdirAll(path, mode) for a directory entry.
MakeDir(path) ==
    IF ~MkdirAllOk(path) THEN Fail
    ELSE \/ Fail
         \/ NextEntry(fs @@ [q \in Missing(path) |-> Dir], written \cup Missing(path))

\* os.MkdirAll(filepath.Dir(path)), then os.Create (untar) or os.OpenFile
\* with O_CREATE|O_TRUNC (unzip), which fails on a directory; io.Copy,
\* os.Chmod and Close may fail after the file was created.
WriteFile(path) ==
    LET r == Resolve(path)
        newFs == (r :> File) @@ fs @@ [q \in Missing(Front(path)) |-> Dir]
        newWritten == written \cup Missing(Front(path)) \cup {r}
    IN  IF ~MkdirAllOk(Front(path)) \/ IsDir(r) THEN Fail
        ELSE \/ Fail
             \/ fs' = newFs /\ written' = newWritten /\ pc' = "failed" /\ UNCHANGED k
             \/ NextEntry(newFs, newWritten)

\* os.MkdirAll(filepath.Dir(path)), then os.Symlink(link, path), which fails
\* when something is at path already.
MakeSymlink(link, path) ==
    LET q == Clean(Append(Resolve(Front(path)), Last(path))) IN
    IF path = <<>> \/ ~MkdirAllOk(Front(path)) \/ Exists(q) THEN Fail
    ELSE \/ Fail
         \/ NextEntry((q :> [kind |-> "symlink", link |-> link])
                         @@ fs @@ [p \in Missing(Front(path)) |-> Dir],
                       written \cup Missing(Front(path)) \cup {q})

-----------------------------------------------------------------------------
\* Extract picks untar or unzip by the extension, or fails.  untar opens the
\* file and its gzip reader; unzip opens the zip reader and creates
\* destinationDir.
Open ==
    /\ pc = "open"
    /\ UNCHANGED <<format, dest, archive, k>>
    /\ \/ format = "other" /\ Fail
       \/ format \in {"tar", "zip"} /\ Fail
       \/ format = "tar" /\ pc' = "untar" /\ UNCHANGED <<fs, written>>
       \/ /\ format = "zip" /\ MkdirAllOk(Clean(dest))
          /\ fs' = fs @@ [q \in Missing(Clean(dest)) |-> Dir]
          /\ written' = written \cup Missing(Clean(dest))
          /\ pc' = "unzip"

\* One turn of untar's loop: tarReader.Next() ends it at io.EOF or fails;
\* the joined path must have destinationDir as a prefix; then the header's
\* type decides.
Untar ==
    /\ pc = "untar"
    /\ UNCHANGED <<format, dest, archive>>
    /\ IF k > Len(archive)
       THEN pc' = "done" /\ UNCHANGED <<k, fs, written>>
       ELSE LET e == archive[k]
                path == Join(dest, e.name)
            IN \/ Fail
               \/ ~HasPrefix(path, dest) /\ Fail
               \/ /\ HasPrefix(path, dest)
                  /\ CASE e.type = "dir"     -> MakeDir(path)
                       [] e.type = "reg"     -> WriteFile(path)
                       [] e.type = "symlink" -> MakeSymlink(e.link, path)
                       [] OTHER              -> Fail

\* One turn of unzip's loop, extractAndWriteFile(f): f.Open may fail; the
\* joined path must have destinationDir as a prefix; a directory entry is
\* made with MkdirAll, any other entry written as a file.
Unzip ==
    /\ pc = "unzip"
    /\ UNCHANGED <<format, dest, archive>>
    /\ IF k > Len(archive)
       THEN pc' = "done" /\ UNCHANGED <<k, fs, written>>
       ELSE LET e == archive[k]
                path == Join(dest, e.name)
            IN \/ Fail
               \/ ~HasPrefix(path, dest) /\ Fail
               \/ /\ HasPrefix(path, dest)
                  /\ IF e.type = "dir" THEN MakeDir(path) ELSE WriteFile(path)

Next == Open \/ Untar \/ Unzip

Spec == Init /\ [][Next]_vars

-----------------------------------------------------------------------------
\* Extraction never creates or overwrites anything outside destinationDir:
\* the "illegal file path" check of unzip and untar rejects every entry
\* that would land elsewhere, whatever the entries before it put on disk.
EntriesStayInside == \A p \in written : IsPrefix(Clean(dest), p)

====
