----------------------------- MODULE DockerBuild -----------------------------
(***************************************************************************)
(* dockerBuilder.Build of dev-tools/mage/dockerbuilder.go: clean the build *)
(* directory, copy the package files (copyFiles), expand the templates     *)
(* (prepareBuild), run docker build with up to three retries, then save    *)
(* the main tag and every additional tag as a .docker.tar.gz artifact      *)
(* (dockerSave).  Any file operation or docker command may fail.           *)
(***************************************************************************)
EXTENDS Naturals, Sequences

CONSTANTS
    Files,       \* the package spec's files: [expandSpec, skipOnMissing]
    MainTag,     \* the image's main tag
    ExtraTags,   \* b.ExtraTags, as the tags dockerBuild makes of them
    OutputFile,  \* b.OutputFile, or Empty
    Empty,
    Retries      \* the retries of docker build (tries := 3)

ASSUME /\ Files \in Seq([expandSpec: BOOLEAN, skipOnMissing: BOOLEAN])
       /\ MainTag \notin {ExtraTags[k] : k \in DOMAIN ExtraTags}
       /\ Retries \in Nat

Tags == {MainTag} \cup {ExtraTags[k] : k \in DOMAIN ExtraTags}

\* The artifact file of a tag: OutputFile if set, else the expanded name,
\* which is the image name for the main tag and the tag with ":" replaced
\* for an additional one; distinct tags give distinct names.
FileFor(t) == IF OutputFile # Empty THEN OutputFile ELSE t

ArtifactFiles == {FileFor(t) : t \in Tags}

VARIABLES
    present,    \* present[i]: the source (or spec file) of Files[i] exists
    pc,         \* where Build is
    i,          \* copyFiles' loop index
    copied,     \* the files copied into the build directory
    tries,      \* Build's tries counter
    j,          \* the loop index over the additional tags
    artifacts   \* artifacts[f]: the tag whose image file f holds, "torn", or "none"

vars == <<present, pc, i, copied, tries, j, artifacts>>

-----------------------------------------------------------------------------
\* The end of copyFiles' loop body: the next file, or prepareBuild.
NextFile == IF i = Len(Files) THEN pc' = "prepare" /\ UNCHANGED i
                              ELSE i' = i + 1 /\ UNCHANGED pc

\* The tag dockerSave is saving.
Current == IF pc = "save" THEN MainTag ELSE ExtraTags[j]

\* After a tag is saved: the first or next additional tag, or done.
NextTag ==
    LET k == IF pc = "save" THEN 1 ELSE j + 1 IN
    IF k > Len(ExtraTags) THEN pc' = "done" /\ UNCHANGED j
                          ELSE pc' = "saveExtra" /\ j' = k

-----------------------------------------------------------------------------
Init ==
    /\ present \in [DOMAIN Files -> BOOLEAN]
    /\ pc = "clean"
    /\ i = 1 /\ copied = {}
    /\ tries = Retries
    /\ j = 0
    /\ artifacts = [f \in ArtifactFiles |-> "none"]

\* os.RemoveAll(b.buildDir).
Clean ==
    /\ pc = "clean"
    /\ pc' \in {IF Files = <<>> THEN "prepare" ELSE "copy", "failed"}
    /\ UNCHANGED <<present, i, copied, tries, j, artifacts>>

\* One iteration of copyFiles.  A missing spec file returns nil from
\* copyFiles; a missing source is skipped only when skipOnMissing.
CopyFile ==
    /\ pc = "copy"
    /\ UNCHANGED <<present, tries, j, artifacts>>
    /\ LET f == Files[i] IN
       CASE f.expandSpec /\ ~present[i] ->
              pc' = "prepare" /\ UNCHANGED <<i, copied>>
         [] ~present[i] ->
              IF f.skipOnMissing THEN NextFile /\ UNCHANGED copied
                                 ELSE pc' = "failed" /\ UNCHANGED <<i, copied>>
         [] OTHER ->
              \/ pc' = "failed" /\ UNCHANGED <<i, copied>>  \* read, parse, skip fn or copy error
              \/ copied' = copied \cup {i} /\ NextFile

\* prepareBuild: expand the templates, the Dockerfile and the entrypoint.
Prepare ==
    /\ pc = "prepare"
    /\ pc' \in {"build", "failed"}
    /\ UNCHANGED <<present, i, copied, tries, j, artifacts>>

\* dockerBuild, first and in the retry loop (while err != nil && tries != 0).
DockerBuild ==
    /\ \/ pc = "build"
       \/ pc = "retry" /\ tries # 0
    /\ tries' = IF pc = "retry" THEN tries - 1 ELSE tries
    /\ pc' \in {"save", "retry"}
    /\ UNCHANGED <<present, i, copied, j, artifacts>>

\* The retries are used up: "failed to build docker".
GiveUp ==
    /\ pc = "retry" /\ tries = 0
    /\ pc' = "failed"
    /\ UNCHANGED <<present, i, copied, tries, j, artifacts>>

\* dockerSave(tag): failures before os.Create leave the file alone; a
\* failed copy or docker save leaves it torn; a failed .sha512 leaves it
\* whole.  The gzip writer's and file's deferred Close errors are dropped,
\* so a failed final flush leaves a torn file and Build goes on.
Save ==
    /\ pc \in {"save", "saveExtra"}
    /\ UNCHANGED <<present, i, copied, tries>>
    /\ LET f == FileFor(Current) IN
       \/ pc' = "failed" /\ UNCHANGED <<j, artifacts>>
       \/ pc' = "failed" /\ artifacts' = [artifacts EXCEPT ![f] = "torn"] /\ UNCHANGED j
       \/ pc' = "failed" /\ artifacts' = [artifacts EXCEPT ![f] = Current] /\ UNCHANGED j
       \/ artifacts' = [artifacts EXCEPT ![f] = Current] /\ NextTag
       \/ artifacts' = [artifacts EXCEPT ![f] = "torn"] /\ NextTag

Next == Clean \/ CopyFile \/ Prepare \/ DockerBuild \/ GiveUp \/ Save

Spec == Init /\ [][Next]_vars

-----------------------------------------------------------------------------
TypeOK ==
    /\ present \in [DOMAIN Files -> BOOLEAN]
    /\ pc \in {"clean", "copy", "prepare", "build", "retry", "save",
               "saveExtra", "done", "failed"}
    /\ copied \subseteq DOMAIN Files
    /\ tries \in 0..Retries
    /\ artifacts \in [ArtifactFiles -> Tags \cup {"torn", "none"}]

\* A successful Build leaves a whole artifact for every tag.
ArtifactsComplete ==
    pc = "done" => \A t \in Tags : artifacts[FileFor(t)] = t

\* Once copyFiles finished, every package file whose source exists is in
\* the build directory.
AllFilesCopied ==
    pc \in {"build", "retry", "save", "saveExtra", "done"} =>
        \A k \in DOMAIN Files : present[k] => k \in copied

=============================================================================
