-------------------------------- MODULE Perms --------------------------------
(***************************************************************************)
(* FixPermissions of internal/pkg/agent/perms/windows.go: the POSIX-style  *)
(* mask of the options is turned into the ACL grants of SYSTEM,            *)
(* Administrators, the owning user and group and Everyone, and             *)
(* filepath.WalkDir then applies them (acl.Apply) to every entry under     *)
(* topPath and, when running as Administrator, sets the owner              *)
(* (acl.TakeOwnership).  Entries may be removed by someone else while the  *)
(* walk runs.                                                              *)
(*                                                                         *)
(* An access mask is a number; the bits are those of the Windows           *)
(* ACCESS_MASK.  The SIDs are names: a well-known one, or the SID the      *)
(* ownership option's UID or GID string converts to.                       *)
(***************************************************************************)
EXTENDS Naturals, Sequences, Bitwise

CONSTANTS
    Masks,   \* the masks of the options, 0 .. 8^3 - 1
    Paths,   \* the entries of the tree under topPath
    Top,     \* topPath
    Dirs,    \* the entries that are directories
    Kids     \* Kids[d]: the entries of directory d, in lexical order

ASSUME Top \in Paths /\ Dirs \subseteq Paths /\ Masks \subseteq 0 .. 511

\* The entries of the subtree at p.
RECURSIVE Subtree(_)
Subtree(p) ==
    {p} \cup IF p \in Dirs
             THEN UNION {Subtree(Kids[p][i]) : i \in DOMAIN Kids[p]}
             ELSE {}

-----------------------------------------------------------------------------
\* A uint32 access mask is the set of its bit positions: x << k adds k to
\* each, | is the union, and uint32(...) keeps the positions below 32.
Bits(n) == {i \in 0 .. 9 : (n \div 2^i) % 2 = 1}

Shl(n, k) == {i + k : i \in Bits(n)}

Uint32(b) == b \cap 0 .. 31

\* The grants, as FixPermissions computes them: o.mask&0700 shifted left by
\* 23, with the write bit (0200) shifted by 9, and so on for the group and
\* Everyone; SYSTEM and Administrators get 0xF10F0000.
FullControl == {16, 17, 18, 19, 24, 28, 29, 30, 31}

UserRights(mask) == Uint32(Shl(mask & 448, 23) \cup Shl(mask & 128, 9))

GroupRights(mask) == Uint32(Shl(mask & 56, 26) \cup Shl(mask & 16, 12))

EveryoneRights(mask) == Uint32(Shl(mask & 7, 29) \cup Shl(mask & 2, 15))

\* The user gets a grant, and owns the files, only when the mask gives the
\* user any bit and a UID is set; else Administrators own them.  Likewise
\* for the group.
UserGranted(mask, uid) == mask & 448 # 0 /\ uid

GroupGranted(mask, gid) == mask & 56 # 0 /\ gid

Grants(mask, uid, gid) ==
    <<[sid |-> "system", rights |-> FullControl],
      [sid |-> "admins", rights |-> FullControl]>>
    \o (IF UserGranted(mask, uid)
        THEN <<[sid |-> "user", rights |-> UserRights(mask)]>> ELSE <<>>)
    \o (IF GroupGranted(mask, gid)
        THEN <<[sid |-> "group", rights |-> GroupRights(mask)]>> ELSE <<>>)
    \o (IF mask & 7 # 0
        THEN <<[sid |-> "everyone", rights |-> EveryoneRights(mask)]>> ELSE <<>>)

\* The owner and group TakeOwnership sets.
Owners(mask, uid, gid) ==
    <<IF UserGranted(mask, uid) THEN "user" ELSE "admins",
      IF GroupGranted(mask, gid) THEN "group" ELSE "admins">>

\* Plausible bug: every error the WalkDirFunc is given is skipped.
WalkErrSkipAll(err) == "skip"

\* The WalkDirFunc's answer to the error of an entry: fs.ErrNotExist is
\* skipped, any other error ends the walk.
WalkErr(err) == IF err = "notExist" THEN "skip" ELSE "fail"

-----------------------------------------------------------------------------
VARIABLES
    mask, uid, gid,  \* o.mask, and whether o.ownership.UID / GID are set
    admin,           \* utils.HasRoot()
    grants,          \* the grants FixPermissions computed
    stack,           \* WalkDir's pending work, the next first
    present,         \* the entries that still exist
    acl,             \* acl[p]: what Apply last set on p, or OldAcl
    owner,           \* owner[p]: what TakeOwnership set on p, or OldOwner
    phase

vars == <<mask, uid, gid, admin, grants, stack, present, acl, owner, phase>>

\* What an entry had before the walk: no grants of FixPermissions, and the
\* owner and group it was created with.
OldAcl == [grants |-> <<>>, inherit |-> TRUE]
OldOwner == <<"old", "old">>

Init ==
    /\ mask \in Masks /\ uid \in BOOLEAN /\ gid \in BOOLEAN /\ admin \in BOOLEAN
    /\ grants = <<>> /\ stack = <<>>
    /\ present = Paths
    /\ acl = [p \in Paths |-> OldAcl] /\ owner = [p \in Paths |-> OldOwner]
    /\ phase = "start"

\* newOpts, the SIDs and the grants, HasRoot: converting the UID or GID
\* string to a SID, or HasRoot, may fail.  WalkDir starts with os.Lstat of
\* topPath.
Start ==
    /\ phase = "start"
    /\ UNCHANGED <<mask, uid, gid, admin, present, acl, owner>>
    /\ \/ phase' = "failed" /\ UNCHANGED <<grants, stack>>
       \/ /\ grants' = Grants(mask, uid, gid)
          /\ stack' = <<[op |-> "lstat", path |-> Top]>>
          /\ phase' = "walk"

\* The walk ends: WalkDir, and FixPermissions, return nil.
Done ==
    /\ phase = "walk" /\ stack = <<>>
    /\ phase' = "done"
    /\ UNCHANGED <<mask, uid, gid, admin, grants, stack, present, acl, owner>>

\* The error of an entry, given to the WalkDirFunc: a skipped one moves on.
OnErr(err) ==
    IF WalkErr(err) = "skip" THEN stack' = Tail(stack) /\ UNCHANGED phase
    ELSE phase' = "failed" /\ UNCHANGED stack

\* os.Lstat(topPath): its error goes to the WalkDirFunc with a nil entry.
Lstat(p) ==
    /\ UNCHANGED <<acl, owner>>
    /\ \/ p \notin present /\ OnErr("notExist")
       \/ OnErr("other")
       \/ p \in present /\ stack' = <<[op |-> "visit", path |-> p]>> \o Tail(stack)
          /\ UNCHANGED phase

\* The WalkDirFunc on entry p without an error: acl.Apply(name, true,
\* topPath != name, grants...) and, as Administrator, acl.TakeOwnership
\* (userSID and groupSID are never nil); either fails on an entry removed
\* since its directory was read, and its error is returned.  A
\* directory's entries are read next.
Visit(p) ==
    LET applied == [acl EXCEPT ![p] = [grants |-> grants, inherit |-> p # Top]]
        next == IF p \in Dirs THEN <<[op |-> "read", path |-> p]>> ELSE <<>>
    IN  \/ phase' = "failed" /\ UNCHANGED <<stack, acl, owner>>
        \/ /\ p \in present /\ acl' = applied
           /\ \/ admin /\ phase' = "failed" /\ UNCHANGED <<stack, owner>>
              \/ /\ owner' = IF admin THEN [owner EXCEPT ![p] = Owners(mask, uid, gid)]
                                      ELSE owner
                 /\ stack' = next \o Tail(stack)
                 /\ UNCHANGED phase

\* os.ReadDir of directory p; its error goes to the WalkDirFunc a second
\* time, and when that returns nil the walk goes on without p's entries.
ReadDir(p) ==
    LET kids == SelectSeq(Kids[p], LAMBDA q : q \in present) IN
    /\ UNCHANGED <<acl, owner>>
    /\ \/ p \notin present /\ OnErr("notExist")
       \/ p \in present /\ OnErr("other")
       \/ /\ p \in present /\ UNCHANGED phase
          /\ stack' = [i \in DOMAIN kids |-> [op |-> "visit", path |-> kids[i]]]
                      \o Tail(stack)

\* One step of filepath.WalkDir (the branch as Administrator runs it under
\* winio.RunWithPrivileges; the other branch is the same walk without
\* TakeOwnership).
Walk ==
    /\ phase = "walk" /\ stack # <<>>
    /\ UNCHANGED <<mask, uid, gid, admin, grants, present>>
    /\ LET e == Head(stack) IN
       CASE e.op = "lstat" -> Lstat(e.path)
         [] e.op = "visit" -> Visit(e.path)
         [] e.op = "read"  -> ReadDir(e.path)

\* Someone else removes an entry, and everything under it, during the walk.
Remove ==
    /\ phase = "walk"
    /\ \E q \in present : present' = present \ Subtree(q)
    /\ UNCHANGED <<mask, uid, gid, admin, grants, stack, acl, owner, phase>>

Next == Start \/ Walk \/ Done \/ Remove

Spec == Init /\ [][Next]_vars

-----------------------------------------------------------------------------
\* When FixPermissions returns nil, every entry still under topPath has the
\* grants, topPath without and everything below it with inheritance, and
\* as Administrator the owner: whatever was removed during the walk, and
\* whichever errors the WalkDirFunc skipped.
WalkAppliesAll ==
    phase = "done" =>
        \A p \in present :
            /\ acl[p] = [grants |-> grants, inherit |-> p # Top]
            /\ admin => owner[p] = Owners(mask, uid, gid)

=============================================================================
