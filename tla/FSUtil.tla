------------------------------- MODULE FSUtil -------------------------------
(***************************************************************************)
(* FSUtil (src/common/src/utils.cpp): what its functions do to a file      *)
(* system that other threads and processes use at the same time through    *)
(* the same functions.  They keep no state and take no locks, so every     *)
(* system call is a step, and what one of them found out may not be true   *)
(* any more at the next.                                                   *)
(*                                                                         *)
(* A path is absolute and a sequence of names; a place is a path that goes *)
(* through no link.  The system calls are external: they are modelled      *)
(* after POSIX, with directories that fit into one buffer of readdir,      *)
(* which is filled when the directory is opened.  Guarded directories are  *)
(* those in which nothing may be created or removed.  OpenForWrite opens   *)
(* to append.  Trailing slashes and two slashes in a row are left out.     *)
(***************************************************************************)
EXTENDS Integers, SequencesExt

CONSTANTS Names,            \* the names that entries of directories may have
          Callers,          \* the threads that call FSUtil
          Calls,            \* what they call: records [op, path, arg], see Call
          Trees,            \* the file systems to begin with
          Guarded,          \* places of directories that cannot be changed
          MaxCalls,         \* bound: how many calls there are in all
          MaxLinks,         \* how many links the system follows
          Nowhere           \* no place

VARIABLES
    tree,       \* what is at every place: a directory, a file with its data, a link, a socket
    calls,      \* the stack of calls of every caller
    made,       \* calls so far
    \* What the last call of every caller returned: {} before it has.
    result, files,
    \* History of that call, read by the properties.
    call, hist

vars == <<tree, calls, made, result, files, call, hist>>

Dir == [kind |-> "dir"]
Link(p) == [kind |-> "link", to |-> p]
Socket == [kind |-> "socket"]
File(d) == [kind |-> "file", data |-> d]
NewFile == File(0)

Paths == Seq(Names)
IsNode(node) == \/ node \in {Dir, Socket} \/ node.kind = "file"
                \/ node.kind = "link" /\ node = Link(node.to) /\ node.to \in Paths

\* Whatever there is, is in a directory, but for the directory at the root.
IsFileSystem(t) ==
    /\ DOMAIN t \subseteq Paths /\ t = [q \in DOMAIN t |-> t[q]]
    /\ <<>> \in DOMAIN t /\ t[<<>>] = Dir
    /\ \A q \in DOMAIN t : IsNode(t[q]) /\ (q # <<>> => Front(q) \in DOMAIN t /\ t[Front(q)] = Dir)

ASSUME FSAssumption ==
    /\ MaxCalls \in Nat /\ MaxLinks \in Nat
    /\ Nowhere \notin Paths
    /\ \A t \in Trees : IsFileSystem(t)
    /\ \A k \in Calls :
          /\ k.op \in {"Mkdir", "Unlink", "Rm", "Mv", "Symlink", "OpenForWrite", "ListAllFile"}
          /\ k.path \in Paths /\ (k.op \in {"Mv", "Symlink"} => k.arg \in Paths)

-----------------------------------------------------------------------------
(***************************************************************************)
(* The file system.                                                        *)
(***************************************************************************)
Is(t, q, kind) == q \in DOMAIN t /\ t[q].kind = kind

\* The place that the name x in the directory d leads to, where links says what a link's path
\* leads to.
Enter(t, d, x, links) ==
    LET q == Append(d, x)
    IN  IF ~Is(t, d, "dir") THEN Nowhere
        ELSE IF Is(t, q, "link") THEN links[t[q].to] ELSE q

\* The place that p leads to, name by name.
Walk(t, p, links) ==
    LET walked[i \in 0..Len(p)] == IF i = 0 THEN <<>> ELSE Enter(t, walked[i - 1], p[i], links)
    IN  walked[Len(p)]

NoLinks == [p \in Paths |-> Nowhere]

\* The place that p leads to, with at most n links within each other, and the place that its
\* last name is looked up at.
Target(t, p, n) ==
    LET leads[i \in 0..n] == [s \in Paths |-> Walk(t, s, IF i = 0 THEN NoLinks ELSE leads[i - 1])]
    IN  leads[n][p]
Place(t, p, n) ==
    LET d == Target(t, Front(p), n)
    IN  IF p = <<>> THEN p ELSE IF Is(t, d, "dir") THEN Append(d, Last(p)) ELSE Nowhere

At(p) == Place(tree, p, MaxLinks)
End(p) == Target(tree, p, MaxLinks)

Under(q, r) == Nowhere \notin {q, r} /\ IsPrefix(q, r)
Below(t, q) == {r \in DOMAIN t : Under(q, r)}
Entries(t, q) == {[name |-> Last(r), kind |-> t[r].kind] :
                     r \in {r \in Below(t, q) : Len(r) = Len(q) + 1}}

\* The directory of q lets its entries change.
Writable(q) == q \notin {Nowhere, <<>>} /\ Front(q) \notin Guarded

With(q, node) == [r \in DOMAIN tree \cup {q} |-> IF r = q THEN node ELSE tree[r]]
Without(t, gone) == [r \in DOMAIN t \ gone |-> t[r]]
Moved(r, f, q) == q \o SubSeq(r, Len(f) + 1, Len(r))

\* What was below f is below q, and whatever was at q is gone.
Renamed(f, q) ==
    [r \in {r \in DOMAIN tree : ~IsPrefix(f, r) /\ ~IsPrefix(q, r)}
              \cup {Moved(r, f, q) : r \in Below(tree, f)} |->
        IF IsPrefix(q, r) THEN tree[Moved(r, q, f)] ELSE tree[r]]

\* rename accepts what is at q: nothing, a file for a file, an empty directory for a directory.
Replaces(f, q) ==
    q \in DOMAIN tree =>
        IF tree[f] = Dir THEN Below(tree, q) = {q} /\ tree[q] = Dir ELSE tree[q] # Dir

CanMkdir(q) == Writable(q) /\ q \notin DOMAIN tree
CanUnlink(q) == Writable(q) /\ q \in DOMAIN tree /\ tree[q] # Dir
CanRmdir(q) == Writable(q) /\ Is(tree, q, "dir") /\ Below(tree, q) = {q}
CanRename(f, q) == /\ f \in DOMAIN tree /\ Writable(f) /\ Writable(q)
                   /\ f # q => ~IsPrefix(f, q) /\ Replaces(f, q)
CanOpen(q) == Is(tree, q, "file") \/ CanMkdir(q)

\* The regular files below what p leads to, by paths that begin with p.
Listing(t, p) ==
    LET q == Target(t, p, MaxLinks)
    IN  IF Is(t, q, "dir") THEN {Moved(r, q, p) : r \in {r \in Below(t, q) : Is(t, r, "file")}}
        ELSE {}

\* A step of c makes the tree t; every caller's history notices.  The path that Mv was given may
\* lead through what it moves, and nowhere afterwards.
SetTree(c, t) ==
    /\ tree' = t
    /\ hist' = [x \in Callers |->
          LET p == call[x].path
              there == Place(t, p, MaxLinks) \in DOMAIN t
              list == IF call[x].op = "ListAllFile" THEN Listing(t, p) ELSE {}
              mvs == x = c /\ call[x].op = "Mv" /\ Place(tree, p, MaxLinks) \in DOMAIN t
              links == {q \in DOMAIN t : Is(t, q, "link") /\ (q \in DOMAIN tree => tree[q] # t[q])}
          IN  IF result[x] # {} THEN [hist[x] EXCEPT !.alone = FALSE]
              ELSE [hist[x] EXCEPT !.alone = @ /\ x = c,
                                   !.linked = @ \/ (x # c /\ links # {}),
                                   !.met = @ \/ there \/ mvs,
                                   !.missed = @ \/ ~there,
                                   !.ever = @ \cup list,
                                   !.stable = @ \cap list]]

Init ==
    /\ tree \in Trees
    /\ calls = [c \in Callers |-> <<>>]
    /\ made = 0
    /\ result = [c \in Callers |-> {}]
    /\ files = [c \in Callers |-> {}]
    /\ call = [c \in Callers |-> [op |-> "none", path |-> <<>>, arg |-> <<>>]]
    /\ hist = [c \in Callers |-> [before |-> tree, alone |-> FALSE, linked |-> TRUE,
                                  met |-> TRUE, missed |-> TRUE, ever |-> {}, stable |-> {}]]
-----------------------------------------------------------------------------
(***************************************************************************)
(* The stack of a caller.                                                  *)
(***************************************************************************)
Frame(op, pc, p) == [op |-> op, pc |-> pc, path |-> p, todo |-> {}, i |-> 1, ret |-> TRUE]

Top(c) == Last(calls[c])
In(c, op, pc) == calls[c] # <<>> /\ Top(c).op = op /\ Top(c).pc = pc
Goes(c, frame) == calls' = [calls EXCEPT ![c] = Append(Front(@), frame)] /\ UNCHANGED result
Pushes(c, frame, callee) ==
    calls' = [calls EXCEPT ![c] = Front(@) \o <<frame, callee>>] /\ UNCHANGED result

\* What is returned goes to the function below, in place of what was returned to it before.
Return(c, r) ==
    LET below == Front(calls[c])
    IN  /\ calls' = [calls EXCEPT ![c] =
              IF below = <<>> THEN <<>> ELSE [below EXCEPT ![Len(below)].ret = r]]
        /\ result' = [result EXCEPT ![c] = IF below = <<>> THEN {r} ELSE {}]

\* With arg: what Mv moves and what Symlink's link contains; whether Unlink is told that the
\* file exists; the names with the suffix that ListAllFile looks for.
Call(c, k) ==
    /\ calls[c] = <<>> /\ made < MaxCalls
    /\ made' = made + 1
    /\ call' = [call EXCEPT ![c] = k]
    /\ calls' = [calls EXCEPT ![c] =
          CASE k.op \in {"Mv", "Symlink"} -> <<Frame(k.op, "link", k.path), Frame("Rm", "lstat", k.path)>>
            [] k.op = "Unlink" /\ k.arg -> <<Frame("Unlink", "unlink", k.path)>>
            [] k.op = "OpenForWrite" -> <<Frame(k.op, "open", k.path)>>
            [] k.op = "ListAllFile" -> <<Frame(k.op, "access", k.path)>>
            [] OTHER -> <<Frame(k.op, "lstat", k.path)>>]
    /\ result' = [result EXCEPT ![c] = {}]
    /\ files' = [files EXCEPT ![c] = {}]
    /\ LET there == At(k.path) \in DOMAIN tree
           list == IF k.op = "ListAllFile" THEN Listing(tree, k.path) ELSE {}
       IN  hist' = [hist EXCEPT ![c] = [before |-> tree, alone |-> TRUE, linked |-> FALSE,
                                        met |-> there, missed |-> ~there,
                                        ever |-> list, stable |-> list]]
    /\ UNCHANGED tree
-----------------------------------------------------------------------------
(***************************************************************************)
(* Mkdir.                                                                  *)
(***************************************************************************)
\* Anything there will do, also a file.
MkdirLstat(c) ==
    /\ In(c, "Mkdir", "lstat")
    /\ IF At(Top(c).path) \in DOMAIN tree THEN Return(c, TRUE)
                                          ELSE Goes(c, [Top(c) EXCEPT !.pc = "access"])
    /\ UNCHANGED <<tree, made, files, call, hist>>

Prefix(c) == SubSeq(Top(c).path, 1, Top(c).i)
NextPrefix(c) == IF Top(c).i = Len(Top(c).path) THEN Return(c, TRUE)
                 ELSE Goes(c, [Top(c) EXCEPT !.pc = "access", !.i = @ + 1])

MkdirAccess(c) ==
    /\ In(c, "Mkdir", "access")
    /\ IF End(Prefix(c)) \in DOMAIN tree THEN NextPrefix(c)
                                         ELSE Goes(c, [Top(c) EXCEPT !.pc = "mkdir"])
    /\ UNCHANGED <<tree, made, files, call, hist>>

\* Mutant: a mkdir that fails does not end the loop.
MkdirMkdir_GoesOn(c) ==
    /\ In(c, "Mkdir", "mkdir")
    /\ NextPrefix(c)
    /\ LET q == At(Prefix(c))
       IN  IF CanMkdir(q) THEN SetTree(c, With(q, Dir)) ELSE UNCHANGED <<tree, hist>>
    /\ UNCHANGED <<made, files, call>>

MkdirMkdir(c) ==
    /\ In(c, "Mkdir", "mkdir")
    /\ LET q == At(Prefix(c))
       IN  \/ CanMkdir(q) /\ SetTree(c, With(q, Dir)) /\ NextPrefix(c)
           \/ ~CanMkdir(q) /\ Return(c, FALSE) /\ UNCHANGED <<tree, hist>>
    /\ UNCHANGED <<made, files, call>>
-----------------------------------------------------------------------------
(***************************************************************************)
(* Unlink and Rm.                                                          *)
(***************************************************************************)
UnlinkLstat(c) ==
    /\ In(c, "Unlink", "lstat")
    /\ IF At(Top(c).path) \in DOMAIN tree THEN Goes(c, [Top(c) EXCEPT !.pc = "unlink"])
                                          ELSE Return(c, TRUE)
    /\ UNCHANGED <<tree, made, files, call, hist>>

UnlinkUnlink(c) ==
    /\ In(c, "Unlink", "unlink")
    /\ LET q == At(Top(c).path)
       IN  \/ CanUnlink(q) /\ SetTree(c, Without(tree, {q})) /\ Return(c, TRUE)
           \/ ~CanUnlink(q) /\ Return(c, FALSE) /\ UNCHANGED <<tree, hist>>
    /\ UNCHANGED <<made, files, call>>

\* Mutant: stat in place of lstat.
RmLstat_Follows(c) ==
    /\ In(c, "Rm", "lstat")
    /\ LET p == Top(c).path
       IN  IF End(p) \notin DOMAIN tree THEN Return(c, TRUE)
           ELSE IF tree[End(p)] = Dir THEN Goes(c, [Top(c) EXCEPT !.pc = "opendir"])
           ELSE Goes(c, Frame("Unlink", "lstat", p))
    /\ UNCHANGED <<tree, made, files, call, hist>>

\* st_mode & S_IFDIR: the type is not a mask, and that of a socket has this bit as well.
HasDirBit(q) == tree[q] \in {Dir, Socket}

RmLstat(c) ==
    /\ In(c, "Rm", "lstat")
    /\ LET p == Top(c).path
       IN  IF At(p) \notin DOMAIN tree THEN Return(c, TRUE)
           ELSE IF HasDirBit(At(p)) THEN Goes(c, [Top(c) EXCEPT !.pc = "opendir"])
           ELSE Goes(c, Frame("Unlink", "lstat", p))
    /\ UNCHANGED <<tree, made, files, call, hist>>

\* opendir follows a link, if there is one by now.
RmOpendir(c) ==
    /\ In(c, "Rm", "opendir")
    /\ LET d == End(Top(c).path)
       IN  IF Is(tree, d, "dir") THEN Goes(c, [Top(c) EXCEPT !.pc = "readdir", !.todo = Entries(tree, d)])
                                 ELSE Return(c, FALSE)
    /\ UNCHANGED <<tree, made, files, call, hist>>

\* Entries come in any order.
RmReaddir(c) ==
    /\ In(c, "Rm", "readdir")
    /\ \E e \in Top(c).todo :
          Pushes(c, [Top(c) EXCEPT !.todo = @ \ {e}], Frame("Rm", "lstat", Append(Top(c).path, e.name)))
    /\ UNCHANGED <<tree, made, files, call, hist>>

\* Mutant: the result of rmdir is not looked at.
RmRmdir_Ignored(c) ==
    /\ In(c, "Rm", "readdir") /\ Top(c).todo = {}
    /\ LET q == At(Top(c).path)
       IN  /\ Return(c, Top(c).ret)
           /\ IF CanRmdir(q) THEN SetTree(c, Without(tree, {q})) ELSE UNCHANGED <<tree, hist>>
    /\ UNCHANGED <<made, files, call>>

\* The result is that of the last entry, if rmdir does not fail.
RmRmdir(c) ==
    /\ In(c, "Rm", "readdir") /\ Top(c).todo = {}
    /\ LET q == At(Top(c).path)
       IN  \/ CanRmdir(q) /\ SetTree(c, Without(tree, {q})) /\ Return(c, Top(c).ret)
           \/ ~CanRmdir(q) /\ Return(c, FALSE) /\ UNCHANGED <<tree, hist>>
    /\ UNCHANGED <<made, files, call>>
-----------------------------------------------------------------------------
(***************************************************************************)
(* Mv and Symlink, when Rm of the destination has returned.                *)
(***************************************************************************)
Mv(c) ==
    /\ In(c, "Mv", "link")
    /\ LET f == At(call[c].arg)
           q == At(Top(c).path)
           renames == Top(c).ret /\ CanRename(f, q)
       IN  \/ renames /\ SetTree(c, Renamed(f, q)) /\ Return(c, TRUE)
           \/ ~renames /\ Return(c, FALSE) /\ UNCHANGED <<tree, hist>>
    /\ UNCHANGED <<made, files, call>>

Symlink(c) ==
    /\ In(c, "Symlink", "link")
    /\ LET q == At(Top(c).path)
           links == Top(c).ret /\ CanMkdir(q)
       IN  \/ links /\ SetTree(c, With(q, Link(call[c].arg))) /\ Return(c, TRUE)
           \/ ~links /\ Return(c, FALSE) /\ UNCHANGED <<tree, hist>>
    /\ UNCHANGED <<made, files, call>>
-----------------------------------------------------------------------------
(***************************************************************************)
(* OpenForWrite, which makes the directory if the file cannot be opened at *)
(* first, and tries again whatever Mkdir returned.                         *)
(***************************************************************************)
Dirname(p) == Front(p)

Opened(q) == IF q \in DOMAIN tree THEN tree ELSE With(q, NewFile)

OpenForWrite(c) ==
    /\ \/ In(c, "OpenForWrite", "open") /\ CanOpen(End(Top(c).path)) /\ Return(c, TRUE)
       \/ In(c, "OpenForWrite", "again") /\ Return(c, CanOpen(End(Top(c).path)))
    /\ IF CanOpen(End(Top(c).path)) THEN SetTree(c, Opened(End(Top(c).path)))
                                    ELSE UNCHANGED <<tree, hist>>
    /\ UNCHANGED <<made, files, call>>

OpenForWriteMkdir(c) ==
    /\ In(c, "OpenForWrite", "open") /\ ~CanOpen(End(Top(c).path))
    /\ Pushes(c, [Top(c) EXCEPT !.pc = "again"], Frame("Mkdir", "lstat", Dirname(Top(c).path)))
    /\ UNCHANGED <<tree, made, files, call, hist>>
-----------------------------------------------------------------------------
(***************************************************************************)
(* ListAllFile.                                                            *)
(***************************************************************************)
ListAccess(c) ==
    /\ In(c, "ListAllFile", "access")
    /\ IF End(Top(c).path) \in DOMAIN tree THEN Goes(c, [Top(c) EXCEPT !.pc = "opendir"])
                                           ELSE Return(c, TRUE)
    /\ UNCHANGED <<tree, made, files, call, hist>>

ListOpendir(c) ==
    /\ In(c, "ListAllFile", "opendir")
    /\ LET d == End(Top(c).path)
       IN  IF Is(tree, d, "dir") THEN Goes(c, [Top(c) EXCEPT !.pc = "readdir", !.todo = Entries(tree, d)])
                                 ELSE Return(c, TRUE)
    /\ UNCHANGED <<tree, made, files, call, hist>>

\* Directories are entered, regular files listed by their names, links passed over.
ListReaddir(c) ==
    /\ In(c, "ListAllFile", "readdir")
    /\ \E e \in Top(c).todo :
          LET p == Append(Top(c).path, e.name)
              rest == [Top(c) EXCEPT !.todo = @ \ {e}]
          IN  /\ IF e.kind = "dir" THEN Pushes(c, rest, Frame("ListAllFile", "access", p))
                                   ELSE Goes(c, rest)
              /\ files' = IF e.kind = "file" /\ e.name \in call[c].arg
                          THEN [files EXCEPT ![c] = @ \cup {p}] ELSE files
    /\ UNCHANGED <<tree, made, call, hist>>

ListReturn(c) ==
    /\ In(c, "ListAllFile", "readdir") /\ Top(c).todo = {}
    /\ Return(c, TRUE)
    /\ UNCHANGED <<tree, made, files, call, hist>>
-----------------------------------------------------------------------------
MkdirNext(c) == MkdirLstat(c) \/ MkdirAccess(c) \/ MkdirMkdir(c)
RmNext(c) == \/ UnlinkLstat(c) \/ UnlinkUnlink(c)
             \/ RmLstat(c) \/ RmOpendir(c) \/ RmReaddir(c) \/ RmRmdir(c)
ListNext(c) == ListAccess(c) \/ ListOpendir(c) \/ ListReaddir(c) \/ ListReturn(c)

Next == \E c \in Callers : \/ \E k \in Calls : Call(c, k)
                           \/ MkdirNext(c) \/ RmNext(c) \/ Mv(c) \/ Symlink(c)
                           \/ OpenForWrite(c) \/ OpenForWriteMkdir(c)
                           \/ ListNext(c)

Spec == Init /\ [][Next]_vars
-----------------------------------------------------------------------------
(***************************************************************************)
(* Properties.                                                             *)
(***************************************************************************)
Returned(c, ops, r) == call[c].op \in ops /\ result[c] = {r}

\* What a call reports was so at some moment while it ran, whatever the others did to the file
\* system: what was removed was missing, what was made was there, and ListAllFile found all
\* files that were there throughout and, unless somebody else put a link into its way, none
\* that was never there.
ResultsHold ==
    \A c \in Callers :
        LET found == {p \in hist[c].stable : Last(p) \in call[c].arg}
        IN  /\ Returned(c, {"Rm", "Unlink"}, TRUE) => hist[c].missed
            /\ Returned(c, {"Mkdir", "Mv", "Symlink", "OpenForWrite"}, TRUE) => hist[c].met
            /\ Returned(c, {"ListAllFile"}, TRUE) =>
                  found \subseteq files[c] /\ (hist[c].linked \/ files[c] \subseteq hist[c].ever)

\* What Rm cannot remove of what is at or below q: what a guarded directory contains, and
\* sockets, which it takes for directories.
Kept(t, q) == {r \in Below(t, q) : \E s \in Below(t, r) : ~Writable(s) \/ t[s] = Socket}
\* p leads where it does also without what is at or below q.
Avoids(t, p, q) == Place(Without(t, Below(t, q)), p, MaxLinks) = Place(t, p, MaxLinks)
Removed(t, q) == Without(t, Below(t, q) \ Kept(t, q))

\* Rm has removed all it could, and says whether that was all.
RmExact(before, after, q, r) == after = Removed(before, q) /\ (r <=> Kept(before, q) = {})

\* Mkdir has made directories on the way to p and nothing else, and fails only where something
\* is in its way.
MkdirExact(before, after, p, r) ==
    LET steps == {SubSeq(p, 1, i) : i \in 1..Len(p)}
        place(p2) == Place(after, p2, MaxLinks)
    IN  /\ Without(after, DOMAIN after \ DOMAIN before) = before
        /\ \A q \in DOMAIN after \ DOMAIN before : after[q] = Dir /\ \E p2 \in steps : place(p2) = q
        /\ r <=> place(p) \in DOMAIN after
        /\ r \/ \E p2 \in steps :
                /\ Target(after, p2, MaxLinks) \notin DOMAIN after
                /\ ~Writable(place(p2)) \/ place(p2) \in DOMAIN after

\* Mv from p to q: when it succeeds q has what p had, when it fails p has it still, except for
\* what was at or below q, which Mv removes first.  What was at q is given up for nothing only
\* if p could not be renamed, or not be found without q.
MvExact(before, after, p, q, r) ==
    LET f == Place(before, p, MaxLinks)
        renamable == /\ f \in DOMAIN before /\ Writable(f) /\ ~Under(f, q) /\ ~Under(q, f)
                     /\ Avoids(before, p, q)
    IN  /\ r => \A s \in Below(before, f) : /\ s \notin DOMAIN after
                                            /\ after[Moved(s, f, q)] = before[s]
        /\ ~r => \A s \in Below(before, f) \ Below(before, q) :
                    s \in DOMAIN after /\ after[s] = before[s]
        /\ ~r /\ renamable => Kept(before, q) # {} \/ ~Writable(q)

\* Symlink at q succeeds if and only if what was there could be removed and q is writable.
SymlinkExact(before, after, p, q, r) ==
    /\ r <=> Kept(before, q) = {} /\ Writable(q)
    /\ r => Is(after, q, "link") /\ after[q] = Link(p)

Exact(before, after, k, r) ==
    LET q == Place(before, k.path, MaxLinks)
    IN  CASE k.op = "Rm" -> RmExact(before, after, q, r)
          [] k.op = "Mkdir" -> MkdirExact(before, after, k.path, r)
          [] k.op = "Mv" -> MvExact(before, after, k.arg, q, r)
          [] k.op = "Symlink" -> SymlinkExact(before, after, k.arg, q, r)
          [] k.op = "OpenForWrite" -> r <=> Is(after, Target(after, k.path, MaxLinks), "file")
          [] OTHER -> TRUE

\* A call during which, and since when, nobody else changed the file system has done exactly
\* what it is for, or has failed for a good reason.  The exception is a path that leads through a
\* link in the directory it leads to: once Rm has removed the link it does not find the rest.
AloneExact ==
    \A c \in Callers : \A r \in result[c] :
        LET before == hist[c].before
            k == call[c]
        IN  hist[c].alone /\ Avoids(before, k.path, Place(before, k.path, MaxLinks)) =>
                Exact(before, tree, k, r)

\* Nothing disappears but what is at or below the path a call was given, or the source of Mv,
\* whatever the others do meanwhile: links are removed and not followed.  The exception is a
\* directory that somebody else replaces by a link between lstat and opendir.
RemovesOnlyBelow ==
    [][\A c \in Callers : calls'[c] # calls[c] /\ ~hist[c].linked =>
          \A q \in DOMAIN tree :
              \/ q \in DOMAIN tree' /\ tree'[q] = tree[q]
              \/ Under(At(call[c].path), q)
              \/ call[c].op = "Mv" /\ Under(At(call[c].arg), q)]_vars
=============================================================================
