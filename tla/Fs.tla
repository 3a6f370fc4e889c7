--------------------------------- MODULE Fs ---------------------------------
(***************************************************************************)
(* The file system: inodes, the inode table, block allocation, directories *)
(* and path names of kernel/fs.c, and the system calls of kernel/sysfile.c *)
(* that change them, with crashes and ireclaim().                          *)
(*                                                                         *)
(* fs.disk is what the calls see through the log and the buffer cache, and *)
(* durable what is left of it after a crash; both come from the promise of *)
(* AtomicDisk.  The operators on a state S are the functions of the source *)
(* and an action composes them in the order of the calls.  A step ends     *)
(* where the code waits for an inode's lock, or lets other processes in.   *)
(* A directory fits in one block, and the content of a file is left out.   *)
(***************************************************************************)
EXTENDS Naturals, FiniteSets, Sequences, FiniteSetsExt, SequencesExt

CONSTANTS
  Users,      \* processes that make file system calls
  Names,      \* names of files and directories
  NINODES,    \* inodes on the disk
  FsBlocks,   \* data blocks on the disk
  NDIRECT,    \* blocks of a file that its inode lists itself
  MAXFILE,    \* blocks of a file
  Images,     \* the lists of files that mkfs may be given
  FsPaths,    \* the paths that calls name, as sequences of names
  FsCalls,    \* the system calls that are made
  FsCrashes,  \* bound on the number of crashes
  MAXCALLS    \* bound on the number of system calls

ROOTINO == 1
Inums == 1 .. NINODES
NoUser == "none"
CreateCalls == {"creat", "mkdir", "mknod"}

ASSUME FsAssumption ==
  /\ NINODES \in Nat \ {0} /\ NDIRECT \in Nat /\ MAXFILE \in Nat /\ FsCrashes \in Nat
  /\ NoUser \notin Users /\ FsBlocks \subseteq Nat \ {0}
  /\ FsPaths \subseteq Seq(Names) \ {<<>>} /\ Images \subseteq Seq(Names)
  /\ FsCalls \subseteq CreateCalls \cup {"open", "unlink", "link", "chdir", "write", "close"}

VARIABLES
  fs,        \* the disk, the inode table and the inodes' locks
  durable,   \* the disk after a crash
  u,         \* control point and local variables of each process
  fd, cwd,   \* the inode of each process's open file (0: none) and working directory
  reclaim,   \* the inode that ireclaim() looks at next; above NINODES the system is up
  fscrashes, calls,
  missed     \* history: the inodes that iput() did not free because of one still under way

fsVars == <<fs, durable, u, fd, cwd, reclaim, fscrashes, calls, missed>>

\* An inode: data blocks and the indirect block (0: none).
NoInode == [type |-> "NONE", nlink |-> 0, data |-> {}, ind |-> 0]
NoEntries == [n \in Names \cup {".."} |-> 0]
Owned(r) == r.data \cup ({r.ind} \ {0})

-----------------------------------------------------------------------------
(* Blocks and inodes. *)

\* balloc(): the block, or 0; blocks come back zeroed.
balloc(S) == IF FsBlocks \subseteq S.disk.used THEN 0 ELSE Min(FsBlocks \ S.disk.used)
Allocated(S, b) == [S EXCEPT !.disk.used = @ \cup ({b} \ {0})]

iget(S, i) ==
  [S EXCEPT !.ref[i] = @ + 1, !.valid[i] = IF S.ref[i] = 0 THEN FALSE ELSE @]

\* ilock() after acquiresleep(); the callers wait for Unlocked(i).
Unlocked(i) == fs.lock[i] = NoUser
ilock(S, p, i) ==
  [S EXCEPT !.lock[i] = p,
            !.mem[i] = IF S.valid[i] THEN @ ELSE S.disk.ino[i],
            !.valid[i] = TRUE]
iunlock(S, i) == [S EXCEPT !.lock[i] = NoUser]

iupdate(S, i) == [S EXCEPT !.disk.ino[i] = S.mem[i]]

\* The inode number, or 0.
FreeInums(S) == {i \in Inums : S.disk.ino[i].type = "NONE"}
ialloc(S) == IF FreeInums(S) = {} THEN 0 ELSE Min(FreeInums(S))

\* bmap() of a new block at the end of the file: the state, and whether there was room.
bmap(S, i) ==
  IF Cardinality(S.mem[i].data) < NDIRECT
  THEN LET b == balloc(S)
       IN [ok |-> b # 0, st |-> [Allocated(S, b) EXCEPT !.mem[i].data = @ \cup ({b} \ {0})]]
  ELSE LET x  == IF S.mem[i].ind = 0 THEN balloc(S) ELSE S.mem[i].ind
           S1 == [Allocated(S, x) EXCEPT !.mem[i].ind = x]
           b  == IF x = 0 THEN 0 ELSE balloc(S1)
       IN [ok |-> b # 0, st |-> [Allocated(S1, b) EXCEPT !.mem[i].data = @ \cup ({b} \ {0})]]

\* writei() of one block at the end of the file.
writei(S, i) == LET r == bmap(S, i) IN [r EXCEPT !.st = iupdate(@, i)]

bfree(S, bs) == [S EXCEPT !.disk.used = @ \ bs]

\* Variant: the indirect block is kept.
itruncKeepsIndirect(S, i) ==
  iupdate([bfree(S, S.mem[i].data) EXCEPT !.disk.ents[i] = NoEntries,
                                          !.mem[i].data = {}, !.mem[i].ind = 0], i)

itrunc(S, i) ==
  iupdate([bfree(S, Owned(S.mem[i])) EXCEPT !.disk.ents[i] = NoEntries,
                                            !.mem[i].data = {}, !.mem[i].ind = 0], i)

-----------------------------------------------------------------------------
(* Directories. *)

dirlookup(S, dp, name) == S.disk.ents[dp][name]

\* dirlink(): the first entry of a directory needs a block.
dirlink(S, dp, name, i) ==
  LET w == IF S.mem[dp].data = {} THEN writei(S, dp) ELSE [ok |-> TRUE, st |-> S]
      ok == dirlookup(S, dp, name) = 0 /\ w.ok
  IN [ok |-> ok, st |-> IF ok THEN [w.st EXCEPT !.disk.ents[dp][name] = i] ELSE w.st]

isdirempty(S, dp) == \A n \in Names : S.disk.ents[dp][n] = 0

NLink(S, i, n) == iupdate([S EXCEPT !.mem[i].nlink = n], i)

-----------------------------------------------------------------------------
(* Control of a system call. *)

Idle == [pc |-> "idle", call |-> "none", path |-> <<>>, at |-> 0, ip |-> 0, parent |-> FALSE,
         puts |-> <<>>, then |-> "end"]
Up == reclaim > NINODES
At(p, label) == Up /\ u[p].pc = label
Goto(p, label) == u' = [u EXCEPT ![p].pc = label]
\* The inodes in puts are put one by one, and then the process goes on at label.
PutThen(p, puts, label, ip, at, path) ==
  u' = [u EXCEPT ![p] = [@ EXCEPT !.pc = "put", !.puts = puts, !.then = label,
                                  !.ip = ip, !.at = at, !.path = path]]
PutAndEnd(p, puts) ==
  u' = [u EXCEPT ![p] = [Idle EXCEPT !.pc = "put", !.puts = puts, !.then = "end"]]
SameFiles == UNCHANGED <<durable, fd, cwd, reclaim, fscrashes, missed>>

\* begin_op(), and the start of namex() at the root or at the working directory.
BeginCall(p, call, start, path) ==
  /\ At(p, "idle")
  /\ fs' = iget(fs, start)
  /\ u' = [u EXCEPT ![p] = [@ EXCEPT !.pc = "walk", !.call = call, !.at = start, !.path = path,
                                     !.parent = call \in CreateCalls \cup {"unlink"}]]
  /\ SameFiles

\* The first of puts is done.
NextPut(p) ==
  u' = [u EXCEPT ![p].puts = Tail(@), ![p].pc = IF Len(u[p].puts) = 1 THEN u[p].then ELSE "put"]

WalkFails(p, dp) ==
  IF u[p].ip = 0 THEN PutAndEnd(p, <<dp>>) ELSE PutThen(p, <<dp>>, "undo", u[p].ip, 0, <<>>)

\* One element of namex().  nameiparent() stops at the last; a walk that fails ends the
\* call, but link() must first take back its count.
namex(p) ==
  LET dp   == u[p].at
      S    == ilock(fs, p, dp)
      next == dirlookup(S, dp, Head(u[p].path))
      rest == Tail(u[p].path)
  IN /\ At(p, "walk") /\ Unlocked(dp)
     /\ \/ /\ S.mem[dp].type # "DIR"
           /\ fs' = iunlock(S, dp)
           /\ WalkFails(p, dp)
        \/ /\ S.mem[dp].type = "DIR" /\ u[p].parent /\ rest = <<>>
           /\ fs' = iunlock(S, dp)
           /\ Goto(p, "dir")
        \/ /\ S.mem[dp].type = "DIR" /\ ~ (u[p].parent /\ rest = <<>>) /\ next = 0
           /\ fs' = iunlock(S, dp)
           /\ WalkFails(p, dp)
        \/ /\ S.mem[dp].type = "DIR" /\ ~ (u[p].parent /\ rest = <<>>) /\ next # 0
           /\ fs' = iget(iunlock(S, dp), next)
           /\ PutThen(p, <<dp>>, IF rest = <<>> THEN "file" ELSE "walk", u[p].ip, next, rest)
     /\ SameFiles

\* Variant: the copy of a freed inode stays valid.
IputEndValid(p) ==
  LET i == Head(u[p].puts)
  IN /\ At(p, "freed")
     /\ fs' = iunlock(fs, i)
     /\ Goto(p, "drop")
     /\ SameFiles

\* Variant: the inode of an open file is freed with its last link.
iputUncounted(p) ==
  LET i == Head(u[p].puts)
  IN /\ At(p, "put")
     /\ \/ /\ fs.valid[i] /\ fs.mem[i].nlink = 0
           /\ LET S == itrunc([fs EXCEPT !.lock[i] = p], i)
              IN fs' = iupdate([S EXCEPT !.mem[i].type = "NONE"], i)
           /\ Goto(p, "freed")
        \/ /\ ~ (fs.valid[i] /\ fs.mem[i].nlink = 0)
           /\ fs' = [fs EXCEPT !.ref[i] = @ - 1]
           /\ NextPut(p)
     /\ SameFiles

\* iput(): the last reference to an inode without links frees it.  itable.lock is not
\* held meanwhile, so that ialloc() may hand the inode out again before IputEnd, and its
\* new users may put it before IputDrop, when the old reference still counts.
iput(p) ==
  LET i == Head(u[p].puts)
      unlinked == fs.valid[i] /\ fs.mem[i].nlink = 0
      last == fs.ref[i] = 1 /\ unlinked
      dropping == {q \in Users : At(q, "drop") /\ Head(u[q].puts) = i}
  IN /\ At(p, "put")
     /\ \/ /\ last
           /\ LET S == itrunc([fs EXCEPT !.lock[i] = p], i)
              IN fs' = iupdate([S EXCEPT !.mem[i].type = "NONE"], i)
           /\ Goto(p, "freed")
           /\ UNCHANGED missed
        \/ /\ ~ last
           /\ fs' = [fs EXCEPT !.ref[i] = @ - 1]
           /\ NextPut(p)
           /\ missed' = IF unlinked /\ fs.ref[i] = 1 + Cardinality(dropping)
                        THEN missed \cup {i} ELSE missed
     /\ UNCHANGED <<durable, fd, cwd, reclaim, fscrashes>>

IputEnd(p) ==
  LET i == Head(u[p].puts)
  IN /\ At(p, "freed")
     /\ fs' = [iunlock(fs, i) EXCEPT !.valid[i] = FALSE]
     /\ Goto(p, "drop")
     /\ SameFiles

\* The end of iput(), which has taken itable.lock again.
IputDrop(p) ==
  /\ At(p, "drop")
  /\ fs' = [fs EXCEPT !.ref[Head(u[p].puts)] = @ - 1]
  /\ NextPut(p)
  /\ SameFiles

\* end_op(): the last operation under way commits.
EndCall(p) ==
  /\ At(p, "end")
  /\ u' = [u EXCEPT ![p] = Idle]
  /\ durable' = IF \A q \in Users \ {p} : u[q].pc = "idle" THEN fs.disk ELSE durable
  /\ UNCHANGED <<fs, fd, cwd, reclaim, fscrashes, missed>>

-----------------------------------------------------------------------------
(* The system calls. *)

\* create() up to the lock of the inode, which is another's or new.
CreateFind(p) ==
  LET dp    == u[p].at
      S     == ilock(fs, p, dp)
      found == dirlookup(S, dp, Head(u[p].path))
      i     == ialloc(S)
      type  == CASE u[p].call = "mkdir" -> "DIR" [] u[p].call = "mknod" -> "DEV" [] OTHER -> "FILE"
      new   == [NoInode EXCEPT !.type = type]
  IN /\ At(p, "dir") /\ u[p].call \in CreateCalls /\ Unlocked(dp)
     /\ \/ /\ found # 0
           /\ fs' = iget(iunlock(S, dp), found)
           /\ PutThen(p, <<dp>>, "exist", found, 0, <<>>)
        \/ /\ found = 0 /\ i = 0
           /\ fs' = iunlock(S, dp)
           /\ PutAndEnd(p, <<dp>>)
        \/ /\ found = 0 /\ i # 0
           /\ fs' = iget([S EXCEPT !.disk.ino[i] = new], i)
           /\ u' = [u EXCEPT ![p].pc = "new", ![p].ip = i]
     /\ SameFiles

CreateExists(p) ==
  LET i == u[p].ip
      S == ilock(fs, p, i)
  IN /\ At(p, "exist") /\ Unlocked(i)
     /\ IF u[p].call = "creat" /\ S.mem[i].type \in {"FILE", "DEV"}
        THEN fs' = S /\ Goto(p, "opened")
        ELSE fs' = iunlock(S, i) /\ PutAndEnd(p, <<i>>)
     /\ SameFiles

\* The rest of create(): sys_open() keeps the new inode locked, the others put it.
CreateNew(p) ==
  LET dp == u[p].at
      i  == u[p].ip
      S1 == NLink(ilock(fs, p, i), i, 1)
      dd == IF u[p].call = "mkdir" THEN dirlink(S1, i, "..", dp) ELSE [ok |-> TRUE, st |-> S1]
      dl == IF dd.ok THEN dirlink(dd.st, dp, Head(u[p].path), i) ELSE dd
      S2 == IF u[p].call = "mkdir" THEN NLink(dl.st, dp, dl.st.mem[dp].nlink + 1) ELSE dl.st
  IN /\ At(p, "new") /\ Unlocked(i)
     /\ \/ /\ dl.ok /\ u[p].call = "creat"
           /\ fs' = iunlock(S2, dp)
           /\ PutThen(p, <<dp>>, "opened", i, 0, <<>>)
        \/ /\ dl.ok /\ u[p].call # "creat"
           /\ fs' = iunlock(iunlock(S2, dp), i)
           /\ PutAndEnd(p, <<dp, i>>)
        \/ /\ ~ dl.ok
           /\ fs' = iunlock(iunlock(NLink(dl.st, i, 0), i), dp)
           /\ PutAndEnd(p, <<i, dp>>)
     /\ SameFiles

\* sys_open() of a name that exists; a directory opens only for reading.
OpenFound(p, rdonly) ==
  LET i == u[p].at
      S == ilock(fs, p, i)
  IN /\ At(p, "file") /\ u[p].call = "open" /\ Unlocked(i)
     /\ IF S.mem[i].type = "DIR" /\ ~ rdonly
        THEN fs' = iunlock(S, i) /\ PutAndEnd(p, <<i>>)
        ELSE fs' = S /\ u' = [u EXCEPT ![p].pc = "opened", ![p].ip = i, ![p].at = 0]
     /\ SameFiles

\* The end of sys_open(), with the inode locked; one descriptor for each process.  The
\* number of a device may be out of range.
OpenFile(p, trunc) ==
  LET i == u[p].ip
  IN /\ At(p, "opened")
     /\ \/ /\ fd[p] # 0 \/ fs.mem[i].type = "DEV"
           /\ fs' = iunlock(fs, i)
           /\ PutAndEnd(p, <<i>>)
           /\ UNCHANGED fd
        \/ /\ fd[p] = 0
           /\ fd' = [fd EXCEPT ![p] = i]
           /\ fs' = iunlock(IF trunc /\ fs.mem[i].type = "FILE" THEN itrunc(fs, i) ELSE fs, i)
           /\ u' = [u EXCEPT ![p] = [Idle EXCEPT !.pc = "end"]]
     /\ UNCHANGED <<durable, cwd, reclaim, fscrashes, missed>>

sys_chdir(p) ==
  LET i == u[p].at
      S == ilock(fs, p, i)
  IN /\ At(p, "file") /\ u[p].call = "chdir" /\ Unlocked(i)
     /\ fs' = iunlock(S, i)
     /\ IF S.mem[i].type = "DIR"
        THEN cwd' = [cwd EXCEPT ![p] = i] /\ PutAndEnd(p, <<cwd[p]>>)
        ELSE UNCHANGED cwd /\ PutAndEnd(p, <<i>>)
     /\ UNCHANGED <<durable, fd, reclaim, fscrashes, missed>>

\* sys_link() counts the link before the second path is walked ...
LinkCount(p, start, path) ==
  LET i == u[p].at
      S == ilock(fs, p, i)
  IN /\ At(p, "file") /\ u[p].call = "link" /\ Unlocked(i)
     /\ IF S.mem[i].type = "DIR"
        THEN fs' = iunlock(S, i) /\ PutAndEnd(p, <<i>>)
        ELSE /\ fs' = iget(iunlock(NLink(S, i, S.mem[i].nlink + 1), i), start)
             /\ u' = [u EXCEPT ![p] = [@ EXCEPT !.pc = "walk", !.ip = i, !.at = start,
                                                !.path = path, !.parent = TRUE]]
     /\ SameFiles

\* ... and enters it,
LinkEnter(p) ==
  LET dp == u[p].at
      dl == dirlink(ilock(fs, p, dp), dp, Head(u[p].path), u[p].ip)
  IN /\ At(p, "dir") /\ u[p].call = "link" /\ Unlocked(dp)
     /\ fs' = iunlock(dl.st, dp)
     /\ IF dl.ok THEN PutAndEnd(p, <<dp, u[p].ip>>)
                 ELSE PutThen(p, <<dp>>, "undo", u[p].ip, 0, <<>>)
     /\ SameFiles

\* ... or takes it back.
LinkUndo(p) ==
  LET i == u[p].ip
      S == ilock(fs, p, i)
  IN /\ At(p, "undo") /\ Unlocked(i)
     /\ fs' = iunlock(NLink(S, i, S.mem[i].nlink - 1), i)
     /\ PutAndEnd(p, <<i>>)
     /\ SameFiles

UnlinkFind(p) ==
  LET dp == u[p].at
      S  == ilock(fs, p, dp)
      i  == dirlookup(S, dp, Head(u[p].path))
  IN /\ At(p, "dir") /\ u[p].call = "unlink" /\ Unlocked(dp)
     /\ IF i = 0 THEN fs' = iunlock(S, dp) /\ PutAndEnd(p, <<dp>>)
                 ELSE fs' = iget(S, i) /\ u' = [u EXCEPT ![p].pc = "victim", ![p].ip = i]
     /\ SameFiles

\* The rest of sys_unlink(), with the directory locked.
Unlink(p) ==
  LET dp == u[p].at
      i  == u[p].ip
      S  == ilock(fs, p, i)
      S1 == [S EXCEPT !.disk.ents[dp][Head(u[p].path)] = 0]
      S2 == IF S.mem[i].type = "DIR" THEN NLink(S1, dp, S1.mem[dp].nlink - 1) ELSE S1
  IN /\ At(p, "victim") /\ Unlocked(i)
     /\ IF S.mem[i].type = "DIR" /\ ~ isdirempty(S, i)
        THEN fs' = iunlock(iunlock(S, i), dp) /\ PutAndEnd(p, <<i, dp>>)
        ELSE /\ fs' = iunlock(iunlock(NLink(S2, i, S2.mem[i].nlink - 1), i), dp)
             /\ PutAndEnd(p, <<dp, i>>)
     /\ SameFiles

\* filewrite() of one more block; ilock() is the first thing after begin_op().
BeginWrite(p) ==
  /\ At(p, "idle") /\ fd[p] # 0 /\ fs.mem[fd[p]].type = "FILE"
  /\ u' = [u EXCEPT ![p].pc = "write", ![p].call = "write", ![p].ip = fd[p]]
  /\ UNCHANGED fs /\ SameFiles

Filewrite(p) ==
  LET i == u[p].ip
      S == ilock(fs, p, i)
  IN /\ At(p, "write") /\ Unlocked(i)
     /\ fs' = iunlock(IF Cardinality(S.mem[i].data) < MAXFILE THEN writei(S, i).st ELSE S, i)
     /\ u' = [u EXCEPT ![p] = [Idle EXCEPT !.pc = "end"]]
     /\ SameFiles

\* fileclose() of the last reference to an open file.
Fileclose(p) ==
  /\ At(p, "idle") /\ fd[p] # 0
  /\ fd' = [fd EXCEPT ![p] = 0]
  /\ PutAndEnd(p, <<fd[p]>>)
  /\ UNCHANGED <<fs, durable, cwd, reclaim, fscrashes, missed>>

-----------------------------------------------------------------------------
(* Crash and boot. *)

\* The inode table of a system that has just booted, with d on the disk.
Booted(d) ==
  [disk |-> d, mem |-> [i \in Inums |-> NoInode], valid |-> [i \in Inums |-> FALSE],
   ref |-> [i \in Inums |-> IF i = ROOTINO THEN Cardinality(Users) ELSE 0],
   lock |-> [i \in Inums |-> NoUser]]

FsCrash ==
  /\ fscrashes < FsCrashes
  /\ fscrashes' = fscrashes + 1
  /\ fs' = Booted(durable)
  /\ u' = [p \in Users |-> Idle]
  /\ fd' = [p \in Users |-> 0] /\ cwd' = [p \in Users |-> ROOTINO]
  /\ reclaim' = 1 /\ missed' = {}
  /\ UNCHANGED durable

\* Variant: only files are looked for.
ireclaimFiles ==
  LET i == reclaim
      S == itrunc(ilock(iget(fs, i), "boot", i), i)
      orphan == fs.disk.ino[i].type = "FILE" /\ fs.disk.ino[i].nlink = 0
      F == [iunlock(iupdate([S EXCEPT !.mem[i].type = "NONE"], i), i)
              EXCEPT !.valid[i] = FALSE, !.ref[i] = @ - 1]
  IN /\ ~ Up
     /\ fs' = IF orphan THEN F ELSE fs
     /\ durable' = fs'.disk
     /\ reclaim' = reclaim + 1
     /\ UNCHANGED <<u, fd, cwd, fscrashes, missed>>

\* One turn of the loop of ireclaim(): an orphan is put inside an operation of its own.
ireclaim ==
  LET i == reclaim
      S == itrunc(ilock(iget(fs, i), "boot", i), i)
      orphan == fs.disk.ino[i].type # "NONE" /\ fs.disk.ino[i].nlink = 0
      F == [iunlock(iupdate([S EXCEPT !.mem[i].type = "NONE"], i), i)
              EXCEPT !.valid[i] = FALSE, !.ref[i] = @ - 1]
  IN /\ ~ Up
     /\ fs' = IF orphan THEN F ELSE fs
     /\ durable' = fs'.disk
     /\ reclaim' = reclaim + 1
     /\ UNCHANGED <<u, fd, cwd, fscrashes, missed>>

\* The image that mkfs makes of the files it is given, each of one block: iappend() and
\* ialloc() hand out blocks and inodes in order, the first ones to the root directory.
MkfsBlock(k) == SetToSortSeq(FsBlocks, <)[k]
MkfsInode(i) == [NoInode EXCEPT !.type = IF i = ROOTINO THEN "DIR" ELSE "FILE",
                                !.nlink = 1, !.data = {MkfsBlock(i)}]
Mkfs(files) ==
  LET size == 1 + Len(files)
      entry(n) == IF \E k \in DOMAIN files : files[k] = n
                  THEN 1 + CHOOSE k \in DOMAIN files : files[k] = n ELSE 0
  IN [ino |-> [i \in Inums |-> IF i <= size THEN MkfsInode(i) ELSE NoInode],
      used |-> {MkfsBlock(k) : k \in 1 .. size},
      ents |-> [[i \in Inums |-> NoEntries] EXCEPT ![ROOTINO] =
                 [n \in DOMAIN NoEntries |-> IF n = ".." THEN ROOTINO ELSE entry(n)]]]

FsInit ==
  /\ \E files \in Images : durable = Mkfs(files)
  /\ fs = Booted(durable)
  /\ u = [p \in Users |-> Idle]
  /\ fd = [p \in Users |-> 0] /\ cwd = [p \in Users |-> ROOTINO]
  /\ reclaim = 1 /\ fscrashes = 0 /\ calls = 0 /\ missed = {}

Syscall(p) ==
  /\ calls < MAXCALLS /\ calls' = calls + 1
  /\ \/ \E c \in FsCalls \ {"write", "close"}, s \in {ROOTINO, cwd[p]}, path \in FsPaths :
          BeginCall(p, c, s, path)
     \/ "write" \in FsCalls /\ BeginWrite(p)
     \/ "close" \in FsCalls /\ Fileclose(p)

FsStep(p) ==
  \/ namex(p) \/ iput(p) \/ IputEnd(p) \/ IputDrop(p) \/ EndCall(p)
  \/ CreateFind(p) \/ CreateExists(p) \/ CreateNew(p)
  \/ \E b \in BOOLEAN : OpenFound(p, b) \/ OpenFile(p, b)
  \/ sys_chdir(p)
  \/ \E s \in {ROOTINO, cwd[p]}, path \in FsPaths : LinkCount(p, s, path)
  \/ LinkEnter(p) \/ LinkUndo(p) \/ UnlinkFind(p) \/ Unlink(p) \/ Filewrite(p)

FsNext ==
  \/ \E p \in Users : Syscall(p)
  \/ (\E p \in Users : FsStep(p)) /\ UNCHANGED calls
  \/ (FsCrash \/ ireclaim) /\ UNCHANGED calls

FsSpec == FsInit /\ [][FsNext]_fsVars

-----------------------------------------------------------------------------
(* Properties. *)

\* The directory entries that name inode i.
Linked(d, i) ==
  {x \in Inums \X Names : d.ino[x[1]].type = "DIR" /\ d.ents[x[1]][x[2]] = i}

\* The bitmap of balloc() and bfree() lists exactly the blocks of the inodes, and no two
\* inodes share a block, on the disk that any crash leaves: failed writes, truncation,
\* the freeing of inodes by iput() and ireclaim() neither leak a block nor free it twice.
BlocksExact ==
  /\ durable.used = UNION {Owned(durable.ino[i]) : i \in Inums}
  /\ \A i, j \in Inums : i # j => Owned(durable.ino[i]) \cap Owned(durable.ino[j]) = {}

\* No directory entry, open file or working directory is left with a freed inode, and an
\* inode's nlink covers all of its entries: iput() frees only what nobody can reach.
NoDangling ==
  /\ \A i \in Inums : Linked(durable, i) # {} =>
       durable.ino[i].type # "NONE" /\ durable.ino[i].nlink >= Cardinality(Linked(durable, i))
  /\ Up => \A p \in Users :
       fs.disk.ino[cwd[p]].type = "DIR" /\ (fd[p] # 0 => fs.disk.ino[fd[p]].type # "NONE")

\* An unlocked in-memory inode equals the inode on the disk: every change is followed by
\* iupdate(), and an inode that was freed and handed out again is read anew.
CopyAgrees ==
  \A i \in Inums : fs.ref[i] > 0 /\ fs.valid[i] /\ Unlocked(i) => fs.mem[i] = fs.disk.ino[i]

\* When no operation is under way, an inode without links is some process's open file or
\* working directory: iput() frees the others, and after a crash ireclaim() does.  The
\* exception is an inode whose last user put it while an earlier iput() of the same number
\* was between releasesleep() and ref--: it stays until the next boot.
OrphansReclaimed ==
  Up /\ (\A p \in Users : u[p].pc = "idle") =>
    \A i \in Inums \ missed : fs.disk.ino[i].type # "NONE" /\ fs.disk.ino[i].nlink = 0 =>
      \E p \in Users : i \in {fd[p], cwd[p]}
=============================================================================
