---------------------------- MODULE MCResources -----------------------------
(***************************************************************************)
(* The components that keep count of something, on small instances.  They  *)
(* share no state, so that a behaviour is one of one of them: part says of *)
(* which, and the properties below are those of the components' modules.   *)
(***************************************************************************)
EXTENDS Fs, Files, Memory, Bcache, Heap, Shell, Console, Spin, Grep, TLC

VARIABLE part

Parts == {"fs", "files", "memory", "bcache", "heap", "shell", "console", "spin", "grep"}

\* A file system with one file, b, and room for a directory a.
MCImages == {<<"b">>}
MCPaths == {<<"a">>, <<"b">>, <<"a", "b">>}

\* The processes of the file system, which are those of the buffer cache, are alike.
ResourceSymmetry == Permutations(Users)

NotFs == UNCHANGED <<part, fileVars, memVars, bcacheVars, heapVars, line, consoleVars, spinVars, grepVars>>
NotFiles == UNCHANGED <<part, fsVars, memVars, bcacheVars, heapVars, line, consoleVars, spinVars, grepVars>>
NotMemory == UNCHANGED <<part, fsVars, fileVars, bcacheVars, heapVars, line, consoleVars, spinVars, grepVars>>
NotBcache == UNCHANGED <<part, fsVars, fileVars, memVars, heapVars, line, consoleVars, spinVars, grepVars>>
NotHeap == UNCHANGED <<part, fsVars, fileVars, memVars, bcacheVars, line, consoleVars, spinVars, grepVars>>
NotShell == UNCHANGED <<part, fsVars, fileVars, memVars, bcacheVars, heapVars, consoleVars, spinVars, grepVars>>
NotConsole == UNCHANGED <<part, fsVars, fileVars, memVars, bcacheVars, heapVars, line, spinVars, grepVars>>
NotSpin == UNCHANGED <<part, fsVars, fileVars, memVars, bcacheVars, heapVars, line, consoleVars, grepVars>>
NotGrep == UNCHANGED <<part, fsVars, fileVars, memVars, bcacheVars, heapVars, line, consoleVars, spinVars>>

\* A part that a behaviour is not about has no state, or, where the state is small, stays
\* in an initial one.
Off == "off"
FsOff == /\ fs = Off /\ durable = Off /\ u = Off /\ fd = Off /\ cwd = Off
         /\ reclaim = Off /\ fscrashes = Off /\ calls = Off /\ missed = Off
MemoryOff == kmem = Off /\ space = Off /\ amem = Off /\ mcalls = Off
HeapOff == heap = Off /\ blocks = Off /\ mine = Off
ShellOff == line = Off
GrepOff == /\ re = Off /\ input = Off /\ gbuf = Off /\ m = Off /\ printed = Off /\ gdone = Off
           /\ whole = Off

ResourcesInit ==
  /\ part \in Parts
  /\ IF part = "fs" THEN FsInit ELSE FsOff
  /\ IF part = "memory" THEN MemoryInit ELSE MemoryOff
  /\ IF part = "heap" THEN HeapInit ELSE HeapOff
  /\ IF part = "shell" THEN ShellInit ELSE ShellOff
  /\ IF part = "grep" THEN GrepInit ELSE GrepOff
  /\ FilesInit /\ BcacheInit /\ ConsoleInit /\ SpinInit
  /\ part # "files" => fcalls = 0
  /\ part # "console" => cons.r = 0
  /\ part # "spin" => trapped = [p \in Threads |-> FALSE]

\* All calls have been made, everything has come to its end, or bget() has panicked: the
\* other steps of these parts must not stop before.
ResourcesDone ==
  /\ \/ part = "fs" /\ Up /\ calls = MAXCALLS /\ \A p \in Users : u[p].pc = "idle"
     \/ part = "files" /\ FilesDone
     \/ part = "memory" /\ mcalls = MAXMCALLS
     \/ part = "bcache" /\ panicked
     \/ part = "grep" /\ gdone
  /\ UNCHANGED <<part, fsVars, fileVars, memVars, bcacheVars, heapVars, line, consoleVars, spinVars, grepVars>>

ResourcesNext ==
  \/ part = "fs" /\ FsNext /\ NotFs
  \/ part = "files" /\ FilesNext /\ NotFiles
  \/ part = "memory" /\ MemoryNext /\ NotMemory
  \/ part = "bcache" /\ BcacheNext /\ NotBcache
  \/ part = "heap" /\ HeapNext /\ NotHeap
  \/ part = "shell" /\ ShellNext /\ NotShell
  \/ part = "console" /\ ConsoleNext /\ NotConsole
  \/ part = "spin" /\ SpinNext /\ NotSpin
  \/ part = "grep" /\ GrepNext /\ NotGrep
  \/ ResourcesDone

-----------------------------------------------------------------------------
(* The properties of the components, each for the behaviours of its own.  Those of Files, *)
(* Bcache, Console and Spin need no such condition.                                       *)

\* balloc(), bfree(), itrunc(), iput() and ireclaim() keep the bitmap exact on the disk
\* that any crash leaves.
MCBlocksExact == part = "fs" => BlocksExact

\* iput() frees only inodes that no directory entry, open file or working directory has.
MCNoDangling == part = "fs" => NoDangling

\* The in-memory inode that an unlocked iget() reference finds is the one on the disk.
MCCopyAgrees == part = "fs" => CopyAgrees

\* Between operations, and after ireclaim(), only inodes in use are without links, but
\* for those that iput() missed.
MCOrphansReclaimed == part = "fs" => OrphansReclaimed

\* kalloc(), the page tables of vm.c and fork(), exec() and sbrk() neither leak a page
\* nor use or free it twice.
MCPagesExact == part = "memory" => PagesExact

\* A process finds in its memory what it, fork(), exec() or vmfault() put there.
MCMemoryAgrees == part = "memory" => MemoryAgrees

\* malloc() and free() split the heap without gap or overlap.
MCHeapSound == part = "heap" => HeapSound

\* parsecmd() accepts the lines of the shell's language and builds their meaning.
MCParseAgrees == part = "shell" => ParseAgrees

\* grep() prints the lines that the pattern matches, whatever pieces read() returns.
MCGrepAgrees == part = "grep" => GrepAgrees
=============================================================================
