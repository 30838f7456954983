---------------------------- MODULE FileObserver ----------------------------
(***************************************************************************)
(* Observer (internal/services/observer.go): one goroutine takes the       *)
(* notices of a project's watched directories, holds the changes of a path *)
(* back for a while so that many become one, and emits what is left as     *)
(* file events.                                                            *)
(*                                                                         *)
(* The tree has the root and directories below it.  Pending changes are in *)
(* the order of their last notice; which of them the ticker finds older    *)
(* than the debounce is left open, and so is the order in which the        *)
(* changes taken out of the map are emitted.  Between the two the tree may *)
(* change.  Ignored paths and files that are not source code are left out. *)
(***************************************************************************)
EXTENDS Naturals, Sequences, FiniteSets

CONSTANTS
  WatchRoot, Dir,     \* the root of the project, the directories below it
  WatchedFile,        \* its source files
  DirOf,              \* DirOf[f]: the directory a file is in
  maxPending, maxDirs,
  MaxTreeChanges      \* bound: changes of the tree

ASSUME ObserverAssumption ==
  /\ WatchRoot \notin Dir /\ Dir \cap WatchedFile = {} /\ IsFiniteSet(WatchedFile)
  /\ DirOf \in [WatchedFile -> Dir \cup {WatchRoot}]
  /\ {maxPending, maxDirs} \subseteq Nat \ {0} /\ MaxTreeChanges \in Nat

VARIABLES
  tree,         \* the paths that exist
  kernel,       \* the directories inotify watches
  watched,      \* o.watched
  inbox,        \* notices the loop has not taken
  held,         \* o.pending: pending changes, the least recently noticed first
  emitting,     \* changes taken out of pending and not emitted yet
  loop,         \* "runs", "last flush" or "ended"
  unreported,   \* history: files with a noticed change no event followed
  treeChanges   \* clock

treeVars == <<tree, treeChanges>>
loopVars == <<watched, held, emitting, loop>>
observerVars == <<treeVars, kernel, inbox, loopVars, unreported>>

TreePath == Dir \cup WatchedFile
Op == {"Create", "Write", "Remove"}
Change == [path : TreePath, op : SUBSET Op]

\* Start: the root and the directories found there, up to maxDirs.
ObserverInit ==
  /\ tree \in SUBSET TreePath
  /\ \A f \in tree \cap WatchedFile : DirOf[f] \in tree \cup {WatchRoot}
  /\ \E S \in SUBSET (tree \cap Dir) :
       /\ Cardinality(S) < maxDirs
       /\ S = tree \cap Dir \/ Cardinality(S) = maxDirs - 1
       /\ kernel = S \cup {WatchRoot}
  /\ watched = kernel
  /\ inbox = <<>> /\ held = <<>> /\ emitting = {} /\ loop = "runs"
  /\ unreported = {} /\ treeChanges = 0

-----------------------------------------------------------------------------
(* The tree and its watches.                                               *)

Notice(path, op) == [path |-> path, op |-> {op}]
\* Nothing is owed for a file that was removed where nothing is watched.
Noticed(told) ==
  /\ inbox' = inbox \o told
  /\ LET files == {told[i].path : i \in DOMAIN told} \cap WatchedFile
     IN unreported' = (unreported \ (tree \ tree')) \cup files

ChangeFile(f) ==
  LET op == IF f \in tree THEN {"Write", "Remove"} ELSE {"Create"}
  IN /\ DirOf[f] \in tree \cup {WatchRoot}
     /\ \E o \in op :
          /\ tree' = IF o = "Remove" THEN tree \ {f} ELSE tree \cup {f}
          /\ Noticed(IF DirOf[f] \in kernel THEN <<Notice(f, o)>> ELSE <<>>)
     /\ UNCHANGED kernel

MakeDir(d) ==
  /\ d \notin tree
  /\ tree' = tree \cup {d}
  /\ Noticed(<<Notice(d, "Create")>>)
  /\ UNCHANGED kernel

\* The files go first; inotify forgets a directory that is gone.
RemoveDir(d) ==
  LET files == {f \in tree \cap WatchedFile : DirOf[f] = d}
      gone == IF d \in kernel THEN files ELSE {}
  IN /\ d \in tree
     /\ tree' = tree \ (files \cup {d})
     /\ \E order \in [1..Cardinality(gone) -> gone] :
          /\ gone = {order[i] : i \in DOMAIN order}
          /\ Noticed([i \in DOMAIN order |-> Notice(order[i], "Remove")] \o <<Notice(d, "Remove")>>)
     /\ kernel' = kernel \ {d}

ChangeTree ==
  /\ treeChanges < MaxTreeChanges /\ loop = "runs"
  /\ treeChanges' = treeChanges + 1
  /\ (\E f \in WatchedFile : ChangeFile(f)) \/ (\E d \in Dir : MakeDir(d) \/ RemoveDir(d))
  /\ UNCHANGED loopVars

-----------------------------------------------------------------------------
(* The loop.                                                               *)

\* The notice joins the pending change of its path.
Fold(i) ==
  /\ held[i].path = Head(inbox).path
  /\ held' = Append(SubSeq(held, 1, i - 1) \o SubSeq(held, i + 1, Len(held)),
                    [Head(inbox) EXCEPT !.op = @ \cup held[i].op])

\* Mutant: a full map drops its oldest change.
handleEventDrops ==
  /\ loop = "runs" /\ emitting = {} /\ inbox # <<>>
  /\ inbox' = Tail(inbox)
  /\ \/ \E i \in DOMAIN held : Fold(i)
     \/ /\ \A i \in DOMAIN held : held[i].path # Head(inbox).path
        /\ held' = Append(IF Len(held) >= maxPending THEN Tail(held) ELSE held, Head(inbox))
  /\ UNCHANGED <<treeVars, kernel, watched, emitting, loop, unreported>>

\* A notice for a path with no pending change is a change of its own; a full map
\* then gives its oldest one to be emitted.
handleEvent ==
  /\ loop = "runs" /\ emitting = {} /\ inbox # <<>>
  /\ inbox' = Tail(inbox)
  /\ \/ (\E i \in DOMAIN held : Fold(i)) /\ emitting' = {}
     \/ LET full == Len(held) >= maxPending
        IN /\ \A i \in DOMAIN held : held[i].path # Head(inbox).path
           /\ held' = Append(IF full THEN Tail(held) ELSE held, Head(inbox))
           /\ emitting' = IF full THEN {Head(held)} ELSE {}
  /\ UNCHANGED <<treeVars, kernel, watched, loop, unreported>>

\* The ticker: the changes that are old enough.
flush(n) ==
  /\ loop = "runs" /\ emitting = {}
  /\ emitting' = {held[i] : i \in 1..n}
  /\ held' = SubSeq(held, n + 1, Len(held))
  /\ UNCHANGED <<treeVars, kernel, inbox, watched, loop, unreported>>

\* Stop, or an error of the watcher: everything pending, and the loop ends.
LastFlush ==
  /\ loop = "runs" /\ emitting = {}
  /\ loop' = "last flush"
  /\ emitting' = {held[i] : i \in DOMAIN held} /\ held' = <<>>
  /\ UNCHANGED <<treeVars, kernel, inbox, watched, unreported>>

EndLoop ==
  /\ loop = "last flush" /\ emitting = {}
  /\ loop' = "ended"
  /\ UNCHANGED <<treeVars, kernel, inbox, watched, held, emitting, unreported>>

\* A file that exists: some kind for every op.  One that is gone: only if it was
\* removed or renamed.
EmitsEvent(change) == change.path \in tree \/ "Remove" \in change.op

emitFile(change) ==
  /\ change.path \in WatchedFile
  /\ unreported' = IF EmitsEvent(change) THEN unreported \ {change.path} ELSE unreported
  /\ UNCHANGED <<kernel, watched>>

\* A directory is watched if it is new and then, if it was removed in between,
\* not watched any more.  One that is gone stays in o.watched.
emitDir(change) ==
  LET d == change.path
      new == "Create" \in change.op /\ d \notin watched /\ Cardinality(watched) < maxDirs
      added == IF new THEN {d} ELSE {}
      dropped == IF "Remove" \in change.op THEN {d} ELSE {}
  IN /\ d \in Dir
     /\ IF d \in tree THEN /\ watched' = (watched \cup added) \ dropped
                           /\ kernel' = (kernel \cup added) \ dropped
                      ELSE UNCHANGED <<watched, kernel>>
     /\ UNCHANGED unreported

emitForPath ==
  /\ \E change \in emitting :
       /\ emitting' = emitting \ {change}
       /\ emitFile(change) \/ emitDir(change)
  /\ UNCHANGED <<treeVars, inbox, held, loop>>

ObserverNext ==
  \/ ChangeTree
  \/ handleEvent \/ LastFlush \/ EndLoop \/ emitForPath
  \/ \E n \in DOMAIN held : flush(n)
ObserverSpec == ObserverInit /\ [][ObserverNext]_observerVars

-----------------------------------------------------------------------------
(* Properties.                                                             *)

Mentions(changes, f) == \E i \in DOMAIN changes : changes[i].path = f

\* A change the observer was told of is never dropped: until an event follows it, it
\* is in the watcher's channel, pending or about to be emitted, however full the
\* pending map is, whatever becomes of the file meanwhile, and at the end too.
NoticesKept ==
  \A f \in unreported : Mentions(inbox, f) \/ Mentions(held, f) \/ \E c \in emitting : c.path = f
=============================================================================
