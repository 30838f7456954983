----------------------------- MODULE CodeIndex -----------------------------
(***************************************************************************)
(* CodeIndexService (internal/services/indexing.go): how the files of a    *)
(* project's workspace get into the graph.  Several calls of               *)
(* IndexRepository and IndexFiles may run at once (the daemon's worker and *)
(* the MCP tools share one service and no lock covers a call), and the     *)
(* files change while they run.                                            *)
(*                                                                         *)
(* Data abstraction.  A file's content is a version, 0 for "no such file"; *)
(* a version stands for its hash and for its symbols, which no other       *)
(* version has.  A SourceFile node holds a hash and a modification time.   *)
(* The reads and writes of a removal, and those of a file's symbols, are   *)
(* one step.  Edge resolution after a call is left out, and so are the     *)
(* limits MaxIndexFiles (truncation) and maxIndexFileBytes.                *)
(***************************************************************************)
EXTENDS Integers, FiniteSets

CONSTANTS
  File,          \* the source files of the project
  Call,          \* indexing calls that can run at the same time
  MaxVersion,    \* contents a file can have: 1..MaxVersion
  MaxEdits,      \* bound: changes made to the workspace
  GitRoot        \* the project root is a git work tree

ASSUME IndexAssumption ==
  MaxVersion \in Nat \ {0} /\ MaxEdits \in Nat /\ GitRoot \in BOOLEAN

Version == 1..MaxVersion
Absent == 0

VARIABLES
  content, ftime,   \* the workspace: content and modification time of a file
  staged,           \* the git index
  utc,              \* the local time zone is UTC: only then can a stored mtime
                    \* (UTC) be equal to a file's (local)
  hash, mtime,      \* the properties of a SourceFile node (hash 0: no node, or a
                    \* node without properties)
  defined,          \* defined[f]: versions whose symbols the node DEFINES
  orphans,          \* orphans[f]: versions whose symbols no node DEFINES
  parsed,           \* parseArtifactCache: the version parsed last
  edits,            \* clock: changes made so far
  job,              \* job[c]: the call's arguments and progress
  work              \* work[c][f]: what indexFile(f) is doing in call c

diskVars == <<content, ftime, staged, utc, edits>>
graphVars == <<hash, mtime, defined, orphans, parsed>>
indexVars == <<diskVars, graphVars, job, work>>

Job == [step : {"none", "repo", "files", "done"},
        incremental : BOOLEAN, \* the argument of that name
        byGit : BOOLEAN,       \* git has named the files
        all : SUBSET File,     \* files: what discoverFiles returned as all files
        seen : SUBSET File,    \* (history) the files that existed then
        began : Nat]           \* (history) when it looked
NoJob == [step |-> "none", incremental |-> FALSE, byGit |-> FALSE, all |-> {}, seen |-> {}, began |-> 0]

\* detached: the SourceFile node it writes under has been removed.
Work == [at : {"none", "todo", "parsed", "applying", "detached"},
         ver : 0..MaxVersion,          \* the content it has read
         prev : SUBSET Version]        \* the symbols defined before
NoWork == [at |-> "none", ver |-> 0, prev |-> {}]
Todo(S) == [f \in File |-> IF f \in S THEN [NoWork EXCEPT !.at = "todo"] ELSE NoWork]

IndexTypeOK ==
  /\ content \in [File -> 0..MaxVersion] /\ staged \in [File -> 0..MaxVersion]
  /\ utc \in BOOLEAN
  /\ ftime \in [File -> Nat] /\ mtime \in [File -> Nat] /\ edits \in Nat
  /\ hash \in [File -> 0..MaxVersion] /\ parsed \in [File -> 0..MaxVersion]
  /\ defined \in [File -> SUBSET Version] /\ orphans \in [File -> SUBSET Version]
  /\ job \in [Call -> Job] /\ work \in [Call -> [File -> Work]]
  /\ \A c \in Call, f \in File :
       work[c][f].at \in {"parsed", "applying", "detached"} => work[c][f].ver \in Version

\* The workspace has been indexed before, or never.
IndexInit ==
  /\ content \in [File -> {Absent, 1}]
  /\ staged \in {[f \in File |-> Absent]} \cup (IF GitRoot THEN {content} ELSE {})
  /\ utc \in BOOLEAN /\ ftime = [f \in File |-> 0] /\ mtime = ftime /\ edits = 0
  /\ hash \in {content, [f \in File |-> Absent]}
  /\ defined = [f \in File |-> {hash[f]} \ {Absent}]
  /\ orphans = [f \in File |-> {}]
  /\ parsed = [f \in File |-> Absent]
  /\ job = [c \in Call |-> NoJob] /\ work = [c \in Call |-> [f \in File |-> NoWork]]

-----------------------------------------------------------------------------
(* The workspace.                                                          *)

\* Somebody creates, changes, reverts or deletes a file.
Edit(f) ==
  /\ edits < MaxEdits
  /\ \E v \in (0..MaxVersion) \ {content[f]} : content' = [content EXCEPT ![f] = v]
  /\ edits' = edits + 1
  /\ ftime' = [ftime EXCEPT ![f] = edits']
  /\ UNCHANGED <<staged, utc, graphVars, job, work>>

\* git add --all.
Stage ==
  /\ GitRoot /\ staged # content
  /\ staged' = content
  /\ UNCHANGED <<content, ftime, utc, edits, graphVars, job, work>>

OnDisk == {f \in File : content[f] # Absent}

\* gitChangedFiles: "git diff --name-only", which also names deleted files; if
\* it prints nothing, the untracked files.
GitChanged ==
  LET changed == {f \in File : staged[f] # Absent /\ staged[f] # content[f]}
  IN  IF ~GitRoot THEN {}
      ELSE IF changed # {} THEN changed
      ELSE {f \in OnDisk : staged[f] = Absent}

\* discoverFiles' comparison with the graph.
ChangedOnDisk ==
  {f \in OnDisk : \/ hash[f] = Absent
                  \/ hash[f] # content[f] /\ ~(utc /\ mtime[f] = ftime[f])}

-----------------------------------------------------------------------------
(* Indexing calls.                                                         *)

\* The file nodes of S leave the graph, with the symbols they define; a call
\* that is applying one of these files does not notice.
Remove(S) ==
  /\ hash' = [f \in File |-> IF f \in S THEN Absent ELSE hash[f]]
  /\ defined' = [f \in File |-> IF f \in S THEN {} ELSE defined[f]]
  /\ UNCHANGED <<mtime, orphans, parsed>>
Detach(w, S) ==
  [c \in Call |-> [f \in File |->
     IF f \in S /\ w[c][f].at = "applying" THEN [w[c][f] EXCEPT !.at = "detached"]
     ELSE w[c][f]]]

Started(step, incremental, byGit, all) ==
  [step |-> step, incremental |-> incremental, byGit |-> byGit, all |-> all,
   seen |-> OnDisk, began |-> edits]

\* Mutant: only what changed counts as discovered.
BeginRepositoryChanged(c, incremental) ==
  /\ job[c].step = "none"
  /\ LET all == IF incremental /\ ChangedOnDisk # {} THEN ChangedOnDisk ELSE OnDisk
     IN  /\ job' = [job EXCEPT ![c] = Started("repo", incremental, FALSE, all)]
         /\ work' = [work EXCEPT ![c] = Todo(all)]
  /\ UNCHANGED <<diskVars, graphVars>>

\* Mutant: "All files unchanged, nothing to index".
BeginRepositoryNothing(c, incremental) ==
  /\ job[c].step = "none"
  /\ job' = [job EXCEPT ![c] = Started("repo", incremental, FALSE, OnDisk)]
  /\ work' = [work EXCEPT ![c] = Todo(IF incremental THEN ChangedOnDisk ELSE OnDisk)]
  /\ UNCHANGED <<diskVars, graphVars>>

\* IndexRepository up to the worker pool: what is changed according to git is
\* taken for all files; else the tree is walked and compared with the graph.
\* When nothing has changed every file is given to indexFile.
BeginRepository(c, incremental) ==
  /\ job[c].step = "none"
  /\ LET byGit == incremental /\ GitChanged # {}
         all == IF byGit THEN GitChanged ELSE OnDisk
         changed == IF byGit THEN GitChanged ELSE ChangedOnDisk
         chosen == IF incremental /\ changed # {} THEN changed ELSE all
     IN  /\ job' = [job EXCEPT ![c] = Started("repo", incremental, byGit, all)]
         /\ work' = [work EXCEPT ![c] = Todo(chosen)]
  /\ UNCHANGED <<diskVars, graphVars>>

\* IndexFiles up to the worker pool: a file that is gone is removed with its
\* symbols (removeFile).
BeginFiles(c, files) ==
  /\ job[c].step = "none"
  /\ Remove(files \ OnDisk)
  /\ job' = [job EXCEPT ![c] = Started("files", TRUE, FALSE, files)]
  /\ work' = [Detach(work, files \ OnDisk) EXCEPT ![c] = Todo(files \cap OnDisk)]
  /\ UNCHANGED diskVars

\* Mutant: a cached parse is applied whatever its hash.
ReadFileCached(c, f) ==
  /\ work[c][f].at = "todo"
  /\ LET v == IF parsed[f] # Absent THEN parsed[f] ELSE content[f]
     IN  IF content[f] = Absent
         THEN /\ work' = [work EXCEPT ![c][f] = NoWork]
              /\ UNCHANGED parsed
         ELSE /\ work' = [work EXCEPT ![c][f] = [NoWork EXCEPT !.at = "parsed", !.ver = v]]
              /\ parsed' = [parsed EXCEPT ![f] = v]
  /\ UNCHANGED <<diskVars, hash, mtime, defined, orphans, job>>

\* indexFile reads and parses a file.  What it cannot read it skips; what it
\* parsed last time it applies again; what the graph has it leaves.
ReadFile(c, f) ==
  /\ work[c][f].at = "todo"
  /\ LET v == content[f]
         cachehit == job[c].incremental /\ parsed[f] = v
         unchanged == ~cachehit /\ job[c].incremental /\ hash[f] = v
     IN  IF v = Absent \/ unchanged
         THEN /\ work' = [work EXCEPT ![c][f] = NoWork]
              /\ UNCHANGED parsed
         ELSE /\ work' = [work EXCEPT ![c][f] = [NoWork EXCEPT !.at = "parsed", !.ver = v]]
              /\ parsed' = [parsed EXCEPT ![f] = v]
  /\ UNCHANGED <<diskVars, hash, mtime, defined, orphans, job>>

\* applyParseArtifact notes the symbols defined so far, then writes the node,
\* with the time the file has now ...
ApplyFile(c, f) ==
  /\ work[c][f].at = "parsed"
  /\ work' = [work EXCEPT ![c][f] = [@ EXCEPT !.at = "applying", !.prev = defined[f]]]
  /\ hash' = [hash EXCEPT ![f] = work[c][f].ver]
  /\ mtime' = [mtime EXCEPT ![f] = IF content[f] = Absent THEN MaxEdits + 1 ELSE ftime[f]]
  /\ UNCHANGED <<diskVars, defined, orphans, parsed, job>>

\* Mutant: symbols that vanished stay.
ApplySymbolsKeepOld(c, f) ==
  /\ work[c][f].at \in {"applying", "detached"}
  /\ defined' = [defined EXCEPT ![f] = @ \cup {work[c][f].ver}]
  /\ work' = [work EXCEPT ![c][f] = NoWork]
  /\ UNCHANGED <<diskVars, hash, mtime, orphans, parsed, job>>

\* ... then the symbols, and removes those of the noted ones that vanished.
ApplySymbols(c, f) ==
  LET v == work[c][f].ver
      old == work[c][f].prev \ {v}
  IN  /\ \/ /\ work[c][f].at = "applying"
            /\ defined' = [defined EXCEPT ![f] = (@ \ old) \cup {v}]
            /\ orphans' = [orphans EXCEPT ![f] = @ \ (old \cup {v})]
         \/ /\ work[c][f].at = "detached"
            /\ defined' = [defined EXCEPT ![f] = @ \ old]
            /\ orphans' = [orphans EXCEPT ![f] = (@ \ old) \cup ({v} \ defined[f])]
      /\ work' = [work EXCEPT ![c][f] = NoWork]
      /\ UNCHANGED <<diskVars, hash, mtime, parsed, job>>

Indexed(c) == \A f \in File : work[c][f] = NoWork

\* IndexRepository removes the files of the graph that it did not discover.
RemoveMissing(c) ==
  /\ job[c].step = "repo" /\ Indexed(c)
  /\ Remove(File \ job[c].all)
  /\ work' = Detach(work, File \ job[c].all)
  /\ job' = [job EXCEPT ![c].step = "done"]
  /\ UNCHANGED diskVars

FilesIndexed(c) ==
  /\ job[c].step = "files" /\ Indexed(c)
  /\ job' = [job EXCEPT ![c].step = "done"]
  /\ UNCHANGED <<diskVars, graphVars, work>>

CallStep(c) ==
  \/ \E f \in File : ReadFile(c, f) \/ ApplyFile(c, f) \/ ApplySymbols(c, f)
  \/ RemoveMissing(c) \/ FilesIndexed(c)

\* The caller has its answer.
Return(c) ==
  /\ job[c].step = "done"
  /\ job' = [job EXCEPT ![c] = NoJob]
  /\ UNCHANGED <<diskVars, graphVars, work>>

IndexNext ==
  \/ \E f \in File : Edit(f)
  \/ Stage
  \/ \E c \in Call :
       \/ \E incremental \in BOOLEAN : BeginRepository(c, incremental)
       \/ \E files \in (SUBSET File) \ {{}} : BeginFiles(c, files)
       \/ CallStep(c) \/ Return(c)

IndexSpec == IndexInit /\ [][IndexNext]_indexVars

\* A call runs to its end, and a repository is indexed incrementally again and
\* again (the daemon's maintenanceLoop); nothing else is due.
FairIndexSpec ==
  /\ IndexSpec
  /\ \A c \in Call : WF_indexVars(CallStep(c)) /\ WF_indexVars(Return(c))
  /\ \A c \in Call : SF_indexVars(BeginRepository(c, TRUE))

-----------------------------------------------------------------------------
(* Properties.                                                             *)

\* With one call at a time the symbols of a file are those of the content whose
\* hash the graph holds: whatever changed, came or went while the call read and
\* wrote, no symbol of an older content stays and none is missing.
SymbolsMatchHash ==
  \A f \in File :
    (\A c \in Call : work[c][f].at \notin {"applying", "detached"}) =>
      defined[f] = {hash[f]} \ {Absent} /\ orphans[f] = {}

\* Call c removes f from the graph.
Removes(c, f) ==
  job[c].step = "repo" /\ job'[c].step = "done" /\ hash[f] # Absent /\ hash'[f] = Absent

\* A call that has walked the tree removes only files that were not there when
\* it looked, whatever it took for changed.
WalkRemovesOnlyMissing ==
  [][\A c \in Call, f \in File :
       Removes(c, f) /\ ~job[c].byGit => f \notin job[c].seen]_indexVars

\* "Handle deleted files (files that existed in graph but not on disk)"
\* (indexing.go:622), for every call.
OnlyMissingFilesRemoved ==
  [][\A c \in Call, f \in File : Removes(c, f) => f \notin job[c].seen]_indexVars

\* What a call has looked at and nobody has changed since is in the graph as it
\* is on disk when the call returns: neither the parse cache nor the skipping
\* of unchanged files leaves an older content behind.  (Incremental indexing of
\* a repository is left out where it goes by git or by modification times.)
CallBringsFilesUpToDate ==
  [][\A c \in Call :
       /\ job[c].step \in {"repo", "files"} /\ job'[c].step = "done"
       /\ job[c].step = "repo" /\ job[c].incremental => ~utc /\ ~job[c].byGit
       => \A f \in File :
            /\ job[c].step = "files" => f \in job[c].all
            /\ ftime[f] <= job[c].began
            => hash'[f] = content[f]]_indexVars

\* Once the workspace no longer changes and git sees no change in it, the graph
\* comes to hold exactly its files, with their present contents and symbols,
\* although equal modification times can hide a change.
GraphCatchesUp ==
  <>[](GitChanged = {}) =>
    <>[](/\ hash = content
         /\ \A f \in File : defined[f] = {content[f]} \ {Absent} /\ orphans[f] = {})
=============================================================================
