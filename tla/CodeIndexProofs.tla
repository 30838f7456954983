-------------------------- MODULE CodeIndexProofs --------------------------
(***************************************************************************)
(* CodeIndex is well typed, a call that does not run indexes nothing, and  *)
(* a call that walked the tree removes only what was missing, for every    *)
(* set of files and calls and every bound.  With one call at a time the    *)
(* symbols in the graph match its hashes, and the call leaves what it      *)
(* looked at as it is on disk.  Whatever was indexed in whatever order,    *)
(* the edges link what the present files mention.                          *)
(***************************************************************************)
EXTENDS CodeIndex, EdgeResolution, TLAPS

USE IndexAssumption

\* A call works on files only between its beginning and its last step.
Busy == \A c \in Call, f \in File :
          work[c][f].at # "none" => job[c].step \in {"repo", "files"}

IndexInv == IndexTypeOK /\ Busy

\* Files to do and nothing else: the start of a call's pool (indexing.go).
LEMMA TodoType ==
  ASSUME NEW S
  PROVE  /\ Todo(S) \in [File -> Work]
         /\ \A f \in File : Todo(S)[f].at \in {"none", "todo"}
BY DEF Todo, NoWork, Work

\* removeFile keeps the graph's properties well typed.
LEMMA RemoveType ==
  ASSUME IndexTypeOK, NEW S, Remove(S)
  PROVE  /\ hash' \in [File -> 0..MaxVersion] /\ mtime' \in [File -> Nat]
         /\ defined' \in [File -> SUBSET Version] /\ orphans' \in [File -> SUBSET Version]
         /\ parsed' \in [File -> 0..MaxVersion]
BY DEF Remove, IndexTypeOK, Absent

\* Removing files under a call that applies them changes neither what it has
\* read nor whether it is busy.
LEMMA DetachType ==
  ASSUME IndexTypeOK, NEW S
  PROVE  /\ Detach(work, S) \in [Call -> [File -> Work]]
         /\ \A c \in Call, f \in File :
              /\ Detach(work, S)[c][f].ver = work[c][f].ver
              /\ Detach(work, S)[c][f].at = "none" <=> work[c][f].at = "none"
              /\ Detach(work, S)[c][f].at \in {"parsed", "applying", "detached"}
                   <=> work[c][f].at \in {"parsed", "applying", "detached"}
<1>1. ASSUME NEW c \in Call, NEW f \in File
      PROVE  LET w == Detach(work, S)[c][f]
             IN  /\ w \in Work /\ w.ver = work[c][f].ver
                 /\ w.at = work[c][f].at \/ (work[c][f].at = "applying" /\ w.at = "detached")
  <2>1. work[c][f] \in Work
    BY DEF IndexTypeOK
  <2>2. CASE f \in S /\ work[c][f].at = "applying"
    <3>1. Detach(work, S)[c][f] = [work[c][f] EXCEPT !.at = "detached"]
      BY <2>2 DEF Detach
    <3>2. QED BY <2>1, <2>2, <3>1 DEF Work
  <2>3. CASE ~(f \in S /\ work[c][f].at = "applying")
    <3>1. Detach(work, S)[c][f] = work[c][f]
      BY <2>3 DEF Detach
    <3>2. QED BY <2>1, <3>1
  <2>4. QED BY <2>2, <2>3
<1>2. Detach(work, S) \in [Call -> [File -> Work]]
  <2>1. Detach(work, S) = [c \in Call |-> [f \in File |-> Detach(work, S)[c][f]]]
    BY DEF Detach
  <2>2. QED BY <1>1, <2>1
<1>3. QED BY <1>1, <1>2

\* The first state is well typed and idle.
LEMMA IndexInitInv == IndexInit => IndexInv
<1>. SUFFICES ASSUME IndexInit PROVE IndexInv
  OBVIOUS
<1>1. content \in [File -> 0..MaxVersion] /\ staged \in [File -> 0..MaxVersion]
  BY DEF IndexInit, Absent
<1>2. hash \in [File -> 0..MaxVersion] /\ parsed \in [File -> 0..MaxVersion]
  BY <1>1 DEF IndexInit, Absent
<1>3. defined \in [File -> SUBSET Version] /\ orphans \in [File -> SUBSET Version]
  BY <1>2 DEF IndexInit, Absent, Version
<1>4. job \in [Call -> Job] /\ work \in [Call -> [File -> Work]]
  BY DEF IndexInit, NoJob, Job, NoWork, Work
<1>5. \A c \in Call, f \in File : work[c][f].at = "none"
  BY DEF IndexInit, NoWork
<1>6. QED BY <1>1, <1>2, <1>3, <1>4, <1>5 DEF IndexInv, IndexTypeOK, Busy, IndexInit

\* A step of a call on one file.
LEMMA FileStepInv ==
  ASSUME IndexInv, NEW c \in Call, NEW f \in File,
         ReadFile(c, f) \/ ApplyFile(c, f) \/ ApplySymbols(c, f)
  PROVE  IndexInv'
<1>. USE DEF IndexInv, IndexTypeOK, Busy, diskVars
<1>1. CASE ReadFile(c, f)
  <2>1. parsed' \in [File -> 0..MaxVersion]
    BY <1>1 DEF ReadFile
  <2>2. PICK w \in Work : /\ work' = [work EXCEPT ![c][f] = w]
                          /\ w.at \in {"none", "parsed"}
                          /\ w.at = "parsed" => w.ver \in Version
    <3>1. NoWork \in Work /\ NoWork.at = "none"
      BY DEF NoWork, Work
    <3>2. ASSUME content[f] # Absent
          PROVE  LET w == [NoWork EXCEPT !.at = "parsed", !.ver = content[f]]
                 IN  w \in Work /\ w.at = "parsed" /\ w.ver \in Version
      <4>1. content[f] \in Version /\ content[f] \in 0..MaxVersion
        BY <3>2 DEF Version, Absent
      <4>2. NoWork \in Work
        BY <3>1
      <4>3. QED BY <4>1, <4>2 DEF Work
    <3>3. QED BY <1>1, <3>1, <3>2 DEF ReadFile
  <2>3. job[c].step \in {"repo", "files"}
    BY <1>1 DEF ReadFile
  <2>4. QED BY <1>1, <2>1, <2>2, <2>3 DEF ReadFile
<1>2. CASE ApplyFile(c, f)
  <2>1. work[c][f].ver \in 0..MaxVersion /\ defined[f] \in SUBSET Version /\ work[c][f].ver \in Version
    BY <1>2 DEF ApplyFile, Work
  <2>2. work' \in [Call -> [File -> Work]]
    <3>1. PICK w \in Work : work' = [work EXCEPT ![c][f] = w]
      <4>1. work[c][f] \in Work
        OBVIOUS
      <4>2. [work[c][f] EXCEPT !.at = "applying", !.prev = defined[f]] \in Work
        BY <2>1, <4>1 DEF Work
      <4>3. work' = [work EXCEPT ![c][f] =
                       [work[c][f] EXCEPT !.at = "applying", !.prev = defined[f]]]
        BY <1>2 DEF ApplyFile
      <4>4. QED BY <4>2, <4>3
    <3>2. QED BY <3>1
  <2>3. mtime' \in [File -> Nat] /\ hash' \in [File -> 0..MaxVersion]
    BY <1>2, <2>1 DEF ApplyFile
  <2>4. \A d \in Call, g \in File :
          /\ work'[d][g].ver = work[d][g].ver
          /\ work'[d][g].at = IF d = c /\ g = f THEN "applying" ELSE work[d][g].at
    BY <1>2 DEF ApplyFile, Work
  <2>5. QED BY <1>2, <2>1, <2>2, <2>3, <2>4 DEF ApplyFile
<1>3. CASE ApplySymbols(c, f)
  <2>1. work[c][f].ver \in Version /\ work[c][f].prev \in SUBSET Version
    BY <1>3 DEF ApplySymbols, Work
  <2>2. defined' \in [File -> SUBSET Version] /\ orphans' \in [File -> SUBSET Version]
    <3>1. PICK D \in SUBSET Version, O \in SUBSET Version :
            defined' = [defined EXCEPT ![f] = D] /\ orphans' = [orphans EXCEPT ![f] = O]
      <4>1. defined[f] \in SUBSET Version /\ orphans[f] \in SUBSET Version
        OBVIOUS
      <4> DEFINE v == work[c][f].ver
                 old == work[c][f].prev \ {v}
      <4>2. CASE work[c][f].at = "applying"
        <5>1. /\ defined' = [defined EXCEPT ![f] = (defined[f] \ old) \cup {v}]
              /\ orphans' = [orphans EXCEPT ![f] = orphans[f] \ (old \cup {v})]
          BY <1>3, <4>2 DEF ApplySymbols
        <5>2. QED BY <2>1, <4>1, <5>1, Zenon
      <4>3. CASE work[c][f].at = "detached"
        <5>1. /\ defined' = [defined EXCEPT ![f] = defined[f] \ old]
              /\ orphans' = [orphans EXCEPT ![f] = (orphans[f] \ old) \cup ({v} \ defined[f])]
          BY <1>3, <4>3 DEF ApplySymbols
        <5>2. QED BY <2>1, <4>1, <5>1, Zenon
      <4>4. QED BY <1>3, <4>2, <4>3 DEF ApplySymbols
    <3>2. QED BY <3>1
  <2>3. work' \in [Call -> [File -> Work]]
    BY <1>3 DEF ApplySymbols, NoWork, Work
  <2>4. \A d \in Call, g \in File :
          work'[d][g] = IF d = c /\ g = f THEN NoWork ELSE work[d][g]
    BY <1>3 DEF ApplySymbols
  <2>5. Busy'
    BY <1>3, <2>4 DEF ApplySymbols, NoWork
  <2>6. \A d \in Call, g \in File :
          work'[d][g].at \in {"parsed", "applying", "detached"} => work'[d][g].ver \in Version
    BY <2>4 DEF NoWork
  <2>7. UNCHANGED <<content, ftime, staged, utc, edits, hash, mtime, parsed, job>>
    BY <1>3 DEF ApplySymbols
  <2>8. QED BY <2>2, <2>3, <2>5, <2>6, <2>7
<1>4. QED BY <1>1, <1>2, <1>3

\* A call begins.
LEMMA BeginInv ==
  ASSUME IndexInv, NEW c \in Call,
         \/ \E incremental \in BOOLEAN : BeginRepository(c, incremental)
         \/ \E files \in SUBSET File : BeginFiles(c, files)
  PROVE  IndexInv'
<1>. USE DEF IndexInv, IndexTypeOK, Busy, diskVars
<1>1. ASSUME NEW incremental \in BOOLEAN, BeginRepository(c, incremental) PROVE IndexInv'
  <2> DEFINE byGit == incremental /\ GitChanged # {}
             all == IF byGit THEN GitChanged ELSE OnDisk
             differing == IF byGit THEN GitChanged ELSE ChangedOnDisk
             chosen == IF incremental /\ differing # {} THEN differing ELSE all
  <2>1. /\ job' = [job EXCEPT ![c] = Started("repo", incremental, byGit, all)]
        /\ work' = [work EXCEPT ![c] = Todo(chosen)]
    BY <1>1, Zenon DEF BeginRepository
  <2>2. Started("repo", incremental, byGit, all) \in Job
    <3>1. all \in SUBSET File /\ OnDisk \in SUBSET File /\ edits \in Nat
      BY DEF OnDisk, GitChanged
    <3>2. byGit \in BOOLEAN
      BY Zenon
    <3>. HIDE DEF byGit, all
    <3>3. QED BY <3>1, <3>2, Zenon DEF Started, Job
  <2>3. Started("repo", incremental, byGit, all).step = "repo"
    BY DEF Started
  <2>4. job' \in [Call -> Job] /\ work' \in [Call -> [File -> Work]]
    BY <2>1, <2>2, TodoType
  <2>5. \A d \in Call, f \in File : IF d = c THEN work'[d][f].at \in {"none", "todo"}
                                   ELSE work'[d][f] = work[d][f] /\ job'[d] = job[d]
    BY <2>1, TodoType
  <2>6. job'[c].step = "repo"
    BY <2>1, <2>3
  <2>. HIDE DEF byGit, all, chosen
  <2>7. Busy'
    <3>1. ASSUME NEW d \in Call, NEW f \in File, work'[d][f].at # "none"
          PROVE  job'[d].step \in {"repo", "files"}
      <4>1. CASE d = c BY <2>6, <4>1
      <4>2. CASE d # c BY <2>5, <3>1, <4>2
      <4>3. QED BY <4>1, <4>2
    <3>2. QED BY <3>1
  <2>8. IndexTypeOK'
    BY <1>1, <2>4, <2>5 DEF BeginRepository, graphVars
  <2>9. QED BY <2>7, <2>8
<1>2. ASSUME NEW files \in SUBSET File, BeginFiles(c, files) PROVE IndexInv'
  <2>1. PICK gone \in SUBSET File, here \in SUBSET File :
          /\ Remove(gone)
          /\ job' = [job EXCEPT ![c] = Started("files", TRUE, FALSE, files)]
          /\ work' = [Detach(work, gone) EXCEPT ![c] = Todo(here)]
    BY <1>2 DEF BeginFiles
  <2>2. Started("files", TRUE, FALSE, files) \in Job
    BY DEF Started, Job, OnDisk
  <2>3. Started("files", TRUE, FALSE, files).step = "files"
    BY DEF Started
  <2>4. job' \in [Call -> Job] /\ work' \in [Call -> [File -> Work]]
    BY <2>1, <2>2, TodoType, DetachType
  <2>5. \A d \in Call, f \in File :
          IF d = c THEN work'[d][f].at \in {"none", "todo"}
          ELSE work'[d][f] = Detach(work, gone)[d][f] /\ job'[d] = job[d]
    BY <2>1, TodoType, DetachType
  <2>6. job'[c].step = "files"
    BY <2>1, <2>3
  <2>7. \A d \in Call, f \in File :
          LET w == Detach(work, gone)[d][f]
          IN  /\ w.ver = work[d][f].ver /\ (w.at = "none" <=> work[d][f].at = "none")
              /\ w.at \in {"parsed", "applying", "detached"}
                   <=> work[d][f].at \in {"parsed", "applying", "detached"}
    BY DetachType
  <2>8. /\ Busy'
        /\ \A d \in Call, f \in File :
             work'[d][f].at \in {"parsed", "applying", "detached"} => work'[d][f].ver \in Version
    <3>1. ASSUME NEW d \in Call, NEW f \in File
          PROVE  /\ work'[d][f].at # "none" => job'[d].step \in {"repo", "files"}
                 /\ work'[d][f].at \in {"parsed", "applying", "detached"}
                      => work'[d][f].ver \in Version
      <4>1. CASE d = c
        BY <2>5, <2>6, <4>1
      <4>2. CASE d # c
        <5>1. work'[d][f] = Detach(work, gone)[d][f] /\ job'[d] = job[d]
          BY <2>5, <4>2
        <5>2. work[d][f].at # "none" => job[d].step \in {"repo", "files"}
          OBVIOUS
        <5>3. QED BY <2>7, <5>1, <5>2
      <4>3. QED BY <4>1, <4>2
    <3>2. QED BY <3>1
  <2>9. IndexTypeOK'
    BY <1>2, <2>1, <2>4, <2>8, RemoveType DEF BeginFiles
  <2>10. QED BY <2>8, <2>9
<1>3. QED BY <1>1, <1>2

\* A call that has finished is still a well-typed call.
LEMMA DoneType ==
  ASSUME IndexTypeOK, NEW c \in Call
  PROVE  [job EXCEPT ![c].step = "done"] \in [Call -> Job]
<1>1. job[c] \in Job /\ job \in [Call -> Job]
  BY DEF IndexTypeOK
<1>2. [job[c] EXCEPT !.step = "done"] \in Job
  BY <1>1 DEF Job
<1>3. QED BY <1>1, <1>2

\* A call ends.
LEMMA EndInv ==
  ASSUME IndexInv, NEW c \in Call, RemoveMissing(c) \/ FilesIndexed(c) \/ Return(c)
  PROVE  IndexInv'
<1>. USE DEF IndexInv, IndexTypeOK, Busy, diskVars, graphVars
<1>1. CASE RemoveMissing(c)
  <2>1. PICK gone : Remove(gone) /\ work' = Detach(work, gone)
    BY <1>1 DEF RemoveMissing
  <2>2. job' \in [Call -> Job]
    BY <1>1, DoneType DEF RemoveMissing
  <2>3. \A d \in Call : d # c => job'[d] = job[d]
    BY <1>1 DEF RemoveMissing
  <2>4. \A f \in File : work[c][f].at = "none"
    BY <1>1 DEF RemoveMissing, Indexed, NoWork
  <2>5. Busy'
    <3>1. \A d \in Call, f \in File : work'[d][f].at = "none" <=> work[d][f].at = "none"
      BY <2>1, DetachType
    <3>2. QED BY <2>3, <2>4, <3>1
  <2>6. /\ work' \in [Call -> [File -> Work]]
        /\ \A d \in Call, f \in File :
             work'[d][f].at \in {"parsed", "applying", "detached"} => work'[d][f].ver \in Version
    BY <2>1, DetachType
  <2>7. IndexTypeOK'
    BY <1>1, <2>1, <2>2, <2>6, RemoveType DEF RemoveMissing
  <2>8. QED BY <2>5, <2>7
<1>2. CASE FilesIndexed(c)
  <2>1. job' \in [Call -> Job]
    BY <1>2, DoneType DEF FilesIndexed
  <2>2. \A f \in File : work[c][f].at = "none"
    BY <1>2 DEF FilesIndexed, Indexed, NoWork
  <2>3. QED BY <1>2, <2>1, <2>2 DEF FilesIndexed
<1>3. CASE Return(c)
  <2>1. NoJob \in Job
    BY DEF NoJob, Job
  <2>2. job' \in [Call -> Job]
    BY <1>3, <2>1 DEF Return
  <2>3. QED BY <1>3, <2>2 DEF Return
<1>4. QED BY <1>1, <1>2, <1>3

\* Every step keeps the invariant.
LEMMA IndexStepInv == IndexInv /\ [IndexNext]_indexVars => IndexInv'
<1>. SUFFICES ASSUME IndexInv, [IndexNext]_indexVars PROVE IndexInv'
  OBVIOUS
<1>1. ASSUME NEW f \in File, Edit(f) PROVE IndexInv'
  BY <1>1 DEF Edit, IndexInv, IndexTypeOK, Busy, graphVars
<1>2. CASE Stage
  BY <1>2 DEF Stage, IndexInv, IndexTypeOK, Busy, graphVars
<1>3. ASSUME NEW c \in Call, CallStep(c) PROVE IndexInv'
  BY <1>3, FileStepInv, EndInv DEF CallStep
<1>4. CASE UNCHANGED indexVars
  BY <1>4 DEF IndexInv, IndexTypeOK, Busy, indexVars, diskVars, graphVars
<1>5. QED BY <1>1, <1>2, <1>3, <1>4, BeginInv, EndInv DEF IndexNext

\* IndexInv holds in every reachable state of CodeIndex.
THEOREM IndexInvariance == IndexSpec => []IndexInv
BY IndexInitInv, IndexStepInv, PTL DEF IndexSpec

\* The properties of file nodes, the progress of calls and what they have read
\* stay well typed: above all, no call ever applies the content "no such file".
THEOREM IndexTypeCorrect == IndexSpec => []IndexTypeOK
BY IndexInvariance, PTL DEF IndexInv

-----------------------------------------------------------------------------
(* What a walk of the tree removes.                                        *)

\* A call that does not go by git has all files for all files.
WalkInv == \A c \in Call :
             job[c].step = "repo" /\ ~job[c].byGit => job[c].all = job[c].seen

\* What the calls do to job.
LEMMA JobSteps ==
  ASSUME IndexInv, [IndexNext]_indexVars, NEW c \in Call
  PROVE  \/ job'[c] = job[c]
         \/ job[c].step = "none" /\ ((\E i \in BOOLEAN : BeginRepository(c, i))
                                     \/ \E files \in SUBSET File : BeginFiles(c, files))
         \/ job'[c] = [job[c] EXCEPT !.step = "done"] /\ (RemoveMissing(c) \/ FilesIndexed(c))
         \/ job'[c] = NoJob
<1>1. job \in [Call -> Job]
  BY DEF IndexInv, IndexTypeOK
<1>2. ASSUME NEW d \in Call, NEW i \in BOOLEAN, BeginRepository(d, i) PROVE d = c \/ job'[c] = job[c]
  BY <1>1, <1>2 DEF BeginRepository
<1>3. ASSUME NEW d \in Call, NEW files \in SUBSET File, BeginFiles(d, files) PROVE d = c \/ job'[c] = job[c]
  BY <1>1, <1>3 DEF BeginFiles
<1>4. ASSUME NEW d \in Call, CallStep(d)
      PROVE  job'[c] = job[c] \/ (d = c /\ job'[c] = [job[c] EXCEPT !.step = "done"]
                                       /\ (RemoveMissing(c) \/ FilesIndexed(c)))
  <2>1. CASE RemoveMissing(d) \/ FilesIndexed(d)
    BY <1>1, <2>1 DEF RemoveMissing, FilesIndexed
  <2>2. CASE \E f \in File : ReadFile(d, f) \/ ApplyFile(d, f) \/ ApplySymbols(d, f)
    BY <2>2 DEF ReadFile, ApplyFile, ApplySymbols
  <2>3. QED BY <1>4, <2>1, <2>2 DEF CallStep
<1>5. ASSUME NEW d \in Call, Return(d) PROVE job'[c] = job[c] \/ job'[c] = NoJob
  BY <1>1, <1>5 DEF Return
<1>6. CASE (\E f \in File : Edit(f)) \/ Stage \/ UNCHANGED indexVars
  BY <1>6 DEF Edit, Stage, indexVars
<1>7. (\E i \in BOOLEAN : BeginRepository(c, i)) \/ (\E files \in SUBSET File : BeginFiles(c, files))
        => job[c].step = "none"
  BY DEF BeginRepository, BeginFiles
<1>8. QED BY <1>2, <1>3, <1>4, <1>5, <1>6, <1>7 DEF IndexNext

LEMMA WalkStep == IndexInv /\ WalkInv /\ [IndexNext]_indexVars => WalkInv'
<1>. SUFFICES ASSUME IndexInv, WalkInv, [IndexNext]_indexVars, NEW c \in Call,
                     job'[c].step = "repo", ~job'[c].byGit
              PROVE  job'[c].all = job'[c].seen
  BY DEF WalkInv
<1>1. job \in [Call -> Job]
  BY DEF IndexInv, IndexTypeOK
<1>2. ASSUME NEW i \in BOOLEAN, BeginRepository(c, i) PROVE job'[c].all = job'[c].seen
  <2>. DEFINE byGit == i /\ GitChanged # {}
  <2>1. job'[c] = Started("repo", i, byGit, IF byGit THEN GitChanged ELSE OnDisk)
    BY <1>1, <1>2 DEF BeginRepository
  <2>2. ~ byGit /\ job'[c].all = (IF byGit THEN GitChanged ELSE OnDisk) /\ job'[c].seen = OnDisk
    BY <2>1 DEF Started
  <2>3. QED BY <2>2
<1>3. ASSUME NEW files \in SUBSET File, BeginFiles(c, files) PROVE FALSE
  BY <1>1, <1>3 DEF BeginFiles, Started
<1>4. CASE job'[c] = job[c]
  BY <1>4 DEF WalkInv
<1>5. CASE job'[c] = [job[c] EXCEPT !.step = "done"] \/ job'[c] = NoJob
  BY <1>1, <1>5 DEF Job, NoJob
<1>6. QED BY <1>2, <1>3, <1>4, <1>5, JobSteps, Zenon

\* A call of IndexRepository that walked the tree removes only files that were not
\* there when it looked (indexing.go:622), however many calls run at once.
THEOREM WalkRemovesMissing == IndexSpec => WalkRemovesOnlyMissing
<1>1. IndexInit => WalkInv
  BY DEF IndexInit, NoJob, WalkInv
<1>2. ASSUME IndexInv, WalkInv, [IndexNext]_indexVars, NEW c \in Call, NEW f \in File,
             Removes(c, f), ~job[c].byGit
      PROVE  f \notin job[c].seen
  <2>1. RemoveMissing(c) \/ FilesIndexed(c)
    <3>1. job[c].step = "repo" /\ job'[c].step = "done" /\ NoJob.step = "none"
      BY <1>2 DEF Removes, NoJob
    <3>2. job'[c] # job[c] /\ job[c].step # "none" /\ job'[c] # NoJob
      BY <3>1
    <3>3. QED BY <3>2, <1>2, JobSteps, Zenon
  <2>2. f \notin job[c].all
    BY <1>2, <2>1 DEF Removes, RemoveMissing, FilesIndexed, Remove, graphVars
  <2>3. QED BY <1>2, <2>2 DEF Removes, WalkInv
<1>3. IndexInv /\ WalkInv /\ [IndexNext]_indexVars
        => [\A c \in Call, f \in File :
              Removes(c, f) /\ ~job[c].byGit => f \notin job[c].seen]_indexVars
  BY <1>2
<1>4. QED BY <1>1, <1>3, WalkStep, IndexInvariance, PTL DEF IndexSpec, WalkRemovesOnlyMissing

-----------------------------------------------------------------------------
(* One call at a time.                                                     *)

OneCall == \A c, d \in Call : c = d

\* A file's symbols match its hash, except while a call is between writing the
\* two: then the old ones are those it has noted.
SymbolsHashed ==
  \A f \in File :
    /\ (\A c \in Call : work[c][f].at # "applying") => defined[f] = {hash[f]} \ {Absent} /\ orphans[f] = {}
    /\ \A c \in Call :
         /\ work[c][f].at # "detached"
         /\ work[c][f].at = "applying" =>
              hash[f] = work[c][f].ver /\ defined[f] = work[c][f].prev /\ orphans[f] = {}

\* Call c answers for f: it looks at it, by its content, and nobody has changed
\* it since the call began.
Answers(c, f) ==
  /\ job[c].step \in {"repo", "files"}
  /\ job[c].step = "files" => f \in job[c].all
  /\ job[c].step = "repo" /\ job[c].incremental => ~utc /\ ~job[c].byGit
  /\ ftime[f] <= job[c].began

\* Wherever the call is with such a file, it goes by the present content.
UpToDate == \A c \in Call :
  /\ job[c].began <= edits
  /\ \A f \in File : Answers(c, f) =>
       /\ work[c][f].at = "todo" => content[f] # Absent
       /\ work[c][f].at \in {"parsed", "applying"} => work[c][f].ver = content[f]
       /\ work[c][f].at \in {"none", "applying"} /\ f \in job[c].all => hash[f] = content[f]
       /\ f \notin job[c].all => content[f] = Absent

\* A call that has not begun or has finished with all files is nowhere with any
\* of them, so that nothing is removed under it.
LEMMA AtRest ==
  ASSUME IndexInv, NEW c \in Call, job[c].step \notin {"repo", "files"} \/ Indexed(c)
  PROVE  \A f \in File : work[c][f].at = "none"
BY DEF IndexInv, Busy, Indexed, NoWork

LEMMA DetachAtRest ==
  ASSUME OneCall, NEW c \in Call, \A f \in File : work[c][f].at = "none", NEW S
  PROVE  \A d \in Call, f \in File : Detach(work, S)[d][f] = work[d][f]
<1>1. \A d \in Call, f \in File : work[d][f].at # "applying"
  BY DEF OneCall
<1>2. QED BY <1>1 DEF Detach

\* What a beginning call does to job and work.
LEMMA Begins ==
  ASSUME OneCall, IndexInv, NEW c \in Call,
         \/ \E i \in BOOLEAN : BeginRepository(c, i)
         \/ \E files \in SUBSET File : BeginFiles(c, files)
  PROVE  \A d \in Call, f \in File : work[d][f].at = "none" /\ work'[d][f].at \in {"none", "todo"}
<1>1. job[c].step = "none" /\ work \in [Call -> [File -> Work]]
  BY DEF BeginRepository, BeginFiles, IndexInv, IndexTypeOK
<1>2. \A f \in File : work[c][f].at = "none"
  BY <1>1, AtRest
<1>3. \E S : work'[c] = Todo(S)
  <2>1. ASSUME NEW i \in BOOLEAN, BeginRepository(c, i) PROVE \E S : work'[c] = Todo(S)
    BY <1>1, <2>1 DEF BeginRepository
  <2>2. ASSUME NEW files \in SUBSET File, BeginFiles(c, files) PROVE \E S : work'[c] = Todo(S)
    <3>1. Detach(work, files \ OnDisk) \in [Call -> [File -> Work]]
      BY DetachType DEF IndexInv
    <3>2. QED BY <2>2, <3>1 DEF BeginFiles
  <2>3. QED BY <2>1, <2>2
<1>4. \A f \in File : work'[c][f].at \in {"none", "todo"}
  BY <1>3, TodoType
<1>5. QED BY <1>2, <1>4 DEF OneCall

\* A step on one file leaves the work on the others, and moves on with this one.
LEMMA FileStepWork ==
  ASSUME IndexInv, NEW c \in Call, NEW f \in File,
         ReadFile(c, f) \/ ApplyFile(c, f) \/ ApplySymbols(c, f)
  PROVE  /\ \A d \in Call, g \in File : d # c \/ g # f => work'[d][g] = work[d][g]
         /\ \A g \in File : g # f => hash'[g] = hash[g] /\ defined'[g] = defined[g]
                                   /\ orphans'[g] = orphans[g]
         /\ job' = job /\ content' = content /\ ftime' = ftime /\ utc' = utc /\ edits' = edits
<1>1. work \in [Call -> [File -> Work]] /\ hash \in [File -> 0..MaxVersion]
      /\ defined \in [File -> SUBSET Version] /\ orphans \in [File -> SUBSET Version]
  BY DEF IndexInv, IndexTypeOK
<1>2. CASE ReadFile(c, f) BY <1>1, <1>2 DEF ReadFile, diskVars
<1>3. CASE ApplyFile(c, f) BY <1>1, <1>3 DEF ApplyFile, diskVars
<1>4. CASE ApplySymbols(c, f) BY <1>1, <1>4 DEF ApplySymbols, diskVars
<1>5. QED BY <1>2, <1>3, <1>4

\* ... as far as the code gets with it.
LEMMA ReadSteps ==
  ASSUME IndexInv, NEW c \in Call, NEW f \in File, ReadFile(c, f)
  PROVE  /\ work[c][f].at = "todo"
         /\ \/ work'[c][f].at = "none" /\ (content[f] = Absent \/ hash[f] = content[f])
            \/ work'[c][f].at = "parsed" /\ work'[c][f].ver = content[f]
         /\ UNCHANGED <<hash, defined, orphans>>
<1>. DEFINE w == [NoWork EXCEPT !.at = "parsed", !.ver = content[f]]
<1>1. work \in [Call -> [File -> Work]] /\ NoWork.at = "none" /\ w.at = "parsed" /\ w.ver = content[f]
  BY DEF IndexInv, IndexTypeOK, NoWork
<1>2. \/ work' = [work EXCEPT ![c][f] = NoWork] /\ (content[f] = Absent \/ hash[f] = content[f])
      \/ work' = [work EXCEPT ![c][f] = w]
  BY DEF ReadFile
<1>. HIDE DEF w
<1>3. work[c][f].at = "todo" /\ UNCHANGED <<hash, defined, orphans>>
  BY DEF ReadFile
<1>4. QED BY <1>1, <1>2, <1>3

LEMMA ApplySteps ==
  ASSUME IndexInv, NEW c \in Call, NEW f \in File, ApplyFile(c, f)
  PROVE  /\ work[c][f].at = "parsed" /\ work'[c][f].at = "applying"
         /\ work'[c][f].ver = work[c][f].ver /\ work'[c][f].prev = defined[f]
         /\ hash'[f] = work[c][f].ver
         /\ UNCHANGED <<defined, orphans>>
<1>1. work \in [Call -> [File -> Work]] /\ work[c][f] \in Work /\ hash \in [File -> 0..MaxVersion]
  BY DEF IndexInv, IndexTypeOK
<1>2. work'[c][f] = [work[c][f] EXCEPT !.at = "applying", !.prev = defined[f]]
  BY <1>1 DEF ApplyFile
<1>3. QED BY <1>1, <1>2 DEF ApplyFile, Work

LEMMA SymbolSteps ==
  ASSUME IndexInv, NEW c \in Call, NEW f \in File, ApplySymbols(c, f), work[c][f].at # "detached"
  PROVE  LET v == work[c][f].ver
             old == work[c][f].prev \ {v}
         IN  /\ work[c][f].at = "applying" /\ work'[c][f].at = "none"
             /\ defined'[f] = (defined[f] \ old) \cup {v}
             /\ orphans'[f] = orphans[f] \ (old \cup {v})
             /\ hash' = hash
<1>1. work \in [Call -> [File -> Work]] /\ NoWork.at = "none"
      /\ defined \in [File -> SUBSET Version] /\ orphans \in [File -> SUBSET Version]
  BY DEF IndexInv, IndexTypeOK, NoWork
<1>2. QED BY <1>1 DEF ApplySymbols

\* What is removed has neither hash nor symbols.
LEMMA Removing ==
  ASSUME NEW S, Remove(S)
  PROVE  /\ orphans' = orphans
         /\ \A f \in File : \/ f \in S /\ hash'[f] = Absent /\ defined'[f] = {}
                            \/ f \notin S /\ hash'[f] = hash[f] /\ defined'[f] = defined[f]
BY DEF Remove

LEMMA SymbolsStep == ASSUME OneCall, IndexInv, SymbolsHashed, [IndexNext]_indexVars PROVE SymbolsHashed'
<1>. DEFINE Match(f) == defined[f] = {hash[f]} \ {Absent} /\ orphans[f] = {}
            Noted(c, f) == hash[f] = work[c][f].ver /\ defined[f] = work[c][f].prev /\ orphans[f] = {}
<1>1. CASE \/ (\E f \in File : Edit(f)) \/ Stage \/ (\E c \in Call : Return(c) \/ FilesIndexed(c))
           \/ UNCHANGED indexVars
  <2>1. UNCHANGED <<work, hash, defined, orphans>>
    BY <1>1 DEF Edit, Stage, Return, FilesIndexed, indexVars, graphVars
  <2>2. QED BY <2>1 DEF SymbolsHashed
<1>2. ASSUME NEW c \in Call, NEW i \in BOOLEAN, BeginRepository(c, i) PROVE SymbolsHashed'
  <2>1. UNCHANGED <<hash, defined, orphans>>
    BY <1>2 DEF BeginRepository, graphVars
  <2>2. QED BY <1>2, <2>1, Begins DEF SymbolsHashed
<1>3. ASSUME NEW c \in Call, NEW files \in SUBSET File, BeginFiles(c, files) PROVE SymbolsHashed'
  <2>1. \A d \in Call, f \in File : work[d][f].at = "none" /\ work'[d][f].at \in {"none", "todo"}
    BY <1>3, Begins
  <2>2. Remove(files \ OnDisk)
    BY <1>3 DEF BeginFiles
  <2>3. QED BY <2>1, <2>2, Removing DEF SymbolsHashed
<1>4. ASSUME NEW c \in Call, RemoveMissing(c) PROVE SymbolsHashed'
  <2>1. /\ Indexed(c) /\ Remove(File \ job[c].all) /\ work' = Detach(work, File \ job[c].all)
    BY <1>4 DEF RemoveMissing
  <2>2. \A d \in Call, f \in File : work[d][f].at = "none" /\ work'[d][f] = work[d][f]
    BY <2>1, AtRest, DetachAtRest DEF OneCall
  <2>3. ASSUME NEW f \in File PROVE Match(f)'
    <3>1. Match(f)
      BY <2>2 DEF SymbolsHashed
    <3>2. QED BY <2>1, <3>1, Removing
  <2>4. QED BY <2>2, <2>3 DEF SymbolsHashed
<1>5. ASSUME NEW c \in Call, NEW f \in File, ReadFile(c, f) \/ ApplyFile(c, f) \/ ApplySymbols(c, f)
      PROVE  SymbolsHashed'
  <2>1. ASSUME NEW g \in File, g # f
        PROVE  /\ (\A d \in Call : work'[d][g].at # "applying") => Match(g)'
               /\ \A d \in Call : work'[d][g].at # "detached" /\ (work'[d][g].at = "applying" => Noted(d, g)')
    BY <1>5, <2>1, FileStepWork DEF SymbolsHashed
  <2>2. \A d \in Call : d = c
    BY DEF OneCall
  <2>3. /\ work'[c][f].at # "applying" => Match(f)'
        /\ work'[c][f].at # "detached" /\ (work'[c][f].at = "applying" => Noted(c, f)')
    <3>1. CASE ReadFile(c, f)
      BY <2>2, <3>1, ReadSteps DEF SymbolsHashed
    <3>2. CASE ApplyFile(c, f)
      BY <2>2, <3>2, ApplySteps DEF SymbolsHashed
    <3>3. CASE ApplySymbols(c, f)
      <4>. DEFINE v == work[c][f].ver
                  old == work[c][f].prev \ {v}
      <4>1. work[c][f].at # "detached"
        BY DEF SymbolsHashed
      <4>2. /\ work[c][f].at = "applying" /\ work'[c][f].at = "none" /\ hash' = hash
            /\ defined'[f] = (defined[f] \ old) \cup {v} /\ orphans'[f] = orphans[f] \ (old \cup {v})
        BY <3>3, <4>1, SymbolSteps
      <4>3. v \in Version /\ v # Absent
        BY <4>2 DEF IndexInv, IndexTypeOK, Version, Absent
      <4>4. hash[f] = v /\ defined[f] = work[c][f].prev /\ orphans[f] = {}
        BY <4>2 DEF SymbolsHashed
      <4>5. defined'[f] = {v} /\ orphans'[f] = {}
        BY <4>2, <4>4
      <4>6. QED BY <4>2, <4>3, <4>4, <4>5
    <3>4. QED BY <1>5, <3>1, <3>2, <3>3
  <2>4. QED BY <2>1, <2>2, <2>3 DEF SymbolsHashed
<1>6. QED BY <1>1, <1>2, <1>3, <1>4, <1>5 DEF IndexNext, CallStep

\* With one call at a time the symbols the graph has of a file are those of the
\* content whose hash it has (applyParseArtifact), whatever changes, comes or goes
\* while the call reads and writes.
THEOREM SymbolsMatch == ASSUME OneCall PROVE IndexSpec => []SymbolsMatchHash
<1>1. IndexInit => SymbolsHashed
  BY DEF IndexInit, NoWork, SymbolsHashed
<1>2. IndexInv /\ SymbolsHashed /\ [IndexNext]_indexVars => SymbolsHashed'
  BY SymbolsStep
<1>3. SymbolsHashed => SymbolsMatchHash
  BY DEF SymbolsHashed, SymbolsMatchHash
<1>4. QED BY <1>1, <1>2, <1>3, IndexInvariance, PTL DEF IndexSpec

\* What UpToDate says of one file.
Current(c, f) ==
  /\ work[c][f].at = "todo" => content[f] # Absent
  /\ work[c][f].at \in {"parsed", "applying"} => work[c][f].ver = content[f]
  /\ work[c][f].at \in {"none", "applying"} /\ f \in job[c].all => hash[f] = content[f]
  /\ f \notin job[c].all => content[f] = Absent

LEMMA BeginsUpToDate ==
  ASSUME OneCall, IndexInv, NEW c \in Call,
         \/ \E i \in BOOLEAN : BeginRepository(c, i)
         \/ \E files \in SUBSET File : BeginFiles(c, files)
  PROVE  UpToDate'
<1>1. job \in [Call -> Job] /\ work \in [Call -> [File -> Work]] /\ edits \in Nat
      /\ content \in [File -> 0..MaxVersion] /\ hash \in [File -> 0..MaxVersion]
  BY DEF IndexInv, IndexTypeOK
<1>2. ASSUME NEW i \in BOOLEAN, BeginRepository(c, i)
      PROVE  job'[c].began <= edits' /\ \A f \in File : Answers(c, f)' => Current(c, f)'
  <2>. DEFINE byGit == i /\ GitChanged # {}
              all == IF byGit THEN GitChanged ELSE OnDisk
              differing == IF byGit THEN GitChanged ELSE ChangedOnDisk
              chosen == IF i /\ differing # {} THEN differing ELSE all
  <2>1. /\ job' = [job EXCEPT ![c] = Started("repo", i, byGit, all)]
        /\ work' = [work EXCEPT ![c] = Todo(chosen)]
        /\ UNCHANGED <<content, ftime, utc, edits, hash>>
    BY <1>2, Zenon DEF BeginRepository, diskVars, graphVars
  <2>2. /\ job'[c].step = "repo" /\ job'[c].incremental = i /\ job'[c].byGit = byGit
        /\ job'[c].all = all /\ job'[c].began = edits /\ work'[c] = Todo(chosen)
    <3>. HIDE DEF byGit, all, chosen
    <3>1. QED BY <1>1, <2>1 DEF Started
  <2>3. ASSUME NEW f \in File, Answers(c, f)' PROVE Current(c, f)'
    <3>1. ~byGit /\ (i => ~utc)
      BY <2>1, <2>2, <2>3 DEF Answers
    <3>2. all = OnDisk /\ chosen = (IF i /\ ChangedOnDisk # {} THEN ChangedOnDisk ELSE OnDisk)
      BY <3>1
    <3>3. f \in chosen => content[f] # Absent
      BY <3>2 DEF ChangedOnDisk, OnDisk
    <3>4. f \in OnDisk /\ f \notin chosen => hash[f] = content[f]
      BY <3>1, <3>2 DEF ChangedOnDisk, OnDisk
    <3>5. work'[c][f].at = IF f \in chosen THEN "todo" ELSE "none"
      BY <2>2 DEF Todo, NoWork
    <3>. HIDE DEF byGit, all, chosen
    <3>6. QED BY <2>1, <2>2, <3>2, <3>3, <3>4, <3>5 DEF Current, OnDisk
  <2>4. QED BY <1>1, <2>1, <2>2, <2>3
<1>3. ASSUME NEW files \in SUBSET File, BeginFiles(c, files)
      PROVE  job'[c].began <= edits' /\ \A f \in File : Answers(c, f)' => Current(c, f)'
  <2>1. /\ Remove(files \ OnDisk)
        /\ job' = [job EXCEPT ![c] = Started("files", TRUE, FALSE, files)]
        /\ work' = [Detach(work, files \ OnDisk) EXCEPT ![c] = Todo(files \cap OnDisk)]
        /\ UNCHANGED <<content, ftime, utc, edits>>
    BY <1>3 DEF BeginFiles, diskVars
  <2>2. Detach(work, files \ OnDisk) \in [Call -> [File -> Work]]
    BY DetachType DEF IndexInv
  <2>3. /\ job'[c].step = "files" /\ job'[c].all = files /\ job'[c].began = edits
        /\ work'[c] = Todo(files \cap OnDisk)
    BY <1>1, <2>1, <2>2 DEF Started
  <2>4. ASSUME NEW f \in File, Answers(c, f)' PROVE Current(c, f)'
    <3>1. f \in files
      BY <2>3, <2>4 DEF Answers
    <3>2. work'[c][f].at = IF f \in OnDisk THEN "todo" ELSE "none"
      BY <2>3, <3>1 DEF Todo, NoWork
    <3>3. f \notin OnDisk => hash'[f] = Absent
      BY <2>1, <3>1, Removing
    <3>4. f \in OnDisk <=> content[f] # Absent
      BY DEF OnDisk
    <3>5. content' = content /\ f \in job'[c].all
      BY <2>1, <2>3, <3>1
    <3>6. CASE f \in OnDisk
      BY <3>2, <3>4, <3>5, <3>6 DEF Current
    <3>7. CASE f \notin OnDisk
      BY <3>2, <3>3, <3>4, <3>5, <3>7 DEF Current
    <3>8. QED BY <3>6, <3>7
  <2>5. job'[c].began <= edits'
    <3>1. edits' = edits /\ job'[c].began = edits BY <2>1, <2>3, Zenon
    <3>2. QED BY <1>1, <3>1
  <2>6. QED BY <2>4, <2>5
<1>4. QED BY <1>2, <1>3 DEF OneCall, UpToDate, Current

LEMMA FileStepUpToDate ==
  ASSUME OneCall, IndexInv, SymbolsHashed, UpToDate, NEW c \in Call, NEW f \in File,
         ReadFile(c, f) \/ ApplyFile(c, f) \/ ApplySymbols(c, f)
  PROVE  UpToDate'
<1>1. /\ job' = job /\ content' = content /\ ftime' = ftime /\ utc' = utc /\ edits' = edits
      /\ \A g \in File : g # f => work'[c][g] = work[c][g] /\ hash'[g] = hash[g]
  BY FileStepWork
<1>2. \A g \in File : Answers(c, g)' <=> Answers(c, g)
  BY <1>1 DEF Answers
<1>3. \A g \in File : Answers(c, g) => Current(c, g)
  BY DEF UpToDate, Current
<1>4. ASSUME NEW g \in File, g # f, Answers(c, g)' PROVE Current(c, g)'
  BY <1>1, <1>2, <1>3, <1>4 DEF Current
<1>5. ASSUME Answers(c, f)' PROVE Current(c, f)'
  <2>1. Current(c, f)
    BY <1>2, <1>3, <1>5
  <2>2. CASE ReadFile(c, f)
    <3>1. work[c][f].at = "todo" /\ content[f] # Absent /\ hash' = hash
          /\ \/ work'[c][f].at = "none" /\ hash[f] = content[f]
             \/ work'[c][f].at = "parsed" /\ work'[c][f].ver = content[f]
      BY <2>1, <2>2, ReadSteps DEF Current
    <3>2. QED BY <1>1, <2>1, <3>1 DEF Current
  <2>3. CASE ApplyFile(c, f)
    <3>1. /\ work[c][f].at = "parsed" /\ work'[c][f].at = "applying"
          /\ work'[c][f].ver = work[c][f].ver /\ hash'[f] = work[c][f].ver
      BY <2>3, ApplySteps
    <3>2. QED BY <1>1, <2>1, <3>1 DEF Current
  <2>4. CASE ApplySymbols(c, f)
    <3>1. work[c][f].at # "detached"
      BY DEF SymbolsHashed
    <3>2. work[c][f].at = "applying" /\ work'[c][f].at = "none" /\ hash' = hash
      BY <2>4, <3>1, SymbolSteps
    <3>3. QED BY <1>1, <2>1, <3>2 DEF Current
  <2>5. QED BY <2>2, <2>3, <2>4
<1>6. job'[c].began <= edits'
  BY <1>1 DEF UpToDate
<1>7. QED BY <1>4, <1>5, <1>6 DEF OneCall, UpToDate, Current

LEMMA UpToDateStep ==
  ASSUME OneCall, IndexInv, SymbolsHashed, UpToDate, [IndexNext]_indexVars
  PROVE  UpToDate'
<1>1. job \in [Call -> Job] /\ edits \in Nat /\ ftime \in [File -> Nat]
      /\ content \in [File -> 0..MaxVersion]
  BY DEF IndexInv, IndexTypeOK
<1>2. \A c \in Call : job[c].began \in Nat
  BY <1>1 DEF Job
<1>3. ASSUME NEW f \in File, Edit(f) PROVE UpToDate'
  <2>1. /\ UNCHANGED <<job, work, hash, utc>> /\ edits' = edits + 1
        /\ ftime' = [ftime EXCEPT ![f] = edits + 1]
        /\ \A g \in File : g # f => content'[g] = content[g]
    BY <1>1, <1>3 DEF Edit, graphVars
  <2>2. ASSUME NEW c \in Call, NEW g \in File, Answers(c, g)'
        PROVE  g # f /\ Answers(c, g)
    <3>1. g # f
      BY <1>1, <1>2, <2>1, <2>2 DEF Answers, UpToDate
    <3>2. ftime'[g] = ftime[g]
      BY <1>1, <2>1, <3>1
    <3>3. QED BY <2>1, <2>2, <3>1, <3>2 DEF Answers
  <2>3. \A c \in Call : job[c].began <= edits'
    BY <1>1, <1>2, <2>1 DEF UpToDate
  <2>4. QED BY <2>1, <2>2, <2>3 DEF UpToDate
<1>4. CASE Stage \/ UNCHANGED indexVars
  BY <1>4 DEF Stage, indexVars, diskVars, graphVars, UpToDate, Answers
<1>5. ASSUME NEW c \in Call, RemoveMissing(c) \/ FilesIndexed(c) \/ Return(c) PROVE UpToDate'
  <2>1. /\ edits' = edits /\ job' \in [Call -> Job]
        /\ job' = [job EXCEPT ![c].step = "done"] \/ job' = [job EXCEPT ![c] = NoJob]
    <3>1. NoJob \in Job BY DEF NoJob, Job
    <3>2. QED BY <1>1, <1>5, <3>1, DoneType DEF IndexInv, RemoveMissing, FilesIndexed, Return, diskVars
  <2>2. job'[c].step \in {"done", "none"} /\ job'[c].began <= edits
    <3>1. CASE job' = [job EXCEPT ![c].step = "done"]
      BY <1>1, <3>1 DEF Job, UpToDate
    <3>2. CASE job' = [job EXCEPT ![c] = NoJob]
      BY <1>1, <3>2 DEF NoJob
    <3>3. QED BY <2>1, <3>1, <3>2
  <2>3. \A f \in File : ~ Answers(c, f)'
    BY <2>2 DEF Answers
  <2>4. job'[c].began <= edits'
    BY <2>1, <2>2
  <2>5. QED BY <2>3, <2>4, Zenon DEF OneCall, UpToDate
<1>6. QED BY <1>3, <1>4, <1>5, BeginsUpToDate, FileStepUpToDate DEF IndexNext, CallStep

\* With one call at a time, what the call has looked at and nobody has changed
\* since is in the graph as it is on disk when the call returns: neither the parse
\* cache nor the skipping of unchanged files (indexFile) leaves an older content.
THEOREM CallUpToDate == ASSUME OneCall PROVE IndexSpec => CallBringsFilesUpToDate
<1>1. IndexInit => SymbolsHashed
  BY DEF IndexInit, NoWork, SymbolsHashed
<1>2. IndexInit => UpToDate
  BY DEF IndexInit, NoJob, UpToDate, Answers
<1>3. IndexInv /\ SymbolsHashed /\ [IndexNext]_indexVars => SymbolsHashed'
  BY SymbolsStep
<1>4. IndexInv /\ SymbolsHashed /\ UpToDate /\ [IndexNext]_indexVars => UpToDate'
  BY UpToDateStep
<1>5. ASSUME IndexInv, UpToDate, [IndexNext]_indexVars, NEW c \in Call, NEW f \in File,
             job[c].step \in {"repo", "files"}, job'[c].step = "done", Answers(c, f)
      PROVE  hash'[f] = content[f]
  <2>1. RemoveMissing(c) \/ FilesIndexed(c)
    <3>1. NoJob.step = "none" BY DEF NoJob
    <3>2. job'[c] # job[c] /\ job[c].step # "none" /\ job'[c] # NoJob
      BY <1>5, <3>1
    <3>3. QED BY <3>2, <1>5, JobSteps, Zenon
  <2>2. work[c][f].at = "none"
    <3>1. Indexed(c) BY <2>1 DEF RemoveMissing, FilesIndexed
    <3>2. QED BY <1>5, <3>1, AtRest
  <2>3. CASE RemoveMissing(c)
    <3>1. Remove(File \ job[c].all)
      BY <2>3 DEF RemoveMissing
    <3>2. QED BY <1>5, <2>2, <3>1, Removing DEF UpToDate
  <2>4. CASE FilesIndexed(c)
    <3>1. hash' = hash /\ job[c].step = "files"
      BY <2>4 DEF FilesIndexed, graphVars
    <3>2. QED BY <1>5, <2>2, <3>1 DEF UpToDate, Answers
  <2>5. QED BY <2>1, <2>3, <2>4
<1>6. IndexInv /\ UpToDate /\ [IndexNext]_indexVars
        => [\A c \in Call :
              /\ job[c].step \in {"repo", "files"} /\ job'[c].step = "done"
              /\ job[c].step = "repo" /\ job[c].incremental => ~utc /\ ~job[c].byGit
              => \A f \in File :
                   /\ job[c].step = "files" => f \in job[c].all
                   /\ ftime[f] <= job[c].began
                   => hash'[f] = content[f]]_indexVars
  BY <1>5 DEF Answers
<1>7. QED BY <1>1, <1>2, <1>3, <1>4, <1>6, IndexInvariance, PTL DEF IndexSpec, CallBringsFilesUpToDate

-----------------------------------------------------------------------------
(***************************************************************************)
(* Edge resolution.  Between calls the graph links what a first index of   *)
(* the same files would link.  What a pass writes holds as long as the     *)
(* symbols do; so what counts is that the passes run whenever a file       *)
(* changed, that each leaves the kinds of the others alone, and that an    *)
(* edge of a kind is always among those its pass looks through.            *)
(***************************************************************************)

LinkKind == {"CALLS", "EXTENDS", "IMPLEMENTS", "USES", "DEPENDS_ON"}
CallStage == {"idle", "apply", "calls", "inheritance", "references", "imports", "dataflow"}
IsEdge(e) == e = [kind |-> e.kind, from |-> e.from, to |-> e.to, confidence |-> e.confidence]

\* The kind of node that edges of a kind leave.
FromKinds(kind) ==
  IF kind = "CALLS" THEN {"Function"} ELSE IF kind = "USES" THEN {"Function", "Type"}
  ELSE IF kind = "DEPENDS_ON" THEN {"SourceFile"} ELSE {"Type"}

\* The edges of some kinds link what is wanted.
LinksThese(kinds, have, wanted) ==
  /\ \A e \in have : e.kind \in kinds => \E d \in wanted : SameEnds(e, d)
  /\ \A d \in wanted : \E e \in have : SameEnds(e, d)

\* The passes before a stage have done their work.
CallsDone == LinksThese({"CALLS"}, edges, CallsWanted(applied))
InheritanceDone == LinksThese({"EXTENDS", "IMPLEMENTS"}, edges, InheritanceWanted(applied, applied))
ReferencesDone == LinksThese({"USES"}, edges, UsesWanted(applied))
ImportsDone == LinksThese({"DEPENDS_ON"}, edges, ImportsWanted(applied))
FlowsDone == \A d \in FlowsWanted(applied, CallsWanted(applied)) : \E e \in edges : SameEnds(e, d)

Settled == resolving = "idle" \/ (resolving = "apply" /\ ~ changed)

EdgeTypes ==
  \A e \in edges : /\ IsEdge(e) /\ e.kind \in LinkKind \cup {"DATA_FLOW", "IMPORTS"}
                   /\ e.kind \in LinkKind => e.from \in Symbols(applied) /\ e.from.kind \in FromKinds(e.kind)
ResolutionInv ==
  /\ EdgeTypes
  /\ resolving \in CallStage /\ (resolving \notin {"idle", "apply"} => index = applied)
  /\ Settled \/ resolving \in {"inheritance", "references", "imports", "dataflow"} => CallsDone
  /\ Settled \/ resolving \in {"references", "imports", "dataflow"} => InheritanceDone
  /\ Settled \/ resolving \in {"imports", "dataflow"} => ReferencesDone
  /\ Settled \/ resolving = "dataflow" => ImportsDone
  /\ Settled => FlowsDone

LEMMA WantedNodes ==
  ASSUME NEW g
  PROVE  /\ \A n \in FunctionNodes(g) : n.kind = "Function"
         /\ \A n \in TypeNodes(g) : n.kind = "Type"
         /\ \A s \in Source : FileNode(s).kind = "SourceFile"
         /\ FunctionNodes(g) \subseteq Symbols(g) /\ TypeNodes(g) \subseteq Symbols(g)
         /\ \A s \in Files(g) : FileNode(s) \in Symbols(g)
         /\ \A n \in Symbols(g) : /\ n.kind \in {"Function", "Type", "SourceFile"}
                                  /\ n.kind = "Function" => n \in FunctionNodes(g)
                                  /\ n.kind = "Type" => n \in TypeNodes(g)
                                  /\ n.kind = "SourceFile" => n \in {FileNode(s) : s \in Files(g)}
<1>1. \A n \in FunctionNodes(g) : n.kind = "Function"
  BY DEF FunctionNodes, FunctionNode, Declared
<1>2. \A n \in TypeNodes(g) : n.kind = "Type"
  BY DEF TypeNodes, TypeNode, Declared
<1>3. \A s \in Source : FileNode(s).kind = "SourceFile"
  BY DEF FileNode, Declared
<1>4. Files(g) \subseteq Source
  BY DEF Files
<1> QED BY <1>1, <1>2, <1>3, <1>4 DEF Symbols

\* What a resolver wants are edges of its kinds that leave nodes of its own.
Wanted(kinds, from, wanted) ==
  \A d \in wanted : IsEdge(d) /\ d.kind \in kinds /\ d.from \in from

LEMMA LinksWanted ==
  ASSUME NEW kind, NEW from, NEW targets
  PROVE  \A d \in Links(kind, from, targets) : IsEdge(d) /\ d.kind = kind /\ d.from = from
BY DEF Links, IsEdge

LEMMA CallsTyped == ASSUME NEW g PROVE Wanted({"CALLS"}, FunctionNodes(g), CallsWanted(g))
<1> SUFFICES ASSUME NEW d \in CallsWanted(g)
             PROVE  IsEdge(d) /\ d.kind = "CALLS" /\ d.from \in FunctionNodes(g)
  BY DEF Wanted
<1>1. PICK x \in FunctionDecls(g) : \E targets : d \in Links("CALLS", FunctionNode(x[1], x[2]), targets)
  BY DEF CallsWanted
<1>2. FunctionNode(x[1], x[2]) \in FunctionNodes(g)
  BY DEF FunctionNodes
<1> QED BY <1>1, <1>2, LinksWanted

LEMMA UsesTyped == ASSUME NEW g PROVE Wanted({"USES"}, FunctionNodes(g) \cup TypeNodes(g), UsesWanted(g))
<1> SUFFICES ASSUME NEW d \in UsesWanted(g)
             PROVE  IsEdge(d) /\ d.kind = "USES" /\ d.from \in FunctionNodes(g) \cup TypeNodes(g)
  BY DEF Wanted
<1>1. \/ \E x \in TypeDecls(g) : \E targets : d \in Links("USES", TypeNode(x[1], x[2]), targets)
      \/ \E x \in FunctionDecls(g) : \E targets : d \in Links("USES", FunctionNode(x[1], x[2]), targets)
  BY DEF UsesWanted
<1>2. /\ \A x \in FunctionDecls(g) : FunctionNode(x[1], x[2]) \in FunctionNodes(g)
      /\ \A x \in TypeDecls(g) : TypeNode(x[1], x[2]) \in TypeNodes(g)
  BY DEF FunctionNodes, TypeNodes
<1> QED BY <1>1, <1>2, LinksWanted

LEMMA InheritanceTyped ==
  ASSUME NEW g, NEW current
  PROVE  Wanted({"EXTENDS", "IMPLEMENTS"}, TypeNodes(g), InheritanceWanted(g, current))
<1> SUFFICES ASSUME NEW d \in InheritanceWanted(g, current)
             PROVE  IsEdge(d) /\ d.kind \in {"EXTENDS", "IMPLEMENTS"} /\ d.from \in TypeNodes(g)
  BY DEF Wanted
<1>1. PICK n \in TypeNodes(g), rel \in {"EXTENDS", "IMPLEMENTS"} : \E targets : d \in Links(rel, n, targets)
  BY DEF InheritanceWanted
<1> QED BY <1>1, LinksWanted

LEMMA ImportsTyped ==
  ASSUME NEW g
  PROVE  Wanted({"DEPENDS_ON"}, {FileNode(s) : s \in Files(g)}, ImportsWanted(g))
<1> SUFFICES ASSUME NEW d \in ImportsWanted(g)
             PROVE  IsEdge(d) /\ d.kind = "DEPENDS_ON" /\ d.from \in {FileNode(s) : s \in Files(g)}
  BY DEF Wanted
<1>1. PICK s \in Files(g) : \E targets : d \in Links("DEPENDS_ON", FileNode(s), targets)
  BY DEF ImportsWanted
<1> QED BY <1>1, LinksWanted

LEMMA FlowsTyped ==
  ASSUME NEW g, NEW called
  PROVE  \A d \in FlowsWanted(g, called) : IsEdge(d) /\ d.kind = "DATA_FLOW"
BY DEF FlowsWanted, IsEdge

\* Flows go by the ends of the calls.
LEMMA FlowsByEnds ==
  ASSUME NEW g, NEW A, NEW B, \A a \in A : \E b \in B : SameEnds(b, a)
  PROVE  FlowsWanted(g, A) \subseteq FlowsWanted(g, B)
<1> SUFFICES ASSUME NEW a \in A, Flows(g, a.from, a.to)
             PROVE  [kind |-> "DATA_FLOW", from |-> a.to, to |-> a.from, confidence |-> 0] \in FlowsWanted(g, B)
  BY DEF FlowsWanted
<1>1. PICK b \in B : b.from = a.from /\ b.to = a.to
  BY DEF SameEnds
<1> QED BY <1>1 DEF FlowsWanted

-----------------------------------------------------------------------------
(* A pass.                                                                 *)

\* When the edges of some kinds leave the nodes a pass looks through, they are what
\* is wanted after it, and the edges of other kinds are what they were.
SameKind(kinds, have, now) == {e \in now : e.kind \in kinds} = {e \in have : e.kind \in kinds}
LEMMA SyncLinks ==
  ASSUME NEW have, NEW kinds, NEW from, NEW from2, NEW wanted, Wanted(kinds, from2, wanted),
         \A e \in have : e.kind \in kinds => e.from \in from
  PROVE  /\ LinksThese(kinds, syncEdges(have, kinds, from, wanted), wanted)
         /\ \A others : others \cap kinds = {} => SameKind(others, have, syncEdges(have, kinds, from, wanted))
         /\ \A e \in syncEdges(have, kinds, from, wanted) : e \in have \/ e \in wanted
<1> DEFINE now == syncEdges(have, kinds, from, wanted)
<1>1. \A e \in now : e \in have \/ e \in wanted
  BY DEF syncEdges, Missing
<1>2. ASSUME NEW e \in now, e.kind \in kinds PROVE \E d \in wanted : SameEnds(e, d)
  BY <1>2 DEF syncEdges, Missing, SameEnds
<1>3. ASSUME NEW d \in wanted PROVE \E e \in now : SameEnds(e, d)
  <2>1. CASE d \in Missing(wanted, have)
    BY <2>1 DEF syncEdges, SameEnds
  <2>2. CASE d \notin Missing(wanted, have)
    <3>1. PICK e \in have : SameEnds(e, d)
      BY <2>2 DEF Missing
    <3> QED BY <3>1 DEF syncEdges
  <2> QED BY <2>1, <2>2
<1>4. ASSUME NEW others, others \cap kinds = {} PROVE SameKind(others, have, now)
  <2>1. \A e \in have : e.kind \in others => e \in now
    BY <1>4 DEF syncEdges
  <2>2. \A e \in now : e.kind \in others => e \in have
    BY <1>1, <1>4 DEF Wanted
  <2> QED BY <2>1, <2>2 DEF SameKind
<1> QED BY <1>1, <1>2, <1>3, <1>4 DEF LinksThese

LEMMA SameKindLinks ==
  ASSUME NEW kinds, NEW have, NEW now, NEW from, NEW wanted, Wanted(kinds, from, wanted),
         SameKind(kinds, have, now), LinksThese(kinds, have, wanted)
  PROVE  LinksThese(kinds, now, wanted)
<1>1. \A e : e.kind \in kinds => (e \in now <=> e \in have)
  BY DEF SameKind
<1>2. \A d \in wanted : \E e \in have : SameEnds(e, d) /\ e.kind \in kinds
  BY DEF LinksThese, Wanted, SameEnds
<1> QED BY <1>1, <1>2 DEF LinksThese

\* Edges that a pass keeps or wants are edges of the graph's nodes.
EdgeTyped(e, g) ==
  /\ IsEdge(e) /\ e.kind \in LinkKind \cup {"DATA_FLOW", "IMPORTS"}
  /\ e.kind \in LinkKind => e.from \in Symbols(g) /\ e.from.kind \in FromKinds(e.kind)

LEMMA WantedTyped ==
  ASSUME NEW g
  PROVE  /\ \A d \in CallsWanted(g) : EdgeTyped(d, g)
         /\ \A d \in InheritanceWanted(g, g) : EdgeTyped(d, g)
         /\ \A d \in UsesWanted(g) : EdgeTyped(d, g)
         /\ \A d \in ImportsWanted(g) : EdgeTyped(d, g)
<1>1. \A d \in CallsWanted(g) : EdgeTyped(d, g)
  BY CallsTyped, WantedNodes DEF Wanted, EdgeTyped, LinkKind, FromKinds
<1>2. \A d \in InheritanceWanted(g, g) : EdgeTyped(d, g)
  BY InheritanceTyped, WantedNodes DEF Wanted, EdgeTyped, LinkKind, FromKinds
<1>3. \A d \in UsesWanted(g) : EdgeTyped(d, g)
  BY UsesTyped, WantedNodes DEF Wanted, EdgeTyped, LinkKind, FromKinds
<1>4. \A d \in ImportsWanted(g) : EdgeTyped(d, g)
  <2> SUFFICES ASSUME NEW d \in ImportsWanted(g) PROVE EdgeTyped(d, g)
    OBVIOUS
  <2>1. IsEdge(d) /\ d.kind = "DEPENDS_ON" /\ d.from \in {FileNode(s) : s \in Files(g)}
    BY ImportsTyped DEF Wanted
  <2>2. d.from \in Symbols(g) /\ d.from.kind = "SourceFile"
    BY <2>1, WantedNodes DEF FileNode, Declared
  <2> QED BY <2>1, <2>2 DEF EdgeTyped, LinkKind, FromKinds
<1> QED BY <1>1, <1>2, <1>3, <1>4

-----------------------------------------------------------------------------
(* The steps.                                                              *)

LEMMA ResolutionStarts == ResolutionInit => ResolutionInv
<1> SUFFICES ASSUME ResolutionInit PROVE ResolutionInv
  OBVIOUS
<1>1. Files(applied) = {} /\ edges = {} /\ resolving = "idle"
  BY DEF ResolutionInit, Files
<1>2. FunctionDecls(applied) = {} /\ TypeDecls(applied) = {}
  BY <1>1 DEF FunctionDecls, TypeDecls
<1>3. FunctionNodes(applied) = {} /\ TypeNodes(applied) = {}
  BY <1>2 DEF FunctionNodes, TypeNodes
<1>4. CallsWanted(applied) = {}
  BY <1>2 DEF CallsWanted
<1>5. UsesWanted(applied) = {}
  BY <1>2 DEF UsesWanted
<1>6. InheritanceWanted(applied, applied) = {}
  BY <1>3 DEF InheritanceWanted
<1>7. ImportsWanted(applied) = {}
  BY <1>1 DEF ImportsWanted
<1>8. FlowsWanted(applied, {}) = {}
  BY DEF FlowsWanted
<1> QED BY <1>1, <1>4, <1>5, <1>6, <1>7, <1>8 DEF ResolutionInv, EdgeTypes, CallStage, CallsDone, InheritanceDone,
           ReferencesDone, ImportsDone, FlowsDone, LinksThese

LEMMA ApplyKeeps ==
  ASSUME ResolutionInv, NEW s \in Source, NEW c \in Content \cup {Nil}, ApplyContent(s, c)
  PROVE  ResolutionInv'
<1>1. resolving' = resolving /\ resolving = "apply" /\ changed' = TRUE /\ index' = index
  BY DEF ApplyContent
<1>2. ASSUME NEW e \in edges' PROVE EdgeTyped(e, applied')
  <2>1. CASE e \in edges /\ e.from \in Symbols(applied')
    BY <2>1 DEF ResolutionInv, EdgeTypes, EdgeTyped
  <2>2. CASE \E i : e = [kind |-> "IMPORTS", from |-> FileNode(s), to |-> Module(i), confidence |-> 0]
    BY <2>2 DEF EdgeTyped, IsEdge, LinkKind
  <2> QED BY <1>2, <2>1, <2>2 DEF ApplyContent
<1>3. EdgeTypes'
  BY <1>2 DEF EdgeTypes, EdgeTyped
<1>4. ~ Settled'
  BY <1>1 DEF Settled
<1> QED BY <1>1, <1>3, <1>4 DEF ResolutionInv

LEMMA BeginKeeps ==
  ASSUME ResolutionInv, (\E incremental \in BOOLEAN : BeginCall(incremental)) \/ buildResolverIndex
  PROVE  ResolutionInv'
<1>1. applied' = applied /\ edges' = edges
  BY DEF BeginCall, buildResolverIndex
<1>2. EdgeTypes' /\ resolving' \in CallStage
  BY <1>1 DEF ResolutionInv, EdgeTypes, BeginCall, buildResolverIndex, CallStage
<1>3. /\ Settled' => Settled
      /\ resolving' \in {"idle", "apply", "calls"}
      /\ resolving' = "calls" => index' = applied'
  BY DEF Settled, BeginCall, buildResolverIndex
<1>4. /\ CallsDone' = CallsDone /\ InheritanceDone' = InheritanceDone /\ ReferencesDone' = ReferencesDone
      /\ ImportsDone' = ImportsDone /\ FlowsDone' = FlowsDone
  BY <1>1 DEF CallsDone, InheritanceDone, ReferencesDone, ImportsDone, FlowsDone
<1> QED BY <1>2, <1>3, <1>4 DEF ResolutionInv

\* What a pass of kinds leaves, but for the work of the pass itself.
LEMMA PassKeeps ==
  ASSUME ResolutionInv, resolving \notin {"idle", "apply"}, applied' = applied,
         NEW kinds, NEW from, NEW from2, NEW wanted, Wanted(kinds, from2, wanted),
         \A e \in edges : e.kind \in kinds => e.from \in from,
         \A d \in wanted : EdgeTyped(d, applied), edges' = syncEdges(edges, kinds, from, wanted)
  PROVE  /\ EdgeTypes'
         /\ LinksThese(kinds, edges', wanted)
         /\ kinds = {"EXTENDS", "IMPLEMENTS"} => (CallsDone => CallsDone')
         /\ kinds = {"USES"} => (CallsDone => CallsDone') /\ (InheritanceDone => InheritanceDone')
         /\ kinds = {"DEPENDS_ON"} => /\ CallsDone => CallsDone'
                                      /\ InheritanceDone => InheritanceDone'
                                      /\ ReferencesDone => ReferencesDone'
<1>1. /\ LinksThese(kinds, edges', wanted)
      /\ \A others : others \cap kinds = {} => SameKind(others, edges, edges')
      /\ \A e \in edges' : e \in edges \/ e \in wanted
  BY SyncLinks
<1>2. EdgeTypes'
  BY <1>1 DEF ResolutionInv, EdgeTypes, EdgeTyped
<1>3. ASSUME {"CALLS"} \cap kinds = {}, CallsDone PROVE CallsDone'
  <2>1. SameKind({"CALLS"}, edges, edges')
    BY <1>1, <1>3
  <2>2. LinksThese({"CALLS"}, edges', CallsWanted(applied))
    BY <1>3, <2>1, CallsTyped, SameKindLinks DEF CallsDone
  <2> QED BY <2>2 DEF CallsDone
<1>4. ASSUME {"EXTENDS", "IMPLEMENTS"} \cap kinds = {}, InheritanceDone PROVE InheritanceDone'
  <2>1. SameKind({"EXTENDS", "IMPLEMENTS"}, edges, edges')
    BY <1>1, <1>4
  <2>2. LinksThese({"EXTENDS", "IMPLEMENTS"}, edges', InheritanceWanted(applied, applied))
    BY <1>4, <2>1, InheritanceTyped, SameKindLinks DEF InheritanceDone
  <2> QED BY <2>2 DEF InheritanceDone
<1>5. ASSUME {"USES"} \cap kinds = {}, ReferencesDone PROVE ReferencesDone'
  <2>1. SameKind({"USES"}, edges, edges')
    BY <1>1, <1>5
  <2>2. LinksThese({"USES"}, edges', UsesWanted(applied))
    BY <1>5, <2>1, UsesTyped, SameKindLinks DEF ReferencesDone
  <2> QED BY <2>2 DEF ReferencesDone
<1> QED BY <1>1, <1>2, <1>3, <1>4, <1>5

\* The edges of a kind are among those its pass looks through.
LEMMA EdgesFrom ==
  ASSUME ResolutionInv
  PROVE  /\ \A e \in edges : e.kind \in {"CALLS"} => e.from \in FunctionNodes(applied)
         /\ \A e \in edges : e.kind \in {"EXTENDS", "IMPLEMENTS"} => e.from \in TypeNodes(applied)
         /\ \A e \in edges : e.kind \in {"USES"} => e.from \in FunctionNodes(applied) \cup TypeNodes(applied)
         /\ \A e \in edges : e.kind \in {"DEPENDS_ON"} => e.from \in {FileNode(s) : s \in Files(applied)}
<1>1. \A e \in edges : e.kind \in LinkKind => e.from \in Symbols(applied) /\ e.from.kind \in FromKinds(e.kind)
  BY DEF ResolutionInv, EdgeTypes
<1>2. /\ FromKinds("CALLS") = {"Function"} /\ FromKinds("EXTENDS") = {"Type"} /\ FromKinds("IMPLEMENTS") = {"Type"}
      /\ FromKinds("USES") = {"Function", "Type"} /\ FromKinds("DEPENDS_ON") = {"SourceFile"}
  BY DEF FromKinds
<1>3. \A n \in Symbols(applied) : /\ n.kind = "Function" => n \in FunctionNodes(applied)
                                  /\ n.kind = "Type" => n \in TypeNodes(applied)
                                  /\ n.kind = "SourceFile" => n \in {FileNode(s) : s \in Files(applied)}
  BY WantedNodes
<1>4. LinkKind = {"CALLS", "EXTENDS", "IMPLEMENTS", "USES", "DEPENDS_ON"}
  BY DEF LinkKind
<1> QED BY <1>1, <1>2, <1>3, <1>4

LEMMA PassesKeep ==
  ASSUME ResolutionInv, ResolveCalls \/ ResolveInheritance \/ ResolveReferences \/ ResolveImports
  PROVE  ResolutionInv'
<1>1. /\ applied' = applied /\ index' = index /\ index = applied /\ resolving \notin {"idle", "apply"}
      /\ resolving' \in {"inheritance", "references", "imports", "dataflow"}
  BY DEF ResolveCalls, ResolveInheritance, ResolveReferences, ResolveImports, ResolvePass, ResolutionInv
<1>2. ~ Settled' /\ resolving' \in CallStage
  BY <1>1 DEF Settled, CallStage
<1>3. CASE ResolveCalls
  <2>1. resolving' = "inheritance" /\ edges' = syncEdges(edges, {"CALLS"}, FunctionNodes(applied), CallsWanted(applied))
    BY <1>1, <1>3 DEF ResolveCalls, ResolvePass
  <2>2. EdgeTypes' /\ LinksThese({"CALLS"}, edges', CallsWanted(applied))
    BY <1>1, <2>1, EdgesFrom, CallsTyped, WantedTyped, PassKeeps
  <2>3. CallsDone'
    BY <1>1, <2>2 DEF CallsDone
  <2> QED BY <1>1, <1>2, <2>1, <2>2, <2>3 DEF ResolutionInv
<1>4. CASE ResolveInheritance
  <2>1. resolving = "inheritance" /\ resolving' = "references"
        /\ edges' = syncEdges(edges, {"EXTENDS", "IMPLEMENTS"}, TypeNodes(applied), InheritanceWanted(applied, applied))
    BY <1>1, <1>4 DEF ResolveInheritance, ResolvePass
  <2>2. /\ EdgeTypes' /\ LinksThese({"EXTENDS", "IMPLEMENTS"}, edges', InheritanceWanted(applied, applied))
        /\ CallsDone => CallsDone'
    BY <1>1, <2>1, EdgesFrom, InheritanceTyped, WantedTyped, PassKeeps
  <2>3. InheritanceDone' /\ CallsDone
    BY <1>1, <2>1, <2>2 DEF InheritanceDone, ResolutionInv
  <2> QED BY <1>1, <1>2, <2>1, <2>2, <2>3 DEF ResolutionInv
<1>5. CASE ResolveReferences
  <2>1. resolving = "references" /\ resolving' = "imports"
        /\ edges' = syncEdges(edges, {"USES"}, FunctionNodes(applied) \cup TypeNodes(applied), UsesWanted(applied))
    BY <1>1, <1>5 DEF ResolveReferences, ResolvePass
  <2>2. /\ EdgeTypes' /\ LinksThese({"USES"}, edges', UsesWanted(applied))
        /\ (CallsDone => CallsDone') /\ (InheritanceDone => InheritanceDone')
    <3> DEFINE from == FunctionNodes(applied) \cup TypeNodes(applied)
               wanted == UsesWanted(applied)
    <3>1. /\ Wanted({"USES"}, from, wanted) /\ \A d \in wanted : EdgeTyped(d, applied)
          /\ \A e \in edges : e.kind \in {"USES"} => e.from \in from
          /\ edges' = syncEdges(edges, {"USES"}, from, wanted)
      BY <2>1, EdgesFrom, UsesTyped, WantedTyped
    <3> HIDE DEF from
    <3> QED BY <1>1, <3>1, PassKeeps
  <2>3. ReferencesDone' /\ CallsDone /\ InheritanceDone
    BY <1>1, <2>1, <2>2 DEF ReferencesDone, ResolutionInv
  <2> QED BY <1>1, <1>2, <2>1, <2>2, <2>3 DEF ResolutionInv
<1>6. CASE ResolveImports
  <2>1. resolving = "imports" /\ resolving' = "dataflow"
        /\ edges' = syncEdges(edges, {"DEPENDS_ON"}, {FileNode(s) : s \in Files(applied)}, ImportsWanted(applied))
    BY <1>1, <1>6 DEF ResolveImports, ResolvePass
  <2>2. /\ EdgeTypes' /\ LinksThese({"DEPENDS_ON"}, edges', ImportsWanted(applied))
        /\ (CallsDone => CallsDone') /\ (InheritanceDone => InheritanceDone') /\ (ReferencesDone => ReferencesDone')
    <3> DEFINE from == {FileNode(s) : s \in Files(applied)}
               wanted == ImportsWanted(applied)
    <3>1. /\ Wanted({"DEPENDS_ON"}, from, wanted) /\ \A d \in wanted : EdgeTyped(d, applied)
          /\ \A e \in edges : e.kind \in {"DEPENDS_ON"} => e.from \in from
          /\ edges' = syncEdges(edges, {"DEPENDS_ON"}, from, wanted)
      BY <2>1, EdgesFrom, ImportsTyped, WantedTyped
    <3> HIDE DEF from
    <3> QED BY <1>1, <3>1, PassKeeps
  <2>3. ImportsDone' /\ CallsDone /\ InheritanceDone /\ ReferencesDone
    BY <1>1, <2>1, <2>2 DEF ImportsDone, ResolutionInv
  <2> QED BY <1>1, <1>2, <2>1, <2>2, <2>3 DEF ResolutionInv
<1> QED BY <1>3, <1>4, <1>5, <1>6

\* Data flows are laid over the rest.
LEMMA DataFlowKeeps ==
  ASSUME ResolutionInv, ResolveDataFlow
  PROVE  ResolutionInv'
<1> DEFINE calls == {e \in edges : e.kind = "CALLS"}
           flows == FlowsWanted(applied, calls)
           new == Missing(flows, edges)
<1>1. /\ applied' = applied /\ index = applied /\ resolving = "dataflow" /\ resolving' = "idle"
      /\ edges' = edges \cup new
  BY DEF ResolveDataFlow, ResolvePass, ResolutionInv
<1>2. \A d \in new : IsEdge(d) /\ d.kind = "DATA_FLOW"
  BY FlowsTyped DEF Missing
<1> HIDE DEF new
<1>3. EdgeTypes'
  <2>1. "DATA_FLOW" \notin LinkKind
    BY DEF LinkKind
  <2> QED BY <1>1, <1>2, <2>1 DEF ResolutionInv, EdgeTypes
<1>4. CallsDone /\ InheritanceDone /\ ReferencesDone /\ ImportsDone
  BY <1>1 DEF ResolutionInv
<1>5. ASSUME NEW kinds, "DATA_FLOW" \notin kinds PROVE SameKind(kinds, edges, edges')
  BY <1>1, <1>2, <1>5 DEF SameKind
<1>6. CallsDone' /\ InheritanceDone' /\ ReferencesDone' /\ ImportsDone'
  <2>1. CallsDone'
    BY <1>1, <1>4, <1>5, CallsTyped, SameKindLinks DEF CallsDone
  <2>2. InheritanceDone'
    BY <1>1, <1>4, <1>5, InheritanceTyped, SameKindLinks DEF InheritanceDone
  <2>3. ReferencesDone'
    BY <1>1, <1>4, <1>5, UsesTyped, SameKindLinks DEF ReferencesDone
  <2>4. ImportsDone'
    BY <1>1, <1>4, <1>5, ImportsTyped, SameKindLinks DEF ImportsDone
  <2> QED BY <2>1, <2>2, <2>3, <2>4
<1>7. FlowsWanted(applied, CallsWanted(applied)) \subseteq flows
  <2>1. \A a \in CallsWanted(applied) : \E b \in calls : SameEnds(b, a)
    BY <1>4, CallsTyped DEF CallsDone, LinksThese, Wanted, SameEnds
  <2> HIDE DEF calls
  <2> QED BY <2>1, FlowsByEnds
<1>8. \A d \in flows : \E e \in edges' : SameEnds(e, d)
  <2> SUFFICES ASSUME NEW d \in flows PROVE \E e \in edges' : SameEnds(e, d)
    OBVIOUS
  <2> HIDE DEF flows
  <2>1. CASE d \in new
    BY <1>1, <2>1 DEF SameEnds
  <2>2. CASE d \notin new
    BY <1>1, <2>2 DEF new, Missing
  <2> QED BY <2>1, <2>2
<1>9. FlowsDone'
  BY <1>1, <1>7, <1>8 DEF FlowsDone
<1>10. resolving' \in CallStage
  BY <1>1 DEF CallStage
<1> QED BY <1>1, <1>3, <1>6, <1>9, <1>10 DEF ResolutionInv

LEMMA ResolutionKeeps == ResolutionInv /\ [ResolutionNext]_resolutionVars => ResolutionInv'
<1> SUFFICES ASSUME ResolutionInv, [ResolutionNext]_resolutionVars PROVE ResolutionInv'
  OBVIOUS
<1>1. CASE UNCHANGED resolutionVars
  BY <1>1 DEF resolutionVars, ResolutionInv, EdgeTypes, Settled, CallsDone, InheritanceDone, ReferencesDone,
              ImportsDone, FlowsDone
<1>2. CASE ResolutionNext
  BY <1>2, ApplyKeeps, BeginKeeps, PassesKeep, DataFlowKeeps DEF ResolutionNext
<1> QED BY <1>1, <1>2

\* Each pass leaves the edges of its kinds as the symbols of the graph want them, and
\* those of the earlier passes as it found them (indexing.go, resolveGraph; calls.go,
\* syncEdgesAs); a call that changes no file need not run them.
THEOREM PassesComplete == ResolutionSpec => []ResolutionInv
BY ResolutionStarts, ResolutionKeeps, PTL DEF ResolutionSpec

\* Edges with the same ends differ in their confidence alone.
LEMMA SameEndsOf ==
  ASSUME NEW e, NEW d, IsEdge(e), IsEdge(d), SameEnds(e, d)
  PROVE  [e EXCEPT !.confidence = 0] = [d EXCEPT !.confidence = 0]
<1>1. e = [kind |-> e.kind, from |-> e.from, to |-> e.to, confidence |-> e.confidence]
  BY DEF IsEdge
<1>2. d = [kind |-> e.kind, from |-> e.from, to |-> e.to, confidence |-> d.confidence]
  BY DEF IsEdge, SameEnds
<1>3. [e EXCEPT !.confidence = 0] = [kind |-> e.kind, from |-> e.from, to |-> e.to, confidence |-> 0]
  BY <1>1
<1>4. [d EXCEPT !.confidence = 0] = [kind |-> e.kind, from |-> e.from, to |-> e.to, confidence |-> 0]
  BY <1>2
<1> QED BY <1>3, <1>4

\* Between calls the graph links what indexing the same files from nothing would link,
\* whatever was indexed, changed and removed before, in whatever order (calls.go:19).
THEOREM EdgesFollowCode == ResolutionSpec => []EdgesMatchCode
<1>1. ResolutionInv => EdgesMatchCode
  <2> DEFINE F == FlowsWanted(applied, CallsWanted(applied))
             W == CallsWanted(applied) \cup UsesWanted(applied) \cup InheritanceWanted(applied, applied)
                    \cup ImportsWanted(applied)
             E == Without({"DATA_FLOW", "IMPORTS"}, edges)
  <2> SUFFICES ASSUME ResolutionInv, resolving = "idle"
               PROVE  Ends(E) = Ends(Without({"DATA_FLOW"}, Fresh)) /\ Ends(Fresh) \subseteq Ends(edges)
    BY DEF EdgesMatchCode
  <2>1. CallsDone /\ InheritanceDone /\ ReferencesDone /\ ImportsDone /\ FlowsDone /\ EdgeTypes
    BY DEF ResolutionInv, Settled
  <2>2. /\ \A d \in W : IsEdge(d) /\ d.kind \in LinkKind
        /\ \A d \in F : IsEdge(d) /\ d.kind = "DATA_FLOW"
    <3>1. \A d \in CallsWanted(applied) : IsEdge(d) /\ d.kind \in LinkKind
      BY CallsTyped DEF Wanted, LinkKind
    <3>2. \A d \in InheritanceWanted(applied, applied) : IsEdge(d) /\ d.kind \in LinkKind
      BY InheritanceTyped DEF Wanted, LinkKind
    <3>3. \A d \in UsesWanted(applied) : IsEdge(d) /\ d.kind \in LinkKind
      BY UsesTyped DEF Wanted, LinkKind
    <3>4. \A d \in ImportsWanted(applied) : IsEdge(d) /\ d.kind \in LinkKind
      BY ImportsTyped DEF Wanted, LinkKind
    <3> QED BY <3>1, <3>2, <3>3, <3>4, FlowsTyped
  <2>3. \A d \in W : \E e \in edges : SameEnds(e, d)
    BY <2>1 DEF CallsDone, InheritanceDone, ReferencesDone, ImportsDone, LinksThese
  <2>4. \A e \in edges : e.kind \in LinkKind => \E d \in W : SameEnds(e, d)
    BY <2>1 DEF CallsDone, InheritanceDone, ReferencesDone, ImportsDone, LinksThese, LinkKind
  <2>5. \A d \in F : \E e \in edges : SameEnds(e, d)
    BY <2>1 DEF FlowsDone
  <2>6. Fresh = W \cup F
    BY DEF Fresh
  <2> HIDE DEF W, F
  <2>7. Without({"DATA_FLOW"}, Fresh) = W
    BY <2>2, <2>6 DEF Without, LinkKind
  <2>8. \A e \in edges : IsEdge(e) /\ (e \in E <=> e.kind \in LinkKind)
    BY <2>1 DEF EdgeTypes, Without, LinkKind
  <2> HIDE DEF E
  <2>9. E \subseteq edges
    BY DEF E, Without
  <2>10. Ends(E) \subseteq Ends(W)
    <3> SUFFICES ASSUME NEW e \in E PROVE [e EXCEPT !.confidence = 0] \in Ends(W)
      BY DEF Ends
    <3>1. PICK d \in W : SameEnds(e, d)
      BY <2>4, <2>8, <2>9
    <3>2. [e EXCEPT !.confidence = 0] = [d EXCEPT !.confidence = 0]
      BY <2>2, <2>8, <2>9, <3>1, SameEndsOf
    <3> QED BY <3>2 DEF Ends
  <2>11. ASSUME NEW d \in W \cup F
         PROVE  \E e \in edges : SameEnds(e, d) /\ [d EXCEPT !.confidence = 0] = [e EXCEPT !.confidence = 0]
    <3>1. PICK e \in edges : SameEnds(e, d)
      BY <2>3, <2>5
    <3>2. [e EXCEPT !.confidence = 0] = [d EXCEPT !.confidence = 0]
      BY <2>2, <2>8, <3>1, SameEndsOf
    <3> QED BY <3>1, <3>2
  <2>12. Ends(W) \subseteq Ends(E)
    <3> SUFFICES ASSUME NEW d \in W PROVE [d EXCEPT !.confidence = 0] \in Ends(E)
      BY DEF Ends
    <3>1. PICK e \in edges : SameEnds(e, d) /\ [d EXCEPT !.confidence = 0] = [e EXCEPT !.confidence = 0]
      BY <2>11
    <3>2. e \in E
      BY <2>2, <2>8, <3>1 DEF SameEnds
    <3> QED BY <3>1, <3>2 DEF Ends
  <2>13. Ends(Fresh) \subseteq Ends(edges)
    BY <2>6, <2>11 DEF Ends
  <2> QED BY <2>7, <2>10, <2>12, <2>13
<1> QED BY <1>1, PassesComplete, PTL
=============================================================================
