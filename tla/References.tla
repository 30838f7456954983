----------------------------- MODULE References -----------------------------
(* ReferenceResolver (internal/services/refs.go): what a stable id stands for   *)
(* now, and whether code read earlier may still be acted on.  A call looks the   *)
(* id up in the index, asks git for the revision and reads the file, up to three *)
(* times and under no lock, while the file is edited, committed and indexed.     *)
(* A text is a sequence of pieces; a symbol's span is one piece, and an edit     *)
(* above it moves it.  A hash is the text it is computed from.                   *)
EXTENDS Integers, Sequences, FiniteSets

CONSTANTS
  Text,        \* what the file may contain: sequences of <<name, body>>
  NoText,      \* the file does not exist
  SymbolName,  \* names of symbols, of pieces that are symbols
  FileRef,     \* the id of the file
  BinaryRef,   \* the id of a function of an imported binary
  Unset,       \* a field of the request or the answer that is not given
  Near(_),     \* ids near enough to an unknown one to be suggested
  MaxTexts     \* bound on edits, commits and index runs together

VARIABLES
  fileText, \* the file
  commits,  \* its text at each revision; the last is HEAD
  indexed,  \* its text when it was indexed
  imported, \* whether the binary has been imported
  moves,    \* edits, commits and index runs so far
  request,  \* the call: Verify of id with the hash and the revision the caller saw, or a line range
  answer,   \* Resolution, or SourceSpan
  node,     \* the node Lookup found: [start, text] of a symbol, or the file's text
  during,   \* the texts the file has had since the call began
  at        \* where the call is

referenceVars == <<fileText, commits, indexed, imported, moves, request, answer, node, during, at>>

Pieces(t) == {t[i] : i \in DOMAIN t}
Piece == UNION {Pieces(t) : t \in Text}
Id == SymbolName \cup {FileRef, BinaryRef}

ASSUME ReferencesAssumption ==
  /\ Text \subseteq Seq(Piece) /\ {NoText, Unset} \cap (Text \cup Piece) = {} /\ NoText # Unset
  /\ FileRef # BinaryRef /\ {FileRef, BinaryRef} \cap SymbolName = {}
  /\ MaxTexts \in Nat
ASSUME NearAssumption == \A i \in Id : Near(i) \subseteq Id

Requests ==
  {[op |-> "verify", id |-> i, hash |-> h, revision |-> r] :
     i \in Id, h \in {Unset} \cup Text \cup Piece, r \in 0..MaxTexts}
  \cup [op : {"span"}, line : 0..3]
Quiet == [op |-> "none"]
NoAnswer == [status |-> "none", hash |-> Unset, start |-> 0, candidates |-> {}, revision |-> 0]

\* extractFunctionInfos, extractTypes: where a symbol is in a text.
Places(t, s) == IF t = NoText THEN {} ELSE {i \in DOMAIN t : t[i][1] = s}
First(S) == CHOOSE i \in S : \A j \in S : i <= j

ReferencesInit ==
  /\ fileText \in Text /\ commits = <<fileText>> /\ indexed \in {fileText, NoText}
  /\ imported \in BOOLEAN /\ moves = 0
  /\ request = Quiet /\ answer = NoAnswer /\ node = Unset /\ during = {} /\ at = "idle"

-----------------------------------------------------------------------------
(* The world: an editor, git, the indexer.                                   *)

World(next) ==
  /\ at = "idle" => request = Quiet
  /\ moves < MaxTexts /\ moves' = moves + 1
  /\ next
  /\ UNCHANGED <<imported, request, answer, node, at>>
Rewrite ==
  \E t \in Text \cup {NoText} :
    /\ t # fileText /\ fileText' = t
    /\ during' = IF at = "idle" THEN during ELSE during \cup {t}
    /\ UNCHANGED <<commits, indexed>>
Commit == commits' = Append(commits, fileText) /\ UNCHANGED <<fileText, indexed, during>>
Reindex == indexed # fileText /\ indexed' = fileText /\ UNCHANGED <<fileText, commits, during>>

-----------------------------------------------------------------------------
(* Verify, which begins with Resolve.                                        *)

\* A call leaves nothing behind, so one call is followed to its answer.
Ask ==
  /\ at = "idle" /\ request = Quiet
  /\ request' \in Requests /\ at' = "lookup"
  /\ request'.op = "verify" =>
       /\ request'.revision <= Len(commits)
       /\ request'.hash \in {Unset} \cup (IF request'.id = FileRef THEN Text ELSE Piece)
       /\ request'.id = BinaryRef => request'.hash = Unset
  /\ answer' = NoAnswer /\ during' = {fileText} /\ node' = Unset
  /\ UNCHANGED <<fileText, commits, indexed, imported, moves>>

Finish(status) == at' = "idle" /\ answer' = [answer EXCEPT !.status = status]
InCall == UNCHANGED <<fileText, commits, indexed, imported, moves, request, during>>

\* Lookup: the node behind the id; an unknown id is answered with near ones.
Indexed(id) ==
  CASE id = BinaryRef -> imported
    [] id = FileRef -> indexed # NoText
    [] OTHER -> Places(indexed, id) # {}
Lookup ==
  /\ at = "lookup" /\ request.op = "verify" /\ Indexed(request.id)
  /\ node' = IF request.id = BinaryRef THEN Unset
             ELSE IF request.id = FileRef THEN [start |-> 0, text |-> indexed]
             ELSE LET i == First(Places(indexed, request.id)) IN [start |-> i, text |-> indexed[i]]
  /\ at' = "revision"
  /\ UNCHANGED answer /\ InCall
LookupFails ==
  /\ at = "lookup" /\ request.op = "verify" /\ ~ Indexed(request.id)
  /\ at' = "idle"
  /\ answer' = [answer EXCEPT !.status = "INVALID_REFERENCE",
                              !.candidates = {i \in Near(request.id) : Indexed(i)}]
  /\ UNCHANGED node /\ InCall

\* git rev-parse HEAD.  A binary's function is valid as it is.
Revision ==
  /\ at = "revision"
  /\ at' = IF request.id = BinaryRef THEN "resolved" ELSE IF request.id = FileRef THEN "file" ELSE "span"
  /\ answer' = [answer EXCEPT !.revision = Len(commits), !.status = IF request.id = BinaryRef THEN "VALID" ELSE @]
  /\ UNCHANGED node /\ InCall

ResolveFile ==
  /\ at = "file" /\ at' = "resolved"
  /\ answer' = IF fileText = NoText THEN [answer EXCEPT !.status = "REFERENCE_STALE"]
               ELSE [answer EXCEPT !.status = IF fileText = node.text THEN "VALID" ELSE "REFERENCE_STALE",
                                   !.hash = fileText]
  /\ UNCHANGED node /\ InCall

\* currentSpanHash: the bytes now at the indexed range.
SpanUnchanged == fileText # NoText /\ node.start \in DOMAIN fileText /\ fileText[node.start] = node.text
ReadSpan ==
  /\ at = "span"
  /\ IF SpanUnchanged
     THEN /\ answer' = [answer EXCEPT !.status = "VALID", !.hash = node.text, !.start = node.start]
          /\ at' = "resolved"
     ELSE at' = "relocate" /\ UNCHANGED answer
  /\ UNCHANGED node /\ InCall

\* Mutant: the symbol found again is taken for the one that was indexed.
RelocateAny ==
  /\ at = "relocate" /\ at' = "resolved"
  /\ LET places == Places(fileText, request.id)
         i == First(places)
     IN  answer' = IF places = {} THEN [answer EXCEPT !.status = "REFERENCE_STALE"]
                   ELSE [answer EXCEPT !.status = "VALID",
                                       !.hash = fileText[i], !.start = i]
  /\ UNCHANGED node /\ InCall

\* relocateSymbol: read the file again and find the symbol in it.
Relocate ==
  /\ at = "relocate" /\ at' = "resolved"
  /\ LET places == Places(fileText, request.id)
         i == First(places)
     IN  answer' = IF places = {} THEN [answer EXCEPT !.status = "REFERENCE_STALE"]
                   ELSE [answer EXCEPT !.status = IF fileText[i] = node.text THEN "VALID" ELSE "REFERENCE_STALE",
                                       !.hash = fileText[i], !.start = i]
  /\ UNCHANGED node /\ InCall

\* The hash the caller saw decides over the indexed one.
HashDiffers == request.hash # Unset /\ answer.hash # Unset /\ request.hash # answer.hash
CompareHash ==
  /\ at = "resolved" /\ request.hash # Unset /\ answer.hash # Unset
  /\ IF HashDiffers THEN Finish("REFERENCE_STALE")
     ELSE at' = "compared" /\ answer' = [answer EXCEPT !.status = "VALID"]
  /\ UNCHANGED node /\ InCall

\* A revision that moved is fine when the file is as it was in the caller's (git diff
\* against the file on fileText; a binary cannot be compared).
CompareRevision ==
  /\ at \in {"resolved", "compared"}
  /\ at = "resolved" => Unset \in {request.hash, answer.hash}
  /\ IF request.revision \notin {0, answer.revision}
        /\ (request.id = BinaryRef \/ fileText # commits[request.revision])
     THEN Finish("REFERENCE_STALE")
     ELSE Finish(answer.status)
  /\ UNCHANGED node /\ InCall

-----------------------------------------------------------------------------
(* ResolveSourceSpan: a range of lines, here one piece.                      *)

ReadLines ==
  /\ at = "lookup" /\ request.op = "span"
  /\ LET line == IF request.line < 1 THEN 1 ELSE request.line
     IN  IF fileText = NoText \/ line > Len(fileText)
         THEN Finish("INVALID_REFERENCE")
         ELSE /\ answer' = [answer EXCEPT !.hash = fileText[line], !.start = line]
              /\ at' = "name"
  /\ UNCHANGED node /\ InCall
\* The symbol that has these lines in the index.
NameLines ==
  /\ at = "name" /\ at' = "idle"
  /\ answer' = [answer EXCEPT !.status = "VALID",
                              !.candidates = IF indexed = NoText \/ answer.start > Len(indexed) THEN {}
                                             ELSE {indexed[answer.start][1]} \cap SymbolName]
  /\ UNCHANGED node /\ InCall

-----------------------------------------------------------------------------

ReferencesNext ==
  \/ World(Rewrite) \/ World(Commit) \/ World(Reindex)
  \/ Ask \/ Lookup \/ LookupFails \/ Revision \/ ResolveFile \/ ReadSpan \/ Relocate
  \/ CompareHash \/ CompareRevision \/ ReadLines \/ NameLines
ReferencesSpec == ReferencesInit /\ [][ReferencesNext]_referenceVars

\* A valid answer names text that was in the file while the call ran.
Backed ==
  \E t \in during : /\ t # NoText
                    /\ IF answer.start = 0 THEN t = answer.hash
                       ELSE answer.start \in DOMAIN t /\ t[answer.start] = answer.hash
AnsweredCall == at = "idle" /\ request.op = "verify" /\ answer.status # "none"

\* "Only VALID references may be used to modify code" (refs.go:18): however the file is edited,
\* committed and indexed meanwhile, a valid reference gives a span that held the code the caller
\* saw (or the indexed code) at a moment of the call, and, if the caller's revision is not HEAD,
\* a file that was as in that revision at a moment of the call; a range of lines, what they held.
ValidIsBacked ==
  /\ AnsweredCall /\ answer.status = "VALID" /\ request.id # BinaryRef =>
       /\ Backed
       /\ request.hash = Unset => answer.hash = node.text
       /\ request.hash # Unset => answer.hash = request.hash
       /\ request.revision \notin {0, answer.revision} => commits[request.revision] \in during
  /\ at = "idle" /\ request.op = "span" /\ answer.status = "VALID" => Backed

\* The call was not disturbed, and the file has the indexed code that the caller saw.
Undisturbed ==
  /\ node # Unset /\ fileText # NoText /\ during = {fileText}
  /\ IF node.start = 0 THEN node.text = fileText ELSE node.text \in Pieces(fileText)
  /\ request.hash \in {Unset, node.text}
  /\ request.revision # 0 => commits[request.revision] = fileText

\* Only a valid reference is trusted, and current code is: an undisturbed call does not call it
\* stale (ReferenceResolver.Resolve and Verify).
ValidIsCurrent ==
  /\ ValidIsBacked
  /\ AnsweredCall /\ Undisturbed => answer.status = "VALID"
=============================================================================
