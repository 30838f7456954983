----------------------------- MODULE AgentNotes -----------------------------
(* The notes an agent is reminded of (internal/ctxstore): records kept as        *)
(* Memory nodes, added on the command line (cmd/codergag/ctx.go), and the hooks  *)
(* that print those worth a session's start or a prompt within a budget of       *)
(* tokens (hook.go).  A hook remembers in a file per session what it has shown.  *)
EXTENDS Integers, Sequences, FiniteSets, SequencesExt

CONSTANTS
  NoteTitle,   \* titles; with the project they are the identity of a record
  Chat,        \* sessions of the agent
  Matching(_), \* Matching(prompt): the titles a prompt finds; prompts are
  Prompt,      \*   these
  Cost(_),     \* EstimateTokens of a record's line, by title
  headerCost,  \* of the first line
  profileCost, \* of the lines of the profile, which come first and fit
  sessionBudget, promptBudget,
  NoNote,
  MaxNotes,    \* bound: records made
  MaxPrompts   \* bound: prompts of a session

ASSUME NoteAssumption ==
  /\ {headerCost, profileCost, sessionBudget, promptBudget, MaxNotes, MaxPrompts} \subseteq Nat
  /\ headerCost + profileCost <= sessionBudget
  /\ \A t \in NoteTitle : Cost(t) \in Nat
  /\ \A p \in Prompt : Matching(p) \subseteq NoteTitle

VARIABLES
  notes,    \* notes[t]: the record with this title, or NoNote
  made,     \* records made so far; also the id and the time of the latest
  seenFile, \* seenFile[s]: hook-state/<s>.json, the ids shown
  hook,     \* hook[s]: the hook running for s
  started,  \* started[s]: the titles printed at its start, and those pinned then (history)
  shown,    \* shown[s]: ids its prompts printed, in order (history)
  lost      \* lost[s]: its file could not be written once

noteVars == <<notes, made, seenFile, hook, started, shown, lost>>

Note == [id : 1..MaxNotes, decision : BOOLEAN, pinned : BOOLEAN, archived : BOOLEAN]
ASSUME NoteValueAssumption == NoNote \notin Note

Asleep == [at |-> "idle", seen |-> {}, picked |-> <<>>, prompts |-> 0]

NotesInit ==
  /\ notes = [t \in NoteTitle |-> NoNote] /\ made = 0
  /\ seenFile = [s \in Chat |-> {}] /\ hook = [s \in Chat |-> Asleep]
  /\ started = [s \in Chat |-> [lines |-> <<>>, pinned |-> {}]] /\ shown = [s \in Chat |-> <<>>]
  /\ lost = [s \in Chat |-> FALSE]

-----------------------------------------------------------------------------
(* Records.                                                                  *)

KeepHooks == UNCHANGED <<seenFile, hook, started, shown, lost>>

\* Store.Add: an existing record of the title is updated and keeps its id and its pin.
Add(t, decision, pin) ==
  /\ IF notes[t] = NoNote
     THEN /\ made < MaxNotes /\ made' = made + 1
          /\ notes' = [notes EXCEPT ![t] = [id |-> made + 1, decision |-> decision,
                                            pinned |-> pin, archived |-> FALSE]]
     ELSE /\ notes' = [notes EXCEPT ![t].decision = decision, ![t].pinned = @ \/ pin, ![t].archived = FALSE]
          /\ UNCHANGED made
  /\ KeepHooks

\* ctx reset: all records of the project.
Reset ==
  /\ notes' = [t \in NoteTitle |-> NoNote]
  /\ UNCHANGED made /\ KeepHooks

\* MemoryService.Compact folds a record into a summary.
Archive(t) ==
  /\ notes[t] # NoNote
  /\ notes' = [notes EXCEPT ![t].archived = TRUE]
  /\ UNCHANGED made /\ KeepHooks

-----------------------------------------------------------------------------
(* Digests.                                                                  *)

\* Store.List: newest first.
Newest(order) == \A i, j \in DOMAIN order : i < j => notes[order[i]].id > notes[order[j]].id
Listing(S) == CHOOSE order \in SetToSeqs({t \in S : notes[t] # NoNote /\ ~ notes[t].archived}) : Newest(order)
Group(pinned, decision) ==
  Listing({t \in NoteTitle : notes[t] # NoNote => notes[t].pinned = pinned /\ (pinned \/ notes[t].decision = decision)})

\* pack: a line that does not fit is skipped, later ones may still fit.
Pack(budget, used, lines) ==
  LET f[i \in 0..Len(lines)] ==
        IF i = 0 THEN [used |-> used, lines |-> <<>>]
        ELSE IF f[i - 1].used + Cost(lines[i]) <= budget
             THEN [used |-> f[i - 1].used + Cost(lines[i]), lines |-> Append(f[i - 1].lines, lines[i])]
             ELSE f[i - 1]
  IN  f[Len(lines)].lines

\* hookRun at SessionStart: SessionDigest.
SessionStart(s) ==
  /\ hook[s].at = "idle"
  /\ LET lines == Group(TRUE, FALSE) \o Group(FALSE, TRUE) \o Group(FALSE, FALSE)
     IN  started' = [started EXCEPT ![s] = [lines |-> Pack(sessionBudget, headerCost + profileCost, lines),
                                            pinned |-> Range(Group(TRUE, FALSE))]]
  /\ UNCHANGED <<notes, made, seenFile, hook, shown, lost>>

\* hookRun at UserPromptSubmit: LoadSeen,
LoadSeen(s) ==
  /\ hook[s].at = "idle" /\ hook[s].prompts < MaxPrompts
  /\ hook' = [hook EXCEPT ![s].at = "loaded", ![s].seen = seenFile[s], ![s].prompts = @ + 1]
  /\ UNCHANGED <<notes, made, seenFile, started, shown, lost>>

\* PromptDigest: Search ranks what it finds, in an order of its own,
Candidates(s, p) ==
  {t \in Matching(p) : /\ notes[t] # NoNote /\ ~ notes[t].archived /\ ~ notes[t].pinned
                       /\ notes[t].id \notin hook[s].seen}
PromptDigest(s) ==
  /\ hook[s].at = "loaded"
  /\ \E p \in Prompt : \E hits \in SetToSeqs(Candidates(s, p)) :
       LET picked == Pack(promptBudget, headerCost, hits)
       IN  hook' = [hook EXCEPT ![s].at = IF picked = <<>> THEN "idle" ELSE "picked",
                                ![s].picked = [i \in DOMAIN picked |-> notes[picked[i]].id],
                                ![s].seen = IF picked = <<>> THEN {} ELSE @]
  /\ UNCHANGED <<notes, made, seenFile, started, shown, lost>>

\* Mutant: only the ids just shown are written.
SaveSeenNew(s) ==
  /\ hook[s].at = "picked"
  /\ seenFile' = [seenFile EXCEPT ![s] = Range(hook[s].picked)]
  /\ hook' = [hook EXCEPT ![s].at = "saved"]
  /\ UNCHANGED <<notes, made, started, shown, lost>>

\* SaveSeen: all ids known to be shown, the old and the new ones.
SaveSeen(s) ==
  /\ hook[s].at = "picked"
  /\ seenFile' = [seenFile EXCEPT ![s] = hook[s].seen \cup Range(hook[s].picked)]
  /\ hook' = [hook EXCEPT ![s].at = "saved"]
  /\ UNCHANGED <<notes, made, started, shown, lost>>
\* A file that cannot be written is reported, and the digest printed all the same.
SaveSeenFails(s) ==
  /\ hook[s].at = "picked"
  /\ lost' = [lost EXCEPT ![s] = TRUE]
  /\ hook' = [hook EXCEPT ![s].at = "saved"]
  /\ UNCHANGED <<notes, made, seenFile, started, shown>>

PrintDigest(s) ==
  /\ hook[s].at = "saved"
  /\ shown' = [shown EXCEPT ![s] = @ \o hook[s].picked]
  /\ hook' = [hook EXCEPT ![s] = [Asleep EXCEPT !.prompts = hook[s].prompts]]
  /\ UNCHANGED <<notes, made, seenFile, started, lost>>

\* The agent kills a hook that takes too long.
HookKilled(s) ==
  /\ hook[s].at # "idle"
  /\ hook' = [hook EXCEPT ![s] = [Asleep EXCEPT !.prompts = hook[s].prompts]]
  /\ UNCHANGED <<notes, made, seenFile, started, shown, lost>>

NotesNext ==
  \/ \E t \in NoteTitle, d \in BOOLEAN, pin \in BOOLEAN : Add(t, d, pin)
  \/ \E t \in NoteTitle : Archive(t)
  \/ Reset
  \/ \E s \in Chat : SessionStart(s) \/ LoadSeen(s) \/ PromptDigest(s) \/ SaveSeen(s)
                     \/ SaveSeenFails(s) \/ PrintDigest(s) \/ HookKilled(s)
NotesSpec == NotesInit /\ [][NotesNext]_noteVars

-----------------------------------------------------------------------------

\* Tokens of some lines.
Tokens(S) == MapThenSumSet(Cost, S)

\* A session's prompts print a record once: whatever is added, pinned, archived or removed
\* between them, and wherever a hook is killed, its file tells what has been shown (unless
\* the file could not be written).  What a session starts with keeps to its budget, and a
\* pinned record is left out of it only for other pinned ones (ctxstore.PromptDigest,
\* SessionDigest, hookRun).
RemindedOnce ==
  \A s \in Chat :
    /\ ~ lost[s] => IsInjective(shown[s]) /\ Range(shown[s]) \subseteq seenFile[s]
    /\ LET digest == Range(started[s].lines)
           free == sessionBudget - headerCost - profileCost
       IN  /\ Tokens(digest) <= free
           /\ \A t \in started[s].pinned \ digest : Tokens(digest \cap started[s].pinned) + Cost(t) > free
=============================================================================
