----------------------------- MODULE UserFiles -----------------------------
(***************************************************************************)
(* The files of the user that codergag's commands edit (cmd/codergag):     *)
(* the hooks in Claude Code's settings.json (setup --hooks, uninstall) and *)
(* the blocks between markers in two CLAUDE.md files (inject writes the    *)
(* project's, register-instructions and uninstall the global one).         *)
(*                                                                         *)
(* Settings are, for each event, the set of its entries, each the set of   *)
(* its hooks: their order and repetitions are left out.  A text is its     *)
(* lines, where "begin", "body" and "end" are those of a block.  The user  *)
(* edits the files too, at any moment.  Flags that only choose paths, the  *)
(* other files uninstall deletes and white space are left out.             *)
(***************************************************************************)
EXTENDS Integers, Sequences, FiniteSets
Seqs == INSTANCE SequencesExt

CONSTANTS HookEvent, managedHookEvents, UserHook, UserLine,
          Ours,           \* the hook whose command contains hookMarker
          MaxUserEdits    \* bound: edits of the user

ASSUME UserFilesAssumption ==
  /\ managedHookEvents \subseteq HookEvent /\ Ours \notin UserHook /\ MaxUserEdits \in Nat
  /\ UserLine \cap {"begin", "body", "end"} = {}

VARIABLES
  settings,    \* settings[ev]: the entries, each a set of hooks
  parseable,   \* the settings file is JSON
  update,      \* updateSettingsFile: what it is going to rename into place
  text,        \* text[m]: the lines of a CLAUDE.md, "global" or "project"
  ownHooks,    \* history: the hooks the user has put into the settings
  ownLines,    \* history: the lines the user has put into the texts
  raced,       \* history: the user edited the settings while they were updated
  tampered,    \* history: the texts in which the user has broken a block
  userEdits    \* clock

userVars == <<settings, parseable, update, text, ownHooks, ownLines, raced, tampered, userEdits>>

NoSettings == [ev \in HookEvent |-> {}]
NoUpdate == [at |-> "idle", out |-> NoSettings]
ManagedBlock == <<"begin", "body", "end">>

UserFilesInit ==
  /\ settings = NoSettings /\ parseable = TRUE /\ update = NoUpdate
  /\ text = [m \in {"global", "project"} |-> <<>>]
  /\ ownHooks = [ev \in HookEvent |-> {}] /\ ownLines = [m \in {"global", "project"} |-> {}]
  /\ raced = FALSE /\ tampered = {} /\ userEdits = 0

-----------------------------------------------------------------------------
(* The user.                                                               *)

EditSettings ==
  /\ userEdits < MaxUserEdits /\ userEdits' = userEdits + 1
  /\ raced' = (raced \/ update.at = "rename")
  /\ UNCHANGED <<update, text, ownLines, tampered>>

\* A hook in an entry of its own, or in one that is there, whoever wrote it.
UserAddsHook(ev, h) ==
  /\ EditSettings /\ parseable /\ h \notin ownHooks[ev]
  /\ \/ settings' = [settings EXCEPT ![ev] = @ \cup {{h}}]
     \/ \E entry \in settings[ev] : settings' = [settings EXCEPT ![ev] = (@ \ {entry}) \cup {entry \cup {h}}]
  /\ ownHooks' = [ownHooks EXCEPT ![ev] = @ \cup {h}]
  /\ UNCHANGED parseable

UserBreaksSettings ==
  /\ EditSettings
  /\ parseable' = ~ parseable
  /\ UNCHANGED <<settings, ownHooks>>

\* A line between the markers belongs to the block, and goes with it.
Whole(s) == \/ \A i \in DOMAIN s : s[i] \in UserLine
            \/ \E i \in 1..(Len(s) - 2) : SubSeq(s, i, i + 2) = ManagedBlock

UserWritesLine(m, u) ==
  /\ userEdits < MaxUserEdits /\ userEdits' = userEdits + 1
  /\ u \notin ownLines[m]
  /\ \E i \in 1..(Len(text[m]) + 1) : text' = [text EXCEPT ![m] = Seqs!InsertAt(@, i, u)]
  /\ ownLines' = [ownLines EXCEPT ![m] = @ \cup {u}]
  /\ tampered' = IF Whole(text'[m]) THEN tampered ELSE tampered \cup {m}
  /\ UNCHANGED <<settings, parseable, update, ownHooks, raced>>

UserDeletesMarker(m) ==
  /\ userEdits < MaxUserEdits /\ userEdits' = userEdits + 1
  /\ \E i \in DOMAIN text[m] :
       text[m][i] \in {"begin", "end"} /\ text' = [text EXCEPT ![m] = Seqs!RemoveAt(@, i)]
  /\ tampered' = tampered \cup {m}
  /\ UNCHANGED <<settings, parseable, update, ownHooks, ownLines, raced>>

-----------------------------------------------------------------------------
(* Hooks.                                                                  *)

entryHasOurs(entry) == Ours \in entry
mergeHooks(s) ==
  [ev \in HookEvent |->
     IF ev \notin managedHookEvents \/ \E entry \in s[ev] : entryHasOurs(entry) THEN s[ev]
     ELSE s[ev] \cup {{Ours}}]

\* Mutant: an entry with a hook of ours goes as a whole.
removeHooksEntries(s) == [ev \in HookEvent |-> {entry \in s[ev] : ~ entryHasOurs(entry)}]

\* Our hooks go, and the entries that are left empty.
removeHooks(s) == [ev \in HookEvent |-> {entry \ {Ours} : entry \in s[ev] \ {{Ours}}}]

\* updateSettingsFile reads the file, computes what it becomes, and stops if that is
\* no change or the file cannot be parsed ...
ReadSettings(out) ==
  update' = IF parseable /\ out # settings THEN [at |-> "rename", out |-> out] ELSE update

\* ... and renames the new file over it, whatever it is by now.
RenameSettings ==
  /\ update.at = "rename"
  /\ settings' = update.out /\ parseable' = TRUE
  /\ update' = NoUpdate
  /\ UNCHANGED <<text, ownHooks, ownLines, raced, tampered, userEdits>>

runSetup ==
  /\ update.at = "idle"
  /\ ReadSettings(mergeHooks(settings))
  /\ UNCHANGED <<settings, parseable, text, ownHooks, ownLines, raced, tampered, userEdits>>

-----------------------------------------------------------------------------
(* Blocks.                                                                 *)

BeginAt(s) == Seqs!SelectInSeq(s, LAMBDA x : x = "begin")
\* The first end marker behind it; 0 if there is none.
EndAt(s) ==
  LET n == Seqs!SelectInSeq(SubSeq(s, BeginAt(s), Len(s)), LAMBDA x : x = "end")
  IN IF n = 0 THEN 0 ELSE BeginAt(s) + n - 1
HasBlock(s) == BeginAt(s) # 0 /\ EndAt(s) # 0
WithBlock(s, block) == SubSeq(s, 1, BeginAt(s) - 1) \o block \o SubSeq(s, EndAt(s) + 1, Len(s))

\* inject: replaces its block, or appends it.
runInject ==
  /\ text' = [text EXCEPT !["project"] = IF HasBlock(@) THEN WithBlock(@, ManagedBlock) ELSE @ \o ManagedBlock]
  /\ UNCHANGED <<settings, parseable, update, ownHooks, ownLines, raced, tampered, userEdits>>

\* injectImportBlock: replaces its block, appends it behind a begin marker without
\* an end, and is all there is in a file without a begin marker.
runRegisterInstructions ==
  /\ text' = [text EXCEPT !["global"] =
                IF HasBlock(@) THEN WithBlock(@, ManagedBlock)
                ELSE IF BeginAt(@) # 0 THEN @ \o ManagedBlock
                ELSE ManagedBlock]
  /\ UNCHANGED <<settings, parseable, update, ownHooks, ownLines, raced, tampered, userEdits>>

\* uninstall: the hooks and removeImportBlock.
runUninstall ==
  /\ update.at = "idle"
  /\ ReadSettings(removeHooks(settings))
  /\ text' = [text EXCEPT !["global"] = IF HasBlock(@) THEN WithBlock(@, <<>>) ELSE @]
  /\ UNCHANGED <<settings, parseable, ownHooks, ownLines, raced, tampered, userEdits>>

UserFilesNext ==
  \/ \E ev \in HookEvent, h \in UserHook : UserAddsHook(ev, h)
  \/ UserBreaksSettings
  \/ \E m \in {"global", "project"} :
       (\E u \in UserLine : UserWritesLine(m, u)) \/ UserDeletesMarker(m)
  \/ runSetup \/ runUninstall \/ RenameSettings
  \/ runInject \/ runRegisterInstructions
UserFilesSpec == UserFilesInit /\ [][UserFilesNext]_userVars

-----------------------------------------------------------------------------
(* Properties.                                                             *)

Lines(s) == {s[i] : i \in DOMAIN s}
HooksIn(s, ev) == (UNION s[ev]) \ {Ours}

\* Setup, inject and uninstall, repeated in any order, keep every hook and every
\* line the user has put between, before or behind theirs ("preserves any existing
\* content in the target file", inject.go:17), unless the user edits the settings
\* in the very moment or breaks a block's markers.
UserContentKept ==
  /\ ~ raced => \A ev \in HookEvent : HooksIn(settings, ev) = ownHooks[ev]
  /\ "project" \notin tampered => ownLines["project"] \subseteq Lines(text["project"])

\* The same of the global CLAUDE.md: register-instructions "idempotently injects an
\* @-import line for the instructions file into ~/.claude/CLAUDE.md using block
\* markers" (register.go:65).
InstructionsKept ==
  "global" \notin tampered => ownLines["global"] \subseteq Lines(text["global"])
=============================================================================
