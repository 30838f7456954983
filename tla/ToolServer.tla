----------------------------- MODULE ToolServer -----------------------------
(***************************************************************************)
(* Tool calls over one graph file (internal/mcp/tools.go, ops.go): every   *)
(* server process serializes its calls with one lock, refreshes its graph, *)
(* runs the handler, and saves what the handler journalled before it       *)
(* answers.  PersistentGraph models the repository itself; here a node is  *)
(* a key, Save lays the journal over the file, and a handler is one step:  *)
(* what other servers save while it runs is laid over by its own Save all  *)
(* the same.                                                               *)
(***************************************************************************)
EXTENDS Naturals, FiniteSets

CONSTANTS Server,
          Key,        \* the identities of the nodes
          None,       \* no node
          Same,       \* a node the journal does not touch
          MaxCrashes  \* bound: server processes killed, and saves that fail

ASSUME KeyAssumption == None # Same /\ {None, Same} \cap Key = {}

VARIABLES
  file,      \* file[k]: the properties of node k in the graph file
  journal,   \* journal[p][k]: what p wrote and has not saved, or Same
  calling,   \* calling[p]: "idle", or the lock is held and Save is next
  reply,     \* reply[p]: what the running call answers once it is saved
  answered,  \* history: the replies that reached a client
  crashes    \* clock

serverVars == <<file, journal, calling, reply, answered, crashes>>

NoWrites == [k \in Key |-> Same]
Write(k, value) == [NoWrites EXCEPT ![k] = value]
Over(writes, base) == [k \in Key |-> IF writes[k] = Same THEN base[k] ELSE writes[k]]

\* What a read of server p returns: its journal over the file.
View(p) == Over(journal[p], file)

ServerInit ==
  /\ file = [k \in Key |-> None]
  /\ journal = [p \in Server |-> NoWrites]
  /\ calling = [p \in Server |-> "idle"]
  /\ reply = [p \in Server |-> None]
  /\ answered = {}
  /\ crashes = 0

\* Call: lock, Refresh, the handler, which journals writes and answers r.
Handle(p, writes, r) ==
  /\ calling[p] = "idle"
  /\ journal' = [journal EXCEPT ![p] = Over(writes, @)]
  /\ calling' = [calling EXCEPT ![p] = "saving"]
  /\ reply' = [reply EXCEPT ![p] = r]
  /\ UNCHANGED <<file, answered, crashes>>

\* A refused call: nothing is journalled and the error is the answer.
Refuse(p) == Handle(p, NoWrites, None)

\* Mutant: the answer goes out before the save.
SaveLater(p) ==
  /\ calling[p] = "saving"
  /\ file' = file
  /\ journal' = journal
  /\ calling' = [calling EXCEPT ![p] = "idle"]
  /\ reply' = [reply EXCEPT ![p] = None]
  /\ answered' = answered \cup ({reply[p]} \ {None})
  /\ UNCHANGED crashes

\* Call: Save, unlock and answer.
Save(p) ==
  /\ calling[p] = "saving"
  /\ file' = View(p)
  /\ journal' = [journal EXCEPT ![p] = NoWrites]
  /\ calling' = [calling EXCEPT ![p] = "idle"]
  /\ reply' = [reply EXCEPT ![p] = None]
  /\ answered' = answered \cup ({reply[p]} \ {None})
  /\ UNCHANGED crashes

\* Save fails: the client is told so, and the journal stays for a later call.
SaveFails(p) ==
  /\ calling[p] = "saving" /\ crashes < MaxCrashes
  /\ calling' = [calling EXCEPT ![p] = "idle"]
  /\ reply' = [reply EXCEPT ![p] = None]
  /\ crashes' = crashes + 1
  /\ UNCHANGED <<file, journal, answered>>

\* The process is killed and started again.
Killed(p) ==
  /\ crashes < MaxCrashes
  /\ journal' = [journal EXCEPT ![p] = NoWrites]
  /\ calling' = [calling EXCEPT ![p] = "idle"]
  /\ reply' = [reply EXCEPT ![p] = None]
  /\ crashes' = crashes + 1
  /\ UNCHANGED <<file, answered>>

Settle(p) == Save(p) \/ SaveFails(p) \/ Killed(p)
=============================================================================
