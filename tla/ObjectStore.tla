---------------------------- MODULE ObjectStore ----------------------------
(***************************************************************************)
(* What the users of a FileStorage (backend/internal/storage/storage.go)   *)
(* rely on: objects are saved, opened and deleted as a whole.  A call has  *)
(* its effect at one moment between its start and its return, and none if  *)
(* it fails; only DeleteAll takes its objects one after the other.         *)
(***************************************************************************)
CONSTANTS Path, Dir, Root, Parent, Data, NoFile, Call

VARIABLES
  store,   \* the data at each path, or NoFile
  status,  \* of each call: new, active, ok or failed
  api,     \* its method
  target,  \* its path or prefix
  data,    \* what it saves
  opened   \* what it opened

args == <<api, target, data>>
vars == <<store, status, args, opened>>

Method == {"Save", "Open", "Delete", "DeleteAll", "List", "Walk"}

Init ==
  /\ store \in [Path -> Data \cup {NoFile}]
  /\ status = [c \in Call |-> "new"]
  /\ api \in [Call -> Method]
  /\ opened = [c \in Call |-> NoFile]

Begin(c) ==
  /\ status[c] = "new"
  /\ status' = [status EXCEPT ![c] = "active"]
  /\ UNCHANGED <<store, opened>>

Active(c, method) == status[c] = "active" /\ api[c] = method

Return(c, result) ==
  /\ status' = [status EXCEPT ![c] = result]
  /\ UNCHANGED args

Save(c) ==
  /\ Active(c, "Save")
  /\ store' = [store EXCEPT ![target[c]] = data[c]]
  /\ Return(c, "ok")
  /\ UNCHANGED opened

Open(c) ==
  /\ Active(c, "Open") /\ store[target[c]] # NoFile
  /\ opened' = [opened EXCEPT ![c] = store[target[c]]]
  /\ Return(c, "ok")
  /\ UNCHANGED store

Delete(c) ==
  /\ Active(c, "Delete")
  /\ store' = [store EXCEPT ![target[c]] = NoFile]
  /\ Return(c, "ok")
  /\ UNCHANGED opened

DeleteNext(c) ==
  /\ Active(c, "DeleteAll")
  /\ \E p \in Path :
       /\ target[c] \in {Root, Parent[p]}
       /\ store' = [store EXCEPT ![p] = NoFile]
  /\ UNCHANGED <<status, args, opened>>

ReturnUnchanged(c) ==
  /\ \E m \in {"DeleteAll", "List", "Walk"} : Active(c, m)
  /\ Return(c, "ok")
  /\ UNCHANGED <<store, opened>>

\* Calls fail, or their process ends.
Fail ==
  /\ status' \in [Call -> {"new", "active", "ok", "failed"}]
  /\ \A c \in Call :
       status'[c] # status[c] => status[c] = "active" /\ status'[c] = "failed"
  /\ UNCHANGED <<store, args, opened>>

Next ==
  \/ Fail
  \/ \E c \in Call :
       \/ Begin(c) \/ Save(c) \/ Open(c) \/ Delete(c)
       \/ DeleteNext(c) \/ ReturnUnchanged(c)

Spec == Init /\ [][Next]_vars
=============================================================================
