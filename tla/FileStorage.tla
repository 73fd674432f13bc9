---------------------------- MODULE FileStorage ----------------------------
(***************************************************************************)
(* The file storage of backend/internal/storage/filesystem.go: calls of    *)
(* its methods, made by any number of goroutines, over one directory tree. *)
(*                                                                         *)
(* Save writes a temporary file beside its path and renames it; its name   *)
(* is the name of the call.  DeleteAll, List and Walk read directories and *)
(* then visit what they read, entry by entry.  Every system call is one    *)
(* step, and the process may end between any two.                          *)
(***************************************************************************)
EXTENDS FiniteSets

CONSTANTS
  Path,    \* paths of objects
  Dir,     \* the directories below the root, all of them in the root
  Root,    \* the root directory
  Parent,  \* the directory that each path is in
  Data,    \* contents of objects
  NoFile,  \* no such file
  Torn,    \* what a file holds while it is being written
  Call     \* calls of the methods, and the temporary file of each Save

Name == Path \cup Call

ASSUME NameAssumption ==
  /\ Path \cap Call = {}
  /\ (Path \cup Call) \cap (Dir \cup {Root}) = {}
  /\ Root \notin Dir
  /\ Parent \in [Path -> Dir \cup {Root}]

ASSUME DataAssumption == NoFile \notin Data /\ Torn \notin Data /\ NoFile # Torn

VARIABLES
  file,     \* the content of each name, or NoFile
  dirs,     \* the directories that exist, besides the root
  pc,       \* where each call is
  api,      \* its method
  target,   \* its path, or its prefix
  data,     \* what it saves
  opened,   \* the content of the file it opened
  unread,   \* directories it has still to read
  todo,     \* entries it read and has still to visit
  found,    \* what it will return
  steady    \* history: the objects that were there since it began

args == <<api, target, data>>
visitVars == <<unread, todo, found>>
vars == <<file, dirs, pc, args, opened, visitVars, steady>>

Method == {"Save", "Open", "Delete", "DeleteAll", "List", "Walk"}
Visiting == {"DeleteAll", "List", "Walk"}
Active == {"begin", "made", "writing", "written", "cleanup", "visiting"}
State == Active \cup {"new", "ok", "failed", "leaked", "gone"}

TypeOK ==
  /\ file \in [Name -> Data \cup {NoFile, Torn}]
  /\ dirs \subseteq Dir
  /\ pc \in [Call -> State]
  /\ api \in [Call -> Method]
  /\ target \in [Call -> Path \cup Dir \cup {Root}]
  /\ data \in [Call -> Data \cup {NoFile}]
  /\ opened \in [Call -> Data \cup {NoFile}]
  /\ unread \in [Call -> SUBSET (Dir \cup {Root})]
  /\ todo \in [Call -> SUBSET (Name \cup Dir)]
  /\ found \in [Call -> SUBSET Name]
  /\ steady \in [Call -> SUBSET Path]

\* NewFilesystemStorage opens the root with the objects that it holds.
Init ==
  /\ \E stored \in [Path -> Data \cup {NoFile}] :
       /\ file = [n \in Name |-> IF n \in Path THEN stored[n] ELSE NoFile]
       /\ dirs = {d \in Dir : \E p \in Path : Parent[p] = d /\ stored[p] # NoFile}
  /\ pc = [c \in Call |-> "new"]
  /\ api = [c \in Call |-> "Save"]
  /\ target = [c \in Call |-> Root]
  /\ data = [c \in Call |-> NoFile]
  /\ opened = [c \in Call |-> NoFile]
  /\ unread = [c \in Call |-> {}]
  /\ todo = [c \in Call |-> {}]
  /\ found = [c \in Call |-> {}]
  /\ steady = [c \in Call |-> {}]

There(n) == file[n] # NoFile
Exists(d) == d = Root \/ d \in dirs

\* A temporary file is in the directory of the path it will have.
In(n) == IF n \in Path THEN Parent[n] ELSE Parent[target[n]]

\* The names that exist in a directory.
Entries(d) == {n \in Name : There(n) /\ In(n) = d}

Goto(c, to) == pc' = [pc EXCEPT ![c] = to]

\* A call returns, and what it worked with is gone.
Return(c, result) ==
  /\ Goto(c, result)
  /\ unread' = [unread EXCEPT ![c] = {}]
  /\ todo' = [todo EXCEPT ![c] = {}]
  /\ found' = [found EXCEPT ![c] = {}]

Put(n, content) == file' = [file EXCEPT ![n] = content]

\* n is unlinked, if it is there.
Unlink(n) ==
  /\ Put(n, NoFile)
  /\ steady' = [c \in Call |-> steady[c] \ {n}]

-----------------------------------------------------------------------------
Begin(c) ==
  /\ pc[c] = "new"
  /\ \E m \in Method :
       /\ api' = [api EXCEPT ![c] = m]
       /\ \E t \in IF m \in Visiting THEN Dir \cup {Root} ELSE Path :
            target' = [target EXCEPT ![c] = t]
       /\ IF m = "Save"
            THEN \E d \in Data : data' = [data EXCEPT ![c] = d]
            ELSE UNCHANGED data
       /\ unread' = [unread EXCEPT ![c] = IF m \in Visiting THEN {target'[c]} ELSE {}]
       /\ steady' = [steady EXCEPT ![c] =
                       IF m \in Visiting THEN {p \in Path : There(p)} ELSE {}]
  /\ Goto(c, "begin")
  /\ UNCHANGED <<file, dirs, opened, todo, found>>

\* A system call fails, or a callback of Walk.
Fail(c) ==
  /\ pc[c] \in {"begin", "made", "visiting"}
  /\ Return(c, "failed")
  /\ UNCHANGED <<file, dirs, args, opened, steady>>

\* The process ends: every call ends where it is.
Crash ==
  /\ pc' = [c \in Call |-> IF pc[c] \in Active THEN "gone" ELSE pc[c]]
  /\ pc' # pc
  /\ unread' = [c \in Call |-> {}]
  /\ todo' = [c \in Call |-> {}]
  /\ found' = [c \in Call |-> {}]
  /\ UNCHANGED <<file, dirs, args, opened, steady>>

-----------------------------------------------------------------------------
(* Save.                                                                   *)

MkdirAll(c) ==
  /\ pc[c] = "begin" /\ api[c] = "Save"
  /\ dirs' = dirs \cup ({Parent[target[c]]} \ {Root})
  /\ Goto(c, "made")
  /\ UNCHANGED <<file, args, opened, visitVars, steady>>

\* Mutant: the file is written at its final path.
CreateInPlace(c) ==
  /\ pc[c] = "made" /\ Exists(Parent[target[c]])
  /\ file' = [file EXCEPT ![c] = Torn, ![target[c]] = Torn]
  /\ Goto(c, "writing")
  /\ UNCHANGED <<dirs, args, opened, visitVars, steady>>

CreateTmp(c) ==
  /\ pc[c] = "made" /\ Exists(Parent[target[c]])
  /\ Put(c, Torn)
  /\ Goto(c, "writing")
  /\ UNCHANGED <<dirs, args, opened, visitVars, steady>>

\* io.Copy, all of it.  The file may have been unlinked meanwhile.
Copy(c) ==
  /\ pc[c] = "writing"
  /\ IF There(c) THEN Put(c, data[c]) ELSE UNCHANGED file
  /\ Goto(c, "written")
  /\ UNCHANGED <<dirs, args, opened, visitVars, steady>>

\* Mutant: an error of io.Copy returns without removing the file.
CopyFailsAndReturns(c) ==
  /\ pc[c] = "writing"
  /\ Return(c, "failed")
  /\ UNCHANGED <<file, dirs, args, opened, steady>>

CopyFails(c) ==
  /\ pc[c] = "writing"
  /\ Goto(c, "cleanup")
  /\ UNCHANGED <<file, dirs, args, opened, visitVars, steady>>

Rename(c) ==
  /\ pc[c] = "written" /\ There(c)
  /\ file' = [file EXCEPT ![target[c]] = file[c], ![c] = NoFile]
  /\ Return(c, "ok")
  /\ UNCHANGED <<dirs, args, opened, steady>>

\* Close or Rename fails, or the file is no longer there.
RenameFails(c) ==
  /\ pc[c] = "written"
  /\ Goto(c, "cleanup")
  /\ UNCHANGED <<file, dirs, args, opened, visitVars, steady>>

\* Mutant: the cleanup removes path instead of tmpName.
RemoveTarget(c) ==
  /\ pc[c] = "cleanup"
  /\ Unlink(target[c])
  /\ Return(c, "failed")
  /\ UNCHANGED <<dirs, args, opened>>

RemoveTmp(c) ==
  /\ pc[c] = "cleanup"
  /\ Unlink(c)
  /\ Return(c, "failed")
  /\ UNCHANGED <<dirs, args, opened>>

\* The error of this Remove is ignored.
RemoveTmpFails(c) ==
  /\ pc[c] = "cleanup"
  /\ Return(c, "leaked")
  /\ UNCHANGED <<file, dirs, args, opened, steady>>

-----------------------------------------------------------------------------
(* Open and Delete.                                                        *)

\* The file stays what it is when its name is given to another one.
Open(c) ==
  /\ pc[c] = "begin" /\ api[c] = "Open" /\ There(target[c])
  /\ opened' = [opened EXCEPT ![c] = file[target[c]]]
  /\ Return(c, "ok")
  /\ UNCHANGED <<file, dirs, args, steady>>

\* A path that does not exist is not an error.
Delete(c) ==
  /\ pc[c] = "begin" /\ api[c] = "Delete"
  /\ Unlink(target[c])
  /\ Return(c, "ok")
  /\ UNCHANGED <<dirs, args, opened>>

-----------------------------------------------------------------------------
(* DeleteAll, List and Walk.                                               *)

\* Mutant: the directories below the root are not entered.
ReadDirFlat(c) ==
  \E d \in unread[c] :
    /\ pc[c] \in {"begin", "visiting"} /\ Exists(d)
    /\ unread' = [unread EXCEPT ![c] = @ \ {d}]
    /\ todo' = [todo EXCEPT ![c] = @ \cup Entries(d)]
    /\ Goto(c, "visiting")
    /\ UNCHANGED <<file, dirs, args, opened, found, steady>>

\* Of the directories in the root DeleteAll deletes each, Walk enters each and
\* List returns none.  A directory is read at once: a large one takes several
\* getdents calls, between which entries come and go, and of these the list may
\* then have some and not others; those that are there throughout it has, too.
ReadDir(c) ==
  \E d \in unread[c] :
    LET inside == IF d = Root /\ api[c] # "List" THEN dirs ELSE {} IN
    /\ pc[c] \in {"begin", "visiting"} /\ Exists(d)
    /\ unread' = [unread EXCEPT ![c] = (@ \ {d}) \cup inside]
    /\ todo' = [todo EXCEPT ![c] =
                  @ \cup Entries(d)
                    \cup (IF api[c] = "DeleteAll" THEN inside \cup ({d} \ {Root})
                                                  ELSE {})]
    /\ Goto(c, "visiting")
    /\ UNCHANGED <<file, dirs, args, opened, found, steady>>

\* The directory is gone: DeleteAll has nothing to do there, List and Walk fail.
ReadDirMissing(c) ==
  \E d \in unread[c] :
    /\ pc[c] \in {"begin", "visiting"} /\ ~Exists(d)
    /\ IF api[c] = "DeleteAll"
         THEN /\ unread' = [unread EXCEPT ![c] = @ \ {d}]
              /\ todo' = [todo EXCEPT ![c] = @ \ {d}]
              /\ Goto(c, "visiting")
              /\ UNCHANGED found
         ELSE Return(c, "failed")
    /\ UNCHANGED <<file, dirs, args, opened, steady>>

Visited(c, n) == todo' = [todo EXCEPT ![c] = @ \ {n}]

RemoveEntry(c) ==
  /\ api[c] = "DeleteAll"
  /\ \E n \in todo[c] \cap Name :
       /\ Unlink(n)
       /\ Visited(c, n)
  /\ UNCHANGED <<dirs, pc, args, opened, unread, found>>

\* An emptied directory is removed; one that a Save has used since is an error.
RemoveDir(c) ==
  /\ api[c] = "DeleteAll"
  /\ \E d \in todo[c] \cap Dir :
       /\ d \notin unread[c] /\ \A n \in todo[c] \cap Name : In(n) # d
       /\ IF Entries(d) = {}
            THEN /\ dirs' = dirs \ {d}
                 /\ Visited(c, d)
                 /\ UNCHANGED <<pc, unread, found>>
            ELSE Return(c, "failed") /\ UNCHANGED dirs
  /\ UNCHANGED <<file, args, opened, steady>>

\* Info: an entry that is no longer there is an error.
Info(c) ==
  /\ api[c] \in {"List", "Walk"}
  /\ \E n \in todo[c] :
       IF There(n)
         THEN /\ found' = [found EXCEPT ![c] = @ \cup {n}]
              /\ Visited(c, n)
              /\ UNCHANGED <<pc, unread>>
         ELSE Return(c, "failed")
  /\ UNCHANGED <<file, dirs, args, opened, steady>>

\* Mutant: the loop over the entries returns after the first one.
FinishEarly(c) ==
  /\ pc[c] = "visiting" /\ unread[c] = {}
  /\ Return(c, "ok")
  /\ UNCHANGED <<file, dirs, args, opened, steady>>

Finish(c) ==
  /\ pc[c] = "visiting" /\ unread[c] = {} /\ todo[c] = {}
  /\ Return(c, "ok")
  /\ UNCHANGED <<file, dirs, args, opened, steady>>

-----------------------------------------------------------------------------
Next ==
  \/ Crash
  \/ \E c \in Call :
       \/ Begin(c) \/ Fail(c)
       \/ MkdirAll(c) \/ CreateTmp(c) \/ Copy(c) \/ CopyFails(c)
       \/ Rename(c) \/ RenameFails(c) \/ RemoveTmp(c) \/ RemoveTmpFails(c)
       \/ Open(c) \/ Delete(c)
       \/ ReadDir(c) \/ ReadDirMissing(c) \/ RemoveEntry(c) \/ RemoveDir(c)
       \/ Info(c) \/ Finish(c)

Spec == Init /\ [][Next]_vars

-----------------------------------------------------------------------------
(* Properties.                                                             *)

Below(prefix) == {p \in Path : prefix \in {Root, Parent[p]}}
Listed(prefix) == {p \in Path : Parent[p] = prefix}

\* A Save that has returned leaves no temporary file, unless its process ended
\* or the removal failed as well.
NoDebris ==
  \A c \in Call : There(c) => pc[c] \in Active \cup {"gone", "leaked"}

\* When DeleteAll succeeds, none of the objects below its prefix has survived
\* it, whatever is saved meanwhile.
DeleteAllDeletes ==
  [][\A c \in Call :
       Finish(c) /\ api[c] = "DeleteAll" =>
         steady[c] \cap Below(target[c]) = {}]_vars

\* When List or Walk succeeds, it returns every object that was there all along.
ListingComplete ==
  [][\A c \in Call :
       Finish(c) /\ api[c] \in {"List", "Walk"} =>
         steady[c] \cap (IF api[c] = "Walk" THEN Below(target[c])
                                            ELSE Listed(target[c]))
           \subseteq found[c]]_vars

\* The directory tree implements a store of whole objects.
Objects ==
  INSTANCE ObjectStore WITH
    store <- [p \in Path |-> file[p]],
    status <- [c \in Call |->
                 CASE pc[c] \in Active -> "active"
                   [] pc[c] \in {"leaked", "gone"} -> "failed"
                   [] OTHER -> pc[c]]
ObjectSpec == Objects!Spec
=============================================================================
