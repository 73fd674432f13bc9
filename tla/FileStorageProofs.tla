------------------------- MODULE FileStorageProofs -------------------------
(***************************************************************************)
(* Proofs about the file storage, for any number of concurrent calls, any  *)
(* objects and any directories below the root.                             *)
(***************************************************************************)
EXTENDS FileStorage, TLAPS

-----------------------------------------------------------------------------
(* Types.  They rest on what makes a Save atomic: no path ever names a     *)
(* file that is being written.                                             *)

Saving == {"made", "writing", "written", "cleanup"}

\* Each method is called with its kind of argument, and goes its own way.
GoodArgs ==
  \A c \in Call :
    /\ pc[c] = "new" => api[c] = "Save" /\ todo[c] = {}
    /\ api[c] \in {"List", "Walk"} => todo[c] \subseteq Name
    /\ unread[c] # {} => api[c] \in Visiting
    /\ pc[c] # "new" =>
         target[c] \in (IF api[c] \in Visiting THEN Dir \cup {Root} ELSE Path)
    /\ pc[c] # "new" /\ api[c] = "Save" => data[c] \in Data
    /\ pc[c] \in Saving => api[c] = "Save"
    /\ pc[c] = "visiting" => api[c] \in Visiting

Whole == \A p \in Path : file[p] # Torn

\* A temporary file belongs to a Save that has created it.
OwnTmp ==
  \A c \in Call :
    There(c) => /\ pc[c] \in {"writing", "written", "cleanup", "gone", "leaked"}
                /\ api[c] = "Save"

\* What is renamed is complete, unless it is gone.
WrittenTmp == \A c \in Call : pc[c] = "written" => file[c] \in {NoFile, data[c]}

TypeInv == TypeOK /\ GoodArgs /\ Whole /\ OwnTmp /\ WrittenTmp

LEMMA TypeInit == Init => TypeInv
<1> SUFFICES ASSUME Init
             PROVE  TypeInv
  OBVIOUS
<1>1. PICK stored \in [Path -> Data \cup {NoFile}] :
        /\ file = [n \in Name |-> IF n \in Path THEN stored[n] ELSE NoFile]
        /\ dirs = {d \in Dir : \E p \in Path : Parent[p] = d /\ stored[p] # NoFile}
  BY DEF Init
<1>2. TypeOK
  BY <1>1 DEF Init, TypeOK, State, Active, Method
<1>3. Whole
  BY <1>1, DataAssumption DEF Whole, Name
<1>4. OwnTmp
  BY <1>1, NameAssumption DEF OwnTmp, There, Name
<1> QED
  BY <1>2, <1>3, <1>4 DEF Init, TypeInv, GoodArgs, WrittenTmp, Saving

\* A call that returns keeps types and arguments.
LEMMA ReturnStep ==
  ASSUME TypeInv, NEW c \in Call, NEW r \in {"ok", "failed", "leaked"}, Return(c, r),
         UNCHANGED <<args, dirs, opened>>,
         file' \in [Name -> Data \cup {NoFile, Torn}],
         steady' \in [Call -> SUBSET Path],
         \A p \in Path : file'[p] \in {file[p], NoFile},
         \A d \in Call : file'[d] \in {file[d], NoFile},
         pc[c] # "new",
         file'[c] # NoFile => r = "leaked" /\ pc[c] = "cleanup"
  PROVE  TypeInv'
<1> USE DEF TypeInv
<1>1. pc' = [pc EXCEPT ![c] = r] /\ pc' \in [Call -> State]
  BY DEF Return, Goto, TypeOK, State, Active
<1>2. /\ unread' \in [Call -> SUBSET (Dir \cup {Root})]
      /\ todo' \in [Call -> SUBSET (Name \cup Dir)]
      /\ found' \in [Call -> SUBSET Name]
  BY DEF Return, TypeOK
<1>3. TypeOK'
  BY <1>1, <1>2 DEF TypeOK, args
<1>4. GoodArgs'
  BY <1>1, <1>2 DEF GoodArgs, Return, args, TypeOK, Saving
<1>5. Whole'
  BY DataAssumption DEF Whole
<1>6. OwnTmp'
  <2> SUFFICES ASSUME NEW d \in Call, file'[d] # NoFile
               PROVE  /\ pc'[d] \in {"writing", "written", "cleanup", "gone", "leaked"}
                      /\ api[d] = "Save"
    BY DEF OwnTmp, There, args
  <2>1. There(d)
    BY DEF There
  <2> QED
    BY <1>1, <2>1 DEF OwnTmp, TypeOK
<1>7. WrittenTmp'
  BY <1>1 DEF WrittenTmp, args, TypeOK
<1> QED
  BY <1>3, <1>4, <1>5, <1>6, <1>7

\* A call that neither returns nor writes a file does too.
LEMMA MoveStep ==
  ASSUME TypeInv, NEW c \in Call, NEW s \in State,
         UNCHANGED <<file, args, opened, steady>>,
         dirs' \subseteq Dir,
         pc' = [pc EXCEPT ![c] = s],
         unread' \in [Call -> SUBSET (Dir \cup {Root})],
         todo' \in [Call -> SUBSET (Name \cup Dir)],
         found' \in [Call -> SUBSET Name],
         \A d \in Call : todo'[d] # todo[d] =>
           d = c /\ (api[c] \in {"List", "Walk"} => todo'[c] \subseteq Name),
         \A d \in Call : unread'[d] # unread[d] => d = c /\ api[c] \in Visiting,
         pc[c] # "new", s # "new",
         s \in Saving => api[c] = "Save",
         s = "visiting" => api[c] \in Visiting,
         There(c) => s \in {"cleanup", "gone"},
         s # "written"
  PROVE  TypeInv'
<1> USE DEF TypeInv
<1>1. TypeOK'
  BY DEF TypeOK, args
<1>2. GoodArgs'
  BY DEF GoodArgs, args, TypeOK
<1>3. Whole' /\ WrittenTmp'
  BY DEF Whole, WrittenTmp, args, TypeOK
<1>4. OwnTmp'
  BY DEF OwnTmp, There, args, TypeOK
<1> QED
  BY <1>1, <1>2, <1>3, <1>4

\* A visit goes on: names and directories may go, and nothing else changes.
LEMMA VisitStep ==
  ASSUME TypeInv, UNCHANGED <<pc, args, opened>>,
         file' \in [Name -> Data \cup {NoFile, Torn}],
         \A n \in Name : file'[n] \in {file[n], NoFile},
         dirs' \subseteq Dir,
         UNCHANGED unread,
         todo' \in [Call -> SUBSET (Name \cup Dir)],
         found' \in [Call -> SUBSET Name],
         \A c \in Call : todo'[c] \subseteq todo[c],
         steady' \in [Call -> SUBSET Path]
  PROVE  TypeInv'
<1> USE DEF TypeInv
<1>1. TypeOK'
  BY DEF TypeOK, args
<1>2. GoodArgs'
  BY DEF GoodArgs, args
<1>3. Whole' /\ WrittenTmp'
  BY DataAssumption DEF Whole, WrittenTmp, args, Name
<1>4. OwnTmp'
  BY DEF OwnTmp, There, args, Name
<1> QED
  BY <1>1, <1>2, <1>3, <1>4

\* Removing a name is all right anywhere.
LEMMA UnlinkStep ==
  ASSUME TypeOK, NEW n \in Name, Unlink(n)
  PROVE  /\ file' \in [Name -> Data \cup {NoFile, Torn}]
         /\ steady' \in [Call -> SUBSET Path]
         /\ file'[n] = NoFile
         /\ \A m \in Name : file'[m] \in {file[m], NoFile}
         /\ \A m \in Name \ {n} : file'[m] = file[m]
         /\ \A d \in Call : steady'[d] = steady[d] \ {n}
BY DEF Unlink, Put, TypeOK

LEMMA NotThere == ASSUME TypeInv, NEW c \in Call, pc[c] \in {"begin", "visiting", "made"}
                  PROVE  ~There(c)
BY DEF TypeInv, OwnTmp

LEMMA TypeStep == TypeInv /\ [Next]_vars => TypeInv'
<1> SUFFICES ASSUME TypeInv, [Next]_vars
             PROVE  TypeInv'
  OBVIOUS
<1> USE DEF TypeInv
<1>0. TypeOK
  OBVIOUS
<1>1. CASE Crash
  <2>1. /\ pc' = [c \in Call |-> IF pc[c] \in Active THEN "gone" ELSE pc[c]]
        /\ UNCHANGED <<file, dirs, api, target, data, opened, steady>>
        /\ unread' = [c \in Call |-> {}]
        /\ todo' = [c \in Call |-> {}]
        /\ found' = [c \in Call |-> {}]
    BY <1>1 DEF Crash, args
  <2>2. TypeOK'
    BY <2>1 DEF TypeOK, State
  <2>3. GoodArgs' /\ WrittenTmp' /\ Whole'
    BY <2>1 DEF GoodArgs, WrittenTmp, Whole, Active, Saving
  <2>4. OwnTmp'
    BY <2>1 DEF OwnTmp, There, Active
  <2> QED
    BY <2>2, <2>3, <2>4
<1>2. ASSUME NEW c \in Call, Begin(c)
      PROVE  TypeInv'
  <2>0. PICK m \in Method :
          /\ api' = [api EXCEPT ![c] = m]
          /\ \E t \in IF m \in Visiting THEN Dir \cup {Root} ELSE Path :
               target' = [target EXCEPT ![c] = t]
          /\ IF m = "Save"
               THEN \E d \in Data : data' = [data EXCEPT ![c] = d]
               ELSE UNCHANGED data
          /\ unread' = [unread EXCEPT ![c] = IF m \in Visiting THEN {target'[c]} ELSE {}]
          /\ steady' = [steady EXCEPT ![c] =
                          IF m \in Visiting THEN {p \in Path : There(p)} ELSE {}]
    BY <1>2 DEF Begin
  <2>1. PICK t \in (IF m \in Visiting THEN Dir \cup {Root} ELSE Path) :
          target' = [target EXCEPT ![c] = t]
    BY <2>0
  <2>2. /\ pc[c] = "new" /\ pc' = [pc EXCEPT ![c] = "begin"]
        /\ UNCHANGED <<file, dirs, opened, todo, found>>
    BY <1>2 DEF Begin, Goto
  <2>3. target'[c] = t /\ target' \in [Call -> Path \cup Dir \cup {Root}]
    BY <2>1 DEF TypeOK, Visiting
  <2>4. /\ data' \in [Call -> Data \cup {NoFile}]
        /\ m = "Save" => data'[c] \in Data
        /\ \A d \in Call \ {c} : data'[d] = data[d]
    BY <2>0 DEF TypeOK
  <2>5. /\ unread' \in [Call -> SUBSET (Dir \cup {Root})]
        /\ steady' \in [Call -> SUBSET Path]
    BY <2>0, <2>1, <2>3 DEF TypeOK, Visiting
  <2>6. TypeOK'
    BY <2>0, <2>1, <2>2, <2>3, <2>4, <2>5 DEF TypeOK, State, Active
  <2>7. GoodArgs'
    BY <2>0, <2>1, <2>2, <2>3, <2>4 DEF GoodArgs, TypeOK, Saving
  <2>8. ~There(c)
    BY <2>2 DEF OwnTmp
  <2>9. OwnTmp' /\ Whole' /\ WrittenTmp'
    BY <2>0, <2>1, <2>2, <2>4, <2>8 DEF OwnTmp, Whole, WrittenTmp, There, TypeOK
  <2> QED
    BY <2>6, <2>7, <2>9
<1>3. ASSUME NEW c \in Call, Fail(c) \/ Finish(c)
      PROVE  TypeInv'
  <2>1. \E r \in {"ok", "failed", "leaked"} : Return(c, r)
    BY <1>3 DEF Fail, Finish
  <2>2. file[c] = NoFile /\ pc[c] # "new"
    BY <1>3, NotThere DEF Fail, Finish, There
  <2> QED
    BY <1>3, <2>1, <2>2, ReturnStep DEF Fail, Finish, TypeOK
<1>4. ASSUME NEW c \in Call, MkdirAll(c)
      PROVE  TypeInv'
  <2>1. dirs' \subseteq Dir
    BY <1>4, NameAssumption DEF MkdirAll, GoodArgs, Visiting, TypeOK
  <2>2. ~There(c)
    BY <1>4, NotThere DEF MkdirAll
  <2> QED
    BY <1>4, <2>1, <2>2, MoveStep
    DEF MkdirAll, Goto, State, Active, Saving, visitVars, TypeOK
<1>5. ASSUME NEW c \in Call, CreateTmp(c) \/ Copy(c)
      PROVE  TypeInv'
  <2>1. PICK s \in {"writing", "written"} :
          /\ pc' = [pc EXCEPT ![c] = s]
          /\ s = "written" => pc[c] = "writing"
          /\ s = "writing" => Put(c, Torn)
          /\ s = "written" => IF There(c) THEN Put(c, data[c]) ELSE UNCHANGED file
    BY <1>5 DEF CreateTmp, Copy, Goto
  <2>2. pc[c] \in Saving /\ api[c] = "Save" /\ data[c] \in Data
    BY <1>5 DEF CreateTmp, Copy, Saving, GoodArgs
  <2>3. UNCHANGED <<dirs, api, target, data, opened, unread, todo, found, steady>>
    BY <1>5 DEF CreateTmp, Copy, args, visitVars
  <2>4. /\ file' \in [Name -> Data \cup {NoFile, Torn}]
        /\ \A n \in Name \ {c} : file'[n] = file[n]
        /\ s = "written" => file'[c] \in {NoFile, data[c]}
    BY <2>1, <2>2 DEF Put, There, TypeOK, Name
  <2>5. TypeOK'
    BY <2>1, <2>3, <2>4 DEF TypeOK, State, Active
  <2>6. GoodArgs'
    BY <2>1, <2>2, <2>3 DEF GoodArgs, TypeOK, Saving
  <2>7. Whole'
    BY <2>4, NameAssumption DEF Whole, Name
  <2>8. OwnTmp'
    BY <2>1, <2>2, <2>3, <2>4 DEF OwnTmp, There, TypeOK, Name
  <2>9. WrittenTmp'
    BY <2>1, <2>3, <2>4 DEF WrittenTmp, TypeOK, Name
  <2> QED
    BY <2>5, <2>6, <2>7, <2>8, <2>9
<1>6. ASSUME NEW c \in Call, CopyFails(c) \/ RenameFails(c)
      PROVE  TypeInv'
  <2>1. pc[c] \in Saving /\ api[c] = "Save"
    BY <1>6 DEF CopyFails, RenameFails, Saving, GoodArgs
  <2> QED
    BY <1>6, <2>1, MoveStep
    DEF CopyFails, RenameFails, Goto, State, Active, Saving, visitVars, TypeOK
<1>7. ASSUME NEW c \in Call, Rename(c)
      PROVE  TypeInv'
  <2>1. /\ target[c] \in Path /\ api[c] = "Save"
        /\ file[c] = data[c] /\ data[c] \in Data
    BY <1>7 DEF Rename, GoodArgs, Saving, Visiting, WrittenTmp, There
  <2>2. target[c] # c /\ target[c] \in Name /\ c \in Name
    BY <2>1, NameAssumption DEF Name
  <2>3. /\ file' \in [Name -> Data \cup {NoFile, Torn}]
        /\ file'[c] = NoFile
        /\ file'[target[c]] = data[c]
        /\ \A n \in Name \ {c, target[c]} : file'[n] = file[n]
    BY <1>7, <2>1, <2>2 DEF Rename, TypeOK
  <2>4. /\ pc' = [pc EXCEPT ![c] = "ok"]
        /\ unread' \in [Call -> SUBSET (Dir \cup {Root})]
        /\ todo' \in [Call -> SUBSET (Name \cup Dir)]
        /\ found' \in [Call -> SUBSET Name]
        /\ UNCHANGED <<dirs, api, target, data, opened, steady>>
    BY <1>7 DEF Rename, Return, Goto, TypeOK, args
  <2>5. TypeOK'
    BY <2>3, <2>4 DEF TypeOK, State
  <2>6. GoodArgs'
    BY <1>7, <2>4 DEF Rename, Return, GoodArgs, TypeOK, Saving
  <2>7. Whole'
    BY <2>1, <2>3, NameAssumption, DataAssumption DEF Whole, Name
  <2>8. \A d \in Call : d # target[c]
    BY <2>1, NameAssumption
  <2>9. OwnTmp'
    BY <2>3, <2>4, <2>8 DEF OwnTmp, There, TypeOK, Name
  <2>10. WrittenTmp'
    BY <2>3, <2>4, <2>8 DEF WrittenTmp, TypeOK, Name
  <2> QED
    BY <2>5, <2>6, <2>7, <2>9, <2>10
<1>8. ASSUME NEW c \in Call, RemoveTmp(c)
      PROVE  TypeInv'
  <2>1. c \in Name /\ Path \subseteq Name /\ Call \subseteq Name
    BY DEF Name
  <2>2. Unlink(c) /\ Return(c, "failed") /\ pc[c] = "cleanup"
    BY <1>8 DEF RemoveTmp
  <2>3. UNCHANGED <<args, dirs, opened>>
    BY <1>8 DEF RemoveTmp
  <2> HIDE DEF TypeInv
  <2> QED
    BY <1>0, <2>1, <2>2, <2>3, UnlinkStep, ReturnStep
<1>9. ASSUME NEW c \in Call, RemoveTmpFails(c)
      PROVE  TypeInv'
  BY <1>9, ReturnStep DEF RemoveTmpFails, TypeOK
<1>10. ASSUME NEW c \in Call, Open(c)
       PROVE  TypeInv'
  <2>1. target[c] \in Path
    BY <1>10 DEF Open, GoodArgs, Visiting
  <2>2. opened' \in [Call -> Data \cup {NoFile}]
    BY <1>10, <2>1 DEF Open, Whole, TypeOK, Name
  <2>3. /\ pc' = [pc EXCEPT ![c] = "ok"]
        /\ unread' \in [Call -> SUBSET (Dir \cup {Root})]
        /\ todo' \in [Call -> SUBSET (Name \cup Dir)]
        /\ found' \in [Call -> SUBSET Name]
        /\ UNCHANGED <<file, dirs, api, target, data, steady>>
    BY <1>10 DEF Open, Return, Goto, TypeOK, args
  <2>4. TypeOK'
    BY <2>2, <2>3 DEF TypeOK, State
  <2>5. ~There(c) /\ pc[c] = "begin"
    BY <1>10, NotThere DEF Open
  <2>6. GoodArgs' /\ Whole' /\ WrittenTmp'
    BY <1>10, <2>3, <2>5 DEF Open, Return, GoodArgs, Whole, WrittenTmp, TypeOK, Saving
  <2>7. OwnTmp'
    BY <2>3, <2>5 DEF OwnTmp, There, TypeOK
  <2> QED
    BY <2>4, <2>6, <2>7
<1>11. ASSUME NEW c \in Call, Delete(c)
       PROVE  TypeInv'
  <2>1. target[c] \in Name /\ Path \subseteq Name /\ Call \subseteq Name
    BY <1>11 DEF Delete, GoodArgs, Visiting, Name
  <2>2. Unlink(target[c]) /\ Return(c, "ok") /\ pc[c] = "begin"
    BY <1>11 DEF Delete
  <2>3. UNCHANGED <<args, dirs, opened>>
    BY <1>11 DEF Delete
  <2>4. file[c] = NoFile
    BY <2>2, NotThere DEF There
  <2> HIDE DEF TypeInv
  <2> QED
    BY <1>0, <2>1, <2>2, <2>3, <2>4, UnlinkStep, ReturnStep
<1>12. ASSUME NEW c \in Call, ReadDir(c)
       PROVE  TypeInv'
  <2>1. PICK d \in unread[c] :
          LET inside == IF d = Root /\ api[c] # "List" THEN dirs ELSE {} IN
          /\ pc[c] \in {"begin", "visiting"} /\ Exists(d)
          /\ unread' = [unread EXCEPT ![c] = (@ \ {d}) \cup inside]
          /\ todo' = [todo EXCEPT ![c] =
                        @ \cup Entries(d)
                          \cup (IF api[c] = "DeleteAll" THEN inside \cup ({d} \ {Root})
                                                        ELSE {})]
          /\ Goto(c, "visiting")
          /\ UNCHANGED <<file, dirs, args, opened, found, steady>>
    BY <1>12 DEF ReadDir
  <2> HIDE <1>12
  <2>2. d \in Dir \cup {Root} /\ Entries(d) \subseteq Name /\ dirs \subseteq Dir
    BY DEF TypeOK, Entries
  <2>3. todo' \in [Call -> SUBSET (Name \cup Dir)]
    BY <2>1, <2>2 DEF TypeOK
  <2>4. unread' \in [Call -> SUBSET (Dir \cup {Root})]
    BY <2>1, <2>2 DEF TypeOK
  <2>5. /\ pc' = [pc EXCEPT ![c] = "visiting"] /\ pc[c] \in {"begin", "visiting"}
        /\ UNCHANGED <<file, dirs, args, opened, found, steady>>
    BY <2>1 DEF Goto
  <2>6. api[c] \in Visiting
    BY <1>12 DEF ReadDir, GoodArgs, TypeOK
  <2>7. \A e \in Call : todo'[e] # todo[e] =>
          e = c /\ (api[c] \in {"List", "Walk"} => todo'[c] \subseteq Name)
    BY <2>1, <2>2 DEF GoodArgs, TypeOK
  <2>8. \A e \in Call : unread'[e] # unread[e] => e = c
    BY <2>1 DEF TypeOK
  <2> QED
    BY <2>3, <2>4, <2>5, <2>6, <2>7, <2>8, MoveStep, NotThere DEF State, Active, Saving, TypeOK
<1>13. ASSUME NEW c \in Call, ReadDirMissing(c)
       PROVE  TypeInv'
  <2>1. PICK d \in unread[c] :
          /\ pc[c] \in {"begin", "visiting"}
          /\ IF api[c] = "DeleteAll"
               THEN /\ unread' = [unread EXCEPT ![c] = @ \ {d}]
                    /\ todo' = [todo EXCEPT ![c] = @ \ {d}]
                    /\ Goto(c, "visiting")
                    /\ UNCHANGED found
               ELSE Return(c, "failed")
          /\ UNCHANGED <<file, dirs, args, opened, steady>>
    BY <1>13 DEF ReadDirMissing
  <2>2. ~There(c) /\ pc[c] # "new"
    BY <2>1, NotThere
  <2>3. CASE api[c] = "DeleteAll"
    <3>1. /\ unread' \in [Call -> SUBSET (Dir \cup {Root})]
          /\ todo' \in [Call -> SUBSET (Name \cup Dir)]
          /\ found' \in [Call -> SUBSET Name]
          /\ dirs' \subseteq Dir
      BY <2>1, <2>3 DEF TypeOK
    <3>2. pc' = [pc EXCEPT ![c] = "visiting"] /\ UNCHANGED <<file, args, opened, steady>>
      BY <2>1, <2>3 DEF Goto
    <3>3. \A e \in Call : todo'[e] # todo[e] => e = c
      BY <2>1, <2>3 DEF TypeOK
    <3>4. \A e \in Call : unread'[e] # unread[e] => e = c
      BY <2>1, <2>3 DEF TypeOK
    <3>5. /\ api[c] \in Visiting /\ api[c] \notin {"List", "Walk"}
          /\ "visiting" \in State \ (Saving \cup {"new"})
      BY <2>3 DEF Visiting, State, Active, Saving
    <3> HIDE DEF TypeInv
    <3> QED
      BY <2>2, <3>1, <3>2, <3>3, <3>4, <3>5, MoveStep DEF Saving
  <2>4. CASE api[c] # "DeleteAll"
    BY <2>1, <2>2, <2>4, ReturnStep DEF TypeOK, There
  <2> QED
    BY <2>3, <2>4
<1>14. ASSUME NEW c \in Call, RemoveEntry(c)
       PROVE  TypeInv'
  <2>1. PICK n \in todo[c] \cap Name : Unlink(n) /\ Visited(c, n)
    BY <1>14 DEF RemoveEntry
  <2>2. /\ UNCHANGED <<dirs, pc, args, opened, unread, found>>
        /\ todo' \in [Call -> SUBSET (Name \cup Dir)]
        /\ \A d \in Call : todo'[d] \subseteq todo[d]
    BY <1>14, <2>1 DEF RemoveEntry, Visited, TypeOK
  <2>3. /\ file' \in [Name -> Data \cup {NoFile, Torn}]
        /\ steady' \in [Call -> SUBSET Path]
        /\ \A m \in Name : file'[m] \in {file[m], NoFile}
    BY <2>1, UnlinkStep
  <2> QED
    BY <2>2, <2>3, VisitStep DEF TypeOK
<1>15. ASSUME NEW c \in Call, RemoveDir(c)
       PROVE  TypeInv'
  <2>1. PICK d \in todo[c] \cap Dir :
          IF Entries(d) = {}
            THEN /\ dirs' = dirs \ {d}
                 /\ Visited(c, d)
                 /\ UNCHANGED <<pc, unread, found>>
            ELSE Return(c, "failed") /\ UNCHANGED dirs
    BY <1>15 DEF RemoveDir
  <2>2. ~There(c) /\ pc[c] # "new" /\ UNCHANGED <<file, args, opened, steady>>
    BY <1>15 DEF RemoveDir, OwnTmp, GoodArgs
  <2>3. CASE Entries(d) = {}
    <3>1. /\ dirs' \subseteq Dir /\ UNCHANGED <<pc, unread, found>>
          /\ todo' \in [Call -> SUBSET (Name \cup Dir)]
          /\ \A e \in Call : todo'[e] \subseteq todo[e]
      BY <2>1, <2>3 DEF Visited, TypeOK
    <3> QED
      BY <2>2, <3>1, VisitStep DEF TypeOK
  <2>4. CASE Entries(d) # {}
    BY <2>1, <2>2, <2>4, ReturnStep DEF TypeOK, There
  <2> QED
    BY <2>3, <2>4
<1>16. ASSUME NEW c \in Call, Info(c)
       PROVE  TypeInv'
  <2>1. PICK n \in todo[c] :
          IF There(n)
            THEN /\ found' = [found EXCEPT ![c] = @ \cup {n}]
                 /\ Visited(c, n)
                 /\ UNCHANGED <<pc, unread>>
            ELSE Return(c, "failed")
    BY <1>16 DEF Info
  <2>2. ~There(c) /\ pc[c] # "new" /\ UNCHANGED <<file, dirs, args, opened, steady>>
    BY <1>16 DEF Info, OwnTmp, GoodArgs
  <2>3. CASE There(n)
    <3>1. n \in Name
      BY <1>16 DEF Info, GoodArgs
    <3>2. /\ UNCHANGED <<pc, unread>>
          /\ found' \in [Call -> SUBSET Name]
          /\ todo' \in [Call -> SUBSET (Name \cup Dir)]
          /\ \A d \in Call : todo'[d] \subseteq todo[d]
      BY <2>1, <2>3, <3>1 DEF Visited, TypeOK
    <3> QED
      BY <2>2, <3>2, VisitStep DEF TypeOK
  <2>4. CASE ~There(n)
    BY <2>1, <2>2, <2>4, ReturnStep DEF TypeOK, There
  <2> QED
    BY <2>3, <2>4
<1>17. CASE UNCHANGED vars
  BY <1>17 DEF vars, args, visitVars, TypeOK, GoodArgs, Whole, OwnTmp, WrittenTmp, There
<1> QED
  BY <1>1, <1>2, <1>3, <1>4, <1>5, <1>6, <1>7, <1>8, <1>9, <1>10, <1>11, <1>12,
     <1>13, <1>14, <1>15, <1>16, <1>17
  DEF Next

LEMMA TypesCorrect == Spec => []TypeInv
BY TypeInit, TypeStep, PTL DEF Spec

\* Every state is typed: no call of any method is ever in a state or holds an
\* argument that its code does not have.
THEOREM TypeCorrect == Spec => []TypeOK
<1>1. TypeInv => TypeOK
  BY DEF TypeInv
<1> QED
  BY <1>1, TypesCorrect, PTL

\* No temporary file outlives its Save, but for the two cases that Save cannot
\* help: the process ended, or the removal failed.
THEOREM NoDebrisTheorem == Spec => []NoDebris
<1>1. TypeInv => NoDebris
  BY DEF TypeInv, OwnTmp, NoDebris, Active
<1> QED
  BY <1>1, TypesCorrect, PTL

-----------------------------------------------------------------------------
(* The tree: nothing is in a directory that does not exist, and what a     *)
(* call has seen all along is there.                                       *)

Tree ==
  /\ \A n \in Name : There(n) => Exists(In(n))
  /\ \A c \in Call : \A p \in steady[c] : There(p)

LEMMA TreeInit == Init => Tree
<1> SUFFICES ASSUME Init
             PROVE  Tree
  OBVIOUS
<1>1. PICK stored \in [Path -> Data \cup {NoFile}] :
        /\ file = [n \in Name |-> IF n \in Path THEN stored[n] ELSE NoFile]
        /\ dirs = {d \in Dir : \E p \in Path : Parent[p] = d /\ stored[p] # NoFile}
  BY DEF Init
<1>2. ASSUME NEW n \in Name, There(n)
      PROVE  Exists(In(n))
  <2>1. n \in Path /\ stored[n] # NoFile
    BY <1>1, <1>2 DEF There
  <2>2. Parent[n] \in Dir \cup {Root}
    BY <2>1, NameAssumption
  <2> QED
    BY <1>1, <2>1, <2>2 DEF Exists, In
<1> QED
  BY <1>2 DEF Init, Tree

\* Calls that neither create nor remove a directory or a file.
LEMMA TreeKept ==
  ASSUME Tree, UNCHANGED <<file, args>>, dirs \subseteq dirs',
         \A c \in Call : steady'[c] \subseteq steady[c]
  PROVE  Tree'
BY DEF Tree, There, Exists, In, args

LEMMA TreeStep == TypeInv /\ Tree /\ [Next]_vars => Tree'
<1> SUFFICES ASSUME TypeInv, Tree, [Next]_vars
             PROVE  Tree'
  OBVIOUS
<1>0. TypeOK /\ OwnTmp /\ GoodArgs
  BY DEF TypeInv
<1>1. CASE Crash
  BY <1>1, TreeKept DEF Crash
<1>2. ASSUME NEW c \in Call, Begin(c)
      PROVE  Tree'
  <2>1. /\ ~There(c) /\ UNCHANGED <<file, dirs>>
        /\ \A d \in Call \ {c} : target'[d] = target[d] /\ steady'[d] = steady[d]
        /\ \A p \in steady'[c] : There(p)
    BY <1>0, <1>2 DEF Begin, OwnTmp, TypeOK
  <2>2. \A n \in Name : There(n) => In(n)' = In(n)
    BY <2>1, NameAssumption DEF In, Name
  <2> QED
    BY <2>1, <2>2 DEF Tree, There, Exists
<1>3. ASSUME NEW c \in Call,
             \/ Fail(c) \/ MkdirAll(c) \/ CopyFails(c) \/ RenameFails(c)
             \/ RemoveTmpFails(c) \/ Open(c) \/ ReadDir(c) \/ ReadDirMissing(c)
             \/ Info(c) \/ Finish(c)
      PROVE  Tree'
  BY <1>3, TreeKept
  DEF Fail, MkdirAll, CopyFails, RenameFails, RemoveTmpFails, Open, ReadDir,
      ReadDirMissing, Info, Finish
<1>4. ASSUME NEW c \in Call, CreateTmp(c) \/ Copy(c)
      PROVE  Tree'
  <2>1. /\ UNCHANGED <<dirs, target, steady>>
        /\ \A n \in Name \ {c} : file'[n] = file[n]
        /\ c \in Name /\ c \notin Path
    BY <1>0, <1>4, NameAssumption DEF CreateTmp, Copy, Put, There, TypeOK, Name, args
  <2>2. Exists(In(c)) \/ ~There(c)'
    BY <1>4, <2>1 DEF Tree, In, CreateTmp, Copy, Put, There
  <2>3. \A p \in Path : p # c
    BY <2>1
  <2> QED
    BY <1>0, <2>1, <2>2, <2>3 DEF Tree, There, Exists, In, Name, TypeOK
<1>5. ASSUME NEW c \in Call, Rename(c)
      PROVE  Tree'
  <2>1. target[c] \in Path
    BY <1>0, <1>5 DEF Rename, GoodArgs, Saving, Visiting
  <2>2. c \in Name \ Path /\ target[c] \in Name \ {c} /\ Path \subseteq Name \ {c}
    BY <2>1, NameAssumption DEF Name
  <2>3. /\ There(c) /\ UNCHANGED <<dirs, target, steady>>
        /\ ~There(c)' /\ There(target[c])'
        /\ \A n \in Name \ {c, target[c]} : file'[n] = file[n]
    BY <1>0, <1>5, <2>2 DEF Rename, There, TypeOK, args
  <2>4. Exists(Parent[target[c]])
    BY <2>2, <2>3 DEF Tree, In
  <2>5. \A n \in Name : There(n)' => Exists(In(n)')
    BY <2>1, <2>2, <2>3, <2>4 DEF Tree, There, In
  <2>6. \A d \in Call : \A p \in steady[d] : There(p)'
    BY <1>0, <2>2, <2>3 DEF Tree, There, TypeOK
  <2> QED
    BY <2>3, <2>5, <2>6 DEF Tree, Exists, There
<1>6. ASSUME NEW c \in Call, RemoveTmp(c) \/ Delete(c) \/ RemoveEntry(c)
      PROVE  Tree'
  <2>1. PICK n \in Name : Unlink(n)
    BY <1>0, <1>6 DEF RemoveTmp, Delete, RemoveEntry, Name, GoodArgs, Visiting
  <2>2. UNCHANGED <<dirs, target>>
    BY <1>6 DEF RemoveTmp, Delete, RemoveEntry, args
  <2>3. /\ file'[n] = NoFile
        /\ \A m \in Name \ {n} : file'[m] = file[m]
        /\ \A d \in Call : steady'[d] = steady[d] \ {n}
    BY <1>0, <2>1, UnlinkStep
  <2> QED
    BY <1>0, <2>2, <2>3 DEF Tree, There, Exists, In, TypeOK, Name
<1>7. ASSUME NEW c \in Call, RemoveDir(c)
      PROVE  Tree'
  <2>1. PICK d \in Dir : dirs' = dirs \/ (dirs' = dirs \ {d} /\ Entries(d) = {})
    BY <1>7 DEF RemoveDir
  <2>2. UNCHANGED <<file, args, steady>>
    BY <1>7 DEF RemoveDir
  <2> QED
    BY <2>1, <2>2 DEF Tree, There, Exists, In, Entries, args
<1>8. CASE UNCHANGED vars
  BY <1>8, TreeKept DEF vars
<1> QED
  BY <1>1, <1>2, <1>3, <1>4, <1>5, <1>6, <1>7, <1>8 DEF Next

-----------------------------------------------------------------------------
(* What DeleteAll, List and Walk have still to visit.                      *)

InScope(c, p) ==
  target[c] \in {Root, Parent[p]} /\ (api[c] = "List" => Parent[p] = target[c])

\* An object is among the entries that were read, or its directory or the root
\* above it is still to be read.
Pending(c, p) ==
  \/ p \in todo[c] \cup found[c]
  \/ Parent[p] \in unread[c]
  \/ Root \in unread[c] /\ api[c] # "List"

VisitOK(c) ==
  /\ unread[c] # {} => pc[c] \in {"begin", "visiting"}
  /\ todo[c] # {} => pc[c] = "visiting"
  /\ found[c] # {} => pc[c] = "visiting" /\ api[c] # "DeleteAll"
  /\ \A d \in unread[c] : target[c] \in {Root, d}
  /\ \A p \in todo[c] \cap Path : target[c] \in {Root, Parent[p]}
  /\ pc[c] \in {"begin", "visiting"} =>
       \A p \in steady[c] : InScope(c, p) => Pending(c, p)

Visits == \A c \in Call : VisitOK(c)

LEMMA VisitKept ==
  ASSUME NEW c \in Call, VisitOK(c),
         unread'[c] = unread[c], todo'[c] = todo[c], found'[c] = found[c],
         pc'[c] = pc[c], api'[c] = api[c], target'[c] = target[c],
         steady'[c] \subseteq steady[c]
  PROVE  VisitOK(c)'
BY DEF VisitOK, InScope, Pending

LEMMA VisitOver ==
  ASSUME NEW c \in Call, pc'[c] \notin {"begin", "visiting"},
         unread'[c] = {}, todo'[c] = {}, found'[c] = {}
  PROVE  VisitOK(c)'
BY DEF VisitOK

LEMMA VisitsStep == TypeInv /\ Tree /\ Visits /\ [Next]_vars => Visits'
<1> SUFFICES ASSUME TypeInv, Tree, Visits, [Next]_vars, NEW e \in Call
             PROVE  VisitOK(e)'
  BY DEF Visits
<1>0. TypeOK /\ OwnTmp /\ GoodArgs /\ VisitOK(e)
  BY DEF TypeInv, Visits
<1>1. CASE Crash
  <2>1. pc'[e] \notin {"begin", "visiting"} /\ unread'[e] = {} /\ todo'[e] = {} /\ found'[e] = {}
    BY <1>1 DEF Crash, Active
  <2> QED
    BY <2>1, VisitOver
<1>2. ASSUME NEW c \in Call, Begin(c)
      PROVE  VisitOK(e)'
  <2>1. /\ pc' = [pc EXCEPT ![c] = "begin"] /\ pc[c] = "new"
        /\ UNCHANGED <<todo, found>>
    BY <1>2 DEF Begin, Goto
  <2>2. /\ \A d \in Call \ {c} : /\ api'[d] = api[d] /\ target'[d] = target[d]
                                 /\ unread'[d] = unread[d] /\ steady'[d] = steady[d]
        /\ unread'[c] \in {{}, {target'[c]}}
        /\ unread'[c] = {} => steady'[c] = {}
    BY <1>0, <1>2 DEF Begin, TypeOK
  <2>3. CASE e # c
    BY <1>0, <2>1, <2>2, <2>3, VisitKept DEF TypeOK
  <2>4. CASE e = c
    <3>1. todo'[e] = {} /\ found'[e] = {} /\ pc'[e] = "begin"
      BY <1>0, <2>1, <2>4 DEF VisitOK, TypeOK
    <3>2. \A p \in steady'[e] : InScope(e, p)' => Pending(e, p)'
      BY <2>2, <2>4 DEF InScope, Pending
    <3> QED
      BY <2>2, <2>4, <3>1, <3>2 DEF VisitOK
  <2> QED
    BY <2>3, <2>4
<1>3. ASSUME NEW c \in Call, NEW r \in {"ok", "failed", "leaked"}, Return(c, r),
             UNCHANGED args, \A d \in Call : steady'[d] \subseteq steady[d]
      PROVE  VisitOK(e)'
  <2>1. e = c => VisitOK(e)'
    BY <1>0, <1>3, VisitOver DEF Return, Goto, TypeOK
  <2>2. e # c => VisitOK(e)'
    BY <1>0, <1>3, VisitKept DEF Return, Goto, TypeOK, args
  <2> QED
    BY <2>1, <2>2
<1>4. ASSUME NEW c \in Call,
             MkdirAll(c) \/ CreateTmp(c) \/ Copy(c) \/ CopyFails(c) \/ RenameFails(c)
      PROVE  VisitOK(e)'
  <2>1. PICK s \in Saving : pc' = [pc EXCEPT ![c] = s]
    BY <1>4 DEF MkdirAll, CreateTmp, Copy, CopyFails, RenameFails, Goto, Saving
  <2>2. UNCHANGED <<args, unread, todo, found, steady>>
    BY <1>4 DEF MkdirAll, CreateTmp, Copy, CopyFails, RenameFails, visitVars
  <2>3. pc[c] # "visiting" /\ api[c] \notin Visiting
    BY <1>0, <1>4
    DEF MkdirAll, CreateTmp, Copy, CopyFails, RenameFails, GoodArgs, Saving, Visiting
  <2>4. VisitOK(c) /\ unread[c] = {}
    BY <1>0, <2>3 DEF Visits, GoodArgs
  <2>5. e = c => VisitOK(e)'
    BY <1>0, <2>1, <2>2, <2>3, <2>4, VisitOver DEF Saving, VisitOK, TypeOK
  <2>6. e # c => VisitOK(e)'
    BY <1>0, <2>1, <2>2, VisitKept DEF TypeOK, args
  <2> QED
    BY <2>5, <2>6
<1>5. ASSUME NEW c \in Call,
             Fail(c) \/ Finish(c) \/ Rename(c) \/ RemoveTmpFails(c) \/ Open(c)
      PROVE  VisitOK(e)'
  BY <1>3, <1>5 DEF Fail, Finish, Rename, RemoveTmpFails, Open
<1>6. ASSUME NEW c \in Call, RemoveTmp(c) \/ Delete(c)
      PROVE  VisitOK(e)'
  <2>1. PICK n \in Name : Unlink(n)
    BY <1>0, <1>6 DEF RemoveTmp, Delete, Name, GoodArgs, Visiting
  <2>2. \A d \in Call : steady'[d] \subseteq steady[d]
    BY <1>0, <2>1, UnlinkStep
  <2> QED
    BY <1>3, <1>6, <2>2 DEF RemoveTmp, Delete
<1>7. ASSUME NEW c \in Call, ReadDir(c)
      PROVE  VisitOK(e)'
  <2>1. PICK d \in unread[c] :
          LET inside == IF d = Root /\ api[c] # "List" THEN dirs ELSE {} IN
          /\ unread' = [unread EXCEPT ![c] = (@ \ {d}) \cup inside]
          /\ todo' = [todo EXCEPT ![c] =
                        @ \cup Entries(d)
                          \cup (IF api[c] = "DeleteAll" THEN inside \cup ({d} \ {Root})
                                                        ELSE {})]
          /\ pc' = [pc EXCEPT ![c] = "visiting"]
          /\ pc[c] \in {"begin", "visiting"}
          /\ UNCHANGED <<args, found, steady>>
    BY <1>7 DEF ReadDir, Goto
  <2>2. CASE e # c
    BY <1>0, <2>1, <2>2, VisitKept DEF TypeOK, args
  <2>3. CASE e = c
    <3>1. /\ unread[c] \ {d} \subseteq unread'[c]
          /\ d = Root /\ api[c] # "List" => dirs \subseteq unread'[c]
          /\ \A x \in unread'[c] : x \in unread[c] \/ (d = Root /\ x \in dirs)
      BY <1>0, <2>1 DEF TypeOK
    <3>2. /\ todo[c] \cup Entries(d) \subseteq todo'[c]
          /\ \A x \in todo'[c] : x \in todo[c] \cup Entries(d) \cup dirs \cup {d}
      BY <1>0, <2>1 DEF TypeOK
    <3>3. d \in Dir \cup {Root} /\ dirs \subseteq Dir /\ target[c] \in {Root, d}
      BY <1>0, <2>3 DEF TypeOK, VisitOK
    <3>4. \A x \in unread'[c] : target[c] \in {Root, x}
      BY <1>0, <2>3, <3>1, <3>3 DEF VisitOK
    <3>5. \A p \in todo'[c] \cap Path : target[c] \in {Root, Parent[p]}
      BY <1>0, <2>3, <3>2, <3>3, NameAssumption DEF VisitOK, Entries, In
    <3>6. ASSUME NEW p \in steady[c], InScope(c, p)
          PROVE  Pending(c, p)'
      <4>1. p \in Path /\ p \in Name /\ Pending(c, p) /\ There(p)
        BY <1>0, <2>1, <2>3, <3>6 DEF VisitOK, TypeOK, Name, Tree
      <4>2. Exists(Parent[p]) /\ In(p) = Parent[p]
        BY <4>1 DEF Tree, In
      <4>3. Parent[p] = d => p \in todo'[c]
        BY <3>2, <4>1, <4>2 DEF Entries
      <4>4. UNCHANGED <<api, found>>
        BY <2>1 DEF args
      <4>5. CASE p \in todo[c] \cup found[c]
        BY <3>2, <4>4, <4>5 DEF Pending
      <4>6. CASE Parent[p] \in unread[c]
        BY <3>1, <4>3, <4>4, <4>6 DEF Pending
      <4>7. CASE Root \in unread[c] /\ api[c] # "List"
        BY <3>1, <4>2, <4>3, <4>4, <4>7 DEF Pending, Exists
      <4> QED
        BY <4>1, <4>5, <4>6, <4>7 DEF Pending
    <3>7. pc'[e] = "visiting" /\ UNCHANGED <<api, target, found, steady>>
      BY <1>0, <2>1, <2>3 DEF TypeOK, args
    <3>8. \A p \in steady'[e] : InScope(e, p)' => Pending(e, p)'
      BY <2>3, <3>6, <3>7 DEF InScope
    <3> QED
      BY <1>0, <2>3, <3>4, <3>5, <3>7, <3>8 DEF VisitOK
  <2> QED
    BY <2>2, <2>3
<1>8. ASSUME NEW c \in Call, ReadDirMissing(c)
      PROVE  VisitOK(e)'
  <2>1. PICK d \in unread[c] :
          /\ ~Exists(d)
          /\ IF api[c] = "DeleteAll"
               THEN /\ unread' = [unread EXCEPT ![c] = @ \ {d}]
                    /\ todo' = [todo EXCEPT ![c] = @ \ {d}]
                    /\ pc' = [pc EXCEPT ![c] = "visiting"]
                    /\ UNCHANGED found
               ELSE Return(c, "failed")
          /\ pc[c] \in {"begin", "visiting"}
          /\ UNCHANGED <<args, steady>>
    BY <1>8 DEF ReadDirMissing, Goto
  <2>2. CASE api[c] # "DeleteAll"
    BY <1>3, <2>1, <2>2
  <2>3. CASE api[c] = "DeleteAll" /\ e # c
    BY <1>0, <2>1, <2>3, VisitKept DEF TypeOK, args
  <2>4. CASE api[c] = "DeleteAll" /\ e = c
    <3>1. /\ unread'[e] = unread[e] \ {d} /\ todo'[e] = todo[e] \ {d}
          /\ pc'[e] = "visiting" /\ UNCHANGED <<api, target, found, steady>>
      BY <1>0, <2>1, <2>4 DEF TypeOK, args
    <3>2. d \in Dir /\ d # Root
      BY <1>0, <2>1, <2>4 DEF TypeOK, Exists
    <3>3. ASSUME NEW p \in steady[e], InScope(e, p)
          PROVE  Pending(e, p)'
      <4>1. p \in Path /\ p \in Name /\ Pending(e, p) /\ There(p)
        BY <1>0, <2>1, <2>4, <3>3 DEF VisitOK, TypeOK, Name, Tree
      <4>2. Parent[p] # d
        BY <2>1, <4>1 DEF Tree, In
      <4>3. p # d
        BY <3>2, <4>1, NameAssumption
      <4> QED
        BY <3>1, <3>2, <4>1, <4>2, <4>3 DEF Pending
    <3>4. \A p \in steady'[e] : InScope(e, p)' => Pending(e, p)'
      BY <3>1, <3>3 DEF InScope
    <3> QED
      BY <1>0, <2>4, <3>1, <3>4 DEF VisitOK
  <2> QED
    BY <2>2, <2>3, <2>4
<1>9. ASSUME NEW c \in Call, RemoveEntry(c)
      PROVE  VisitOK(e)'
  <2>1. PICK n \in todo[c] \cap Name : Unlink(n) /\ todo' = [todo EXCEPT ![c] = @ \ {n}]
    BY <1>9 DEF RemoveEntry, Visited
  <2>2. UNCHANGED <<pc, api, target, unread, found>>
    BY <1>9 DEF RemoveEntry, args
  <2>3. steady'[e] = steady[e] \ {n}
    BY <1>0, <2>1, UnlinkStep
  <2>4. todo'[e] \in {todo[e], todo[e] \ {n}}
    BY <1>0, <2>1 DEF TypeOK
  <2> QED
    BY <1>0, <2>2, <2>3, <2>4 DEF VisitOK, InScope, Pending
<1>10. ASSUME NEW c \in Call, RemoveDir(c)
       PROVE  VisitOK(e)'
  <2>1. PICK d \in Dir :
          \/ todo' = [todo EXCEPT ![c] = @ \ {d}] /\ UNCHANGED <<pc, unread, found>>
          \/ Return(c, "failed")
    BY <1>10 DEF RemoveDir, Visited
  <2>2. UNCHANGED <<args, steady>>
    BY <1>10 DEF RemoveDir
  <2>3. CASE todo' = [todo EXCEPT ![c] = @ \ {d}] /\ UNCHANGED <<pc, unread, found>>
    <3>1. todo'[e] \in {todo[e], todo[e] \ {d}} /\ d \notin Path
      BY <1>0, <2>3, NameAssumption DEF TypeOK
    <3>2. steady[e] \subseteq Path
      BY <1>0 DEF TypeOK
    <3>3. UNCHANGED <<api, target>>
      BY <2>2 DEF args
    <3> QED
      BY <1>0, <2>2, <2>3, <3>1, <3>2, <3>3 DEF VisitOK, InScope, Pending
  <2>4. CASE Return(c, "failed")
    BY <1>3, <2>2, <2>4
  <2> QED
    BY <2>1, <2>3, <2>4
<1>11. ASSUME NEW c \in Call, Info(c)
       PROVE  VisitOK(e)'
  <2>1. PICK n \in todo[c] :
          \/ /\ found' = [found EXCEPT ![c] = @ \cup {n}]
             /\ todo' = [todo EXCEPT ![c] = @ \ {n}]
             /\ UNCHANGED <<pc, unread>>
          \/ Return(c, "failed")
    BY <1>11 DEF Info, Visited
  <2>2. UNCHANGED <<args, steady>> /\ api[c] # "DeleteAll"
    BY <1>11 DEF Info
  <2>3. CASE /\ found' = [found EXCEPT ![c] = @ \cup {n}]
             /\ todo' = [todo EXCEPT ![c] = @ \ {n}]
             /\ UNCHANGED <<pc, unread>>
    <3>1. /\ e = c => found'[e] = found[e] \cup {n} /\ todo'[e] = todo[e] \ {n}
          /\ e # c => found'[e] = found[e] /\ todo'[e] = todo[e]
      BY <1>0, <2>3 DEF TypeOK
    <3>2. UNCHANGED <<api, target>>
      BY <2>2 DEF args
    <3> QED
      BY <1>0, <2>1, <2>2, <2>3, <3>1, <3>2 DEF VisitOK, InScope, Pending
  <2>4. CASE Return(c, "failed")
    BY <1>3, <2>2, <2>4
  <2> QED
    BY <2>1, <2>3, <2>4
<1>12. CASE UNCHANGED vars
  BY <1>0, <1>12, VisitKept DEF vars, visitVars, args
<1> QED
  BY <1>1, <1>2, <1>4, <1>5, <1>6, <1>7, <1>8, <1>9, <1>10, <1>11, <1>12 DEF Next

Inv == TypeInv /\ Tree /\ Visits

LEMMA InvInit == Init => Inv
<1>1. Init => Visits
  BY DEF Init, Visits, VisitOK
<1> QED
  BY <1>1, TypeInit, TreeInit DEF Inv

LEMMA InvStep == Inv /\ [Next]_vars => Inv'
BY TypeStep, TreeStep, VisitsStep DEF Inv

LEMMA InvCorrect == Spec => []Inv
BY InvInit, InvStep, PTL DEF Spec

\* What a call that finishes has seen all along is in what it found, or out of
\* its scope.
LEMMA Finished ==
  ASSUME Inv, NEW c \in Call, Finish(c), NEW p \in steady[c], InScope(c, p)
  PROVE  p \in found[c] /\ api[c] # "DeleteAll"
BY DEF Inv, Visits, VisitOK, Finish, Pending

\* An object below the prefix that was there when DeleteAll began does not
\* survive a DeleteAll that succeeds, whatever other calls do meanwhile.
THEOREM DeleteAllTheorem == Spec => DeleteAllDeletes
<1>1. ASSUME Inv, NEW c \in Call, Finish(c), api[c] = "DeleteAll"
      PROVE  steady[c] \cap Below(target[c]) = {}
  <2>1. \A p \in steady[c] \cap Below(target[c]) : InScope(c, p)
    BY <1>1 DEF InScope, Below
  <2> QED
    BY <1>1, <2>1, Finished
<1>2. Inv /\ [Next]_vars =>
        [\A c \in Call : Finish(c) /\ api[c] = "DeleteAll" =>
                           steady[c] \cap Below(target[c]) = {}]_vars
  BY <1>1
<1> QED
  BY <1>2, InvCorrect, PTL DEF Spec, DeleteAllDeletes

\* A List or Walk that succeeds misses none of the objects that were there from
\* its beginning to its end.
THEOREM ListingTheorem == Spec => ListingComplete
<1>1. ASSUME Inv, NEW c \in Call, Finish(c), api[c] \in {"List", "Walk"}
      PROVE  steady[c] \cap (IF api[c] = "Walk" THEN Below(target[c])
                                                ELSE Listed(target[c]))
               \subseteq found[c]
  <2>1. \A p \in steady[c] \cap (IF api[c] = "Walk" THEN Below(target[c])
                                                    ELSE Listed(target[c])) :
          InScope(c, p)
    BY <1>1 DEF InScope, Below, Listed
  <2> QED
    BY <1>1, <2>1, Finished
<1>2. Inv /\ [Next]_vars =>
        [\A c \in Call : Finish(c) /\ api[c] \in {"List", "Walk"} =>
           steady[c] \cap (IF api[c] = "Walk" THEN Below(target[c])
                                              ELSE Listed(target[c]))
             \subseteq found[c]]_vars
  BY <1>1
<1> QED
  BY <1>2, InvCorrect, PTL DEF Spec, ListingComplete

-----------------------------------------------------------------------------
(* The refinement of the object store.                                     *)

Store == [p \in Path |-> file[p]]

StatusOf(state) ==
  CASE state \in Active -> "active"
    [] state \in {"leaked", "gone"} -> "failed"
    [] OTHER -> state

Status == [c \in Call |-> StatusOf(pc[c])]

LEMMA StatusStep ==
  ASSUME TypeOK, NEW c \in Call, NEW s \in State, pc' = [pc EXCEPT ![c] = s]
  PROVE  Status' = [Status EXCEPT ![c] = StatusOf(s)]
BY DEF Status, TypeOK

\* One step may fail several calls, and those that are over stay as they are.
LEMMA FailStep ==
  ASSUME TypeOK, UNCHANGED <<Store, args, opened>>, pc' \in [Call -> State],
         \A c \in Call :
           pc'[c] # pc[c] =>
             \/ pc[c] \in Active /\ pc'[c] \in {"failed", "leaked", "gone"}
             \/ pc[c] \in Active /\ pc'[c] \in Active
  PROVE  Objects!Fail
<1>1. /\ Status' \in [Call -> {"new", "active", "ok", "failed"}]
      /\ \A c \in Call :
           Status'[c] # Status[c] => Status[c] = "active" /\ Status'[c] = "failed"
  BY DEF Status, StatusOf, State, Active, TypeOK
<1> QED
  BY <1>1 DEF Objects!Fail, Objects!args, Store, Status, StatusOf, args

LEMMA ObjectInit == Init => Objects!Init
<1> SUFFICES ASSUME Init
             PROVE  Objects!Init
  OBVIOUS
<1>1. Store \in [Path -> Data \cup {NoFile}]
  BY DEF Init, Store, Name
<1>2. Status = [c \in Call |-> "new"]
  BY DEF Init, Status, StatusOf, Active
<1>3. api \in [Call -> Method] /\ opened = [c \in Call |-> NoFile]
  BY DEF Init, Method
<1> QED
  BY <1>1, <1>2, <1>3 DEF Objects!Init, Objects!Method, Method, Store, Status, StatusOf

LEMMA ObjectStep == Inv /\ [Next]_vars => [Objects!Next]_(Objects!vars)
<1> SUFFICES ASSUME Inv, Next
             PROVE  Objects!Next \/ UNCHANGED Objects!vars
  BY DEF vars, Objects!vars, Objects!args, args
<1>0. TypeOK /\ OwnTmp /\ GoodArgs /\ Whole /\ WrittenTmp /\ Visits
  BY DEF Inv, TypeInv
<1> USE <1>0
<1>1. CASE Crash
  <2>1. UNCHANGED <<Store, args, opened>> /\ pc' \in [Call -> State]
    BY <1>1 DEF Crash, Store, TypeOK, State
  <2> QED
    BY <1>1, <2>1, FailStep DEF Crash, Objects!Next
<1>2. ASSUME NEW c \in Call, Begin(c)
      PROVE  Objects!Next
  <2>1. pc[c] = "new" /\ Status' = [Status EXCEPT ![c] = "active"]
    BY <1>2, StatusStep DEF Begin, Goto, State, Active, StatusOf
  <2>2. Status[c] = "new" /\ UNCHANGED <<Store, opened>>
    BY <1>2, <2>1 DEF Begin, Status, StatusOf, Active, Store
  <2>3. Objects!Begin(c)
    BY <2>1, <2>2 DEF Objects!Begin, Store, Status, StatusOf
  <2> QED
    BY <2>3 DEF Objects!Next
<1>3. ASSUME NEW c \in Call, NEW s \in Active \cup {"failed", "leaked"},
             pc[c] \in Active, pc' = [pc EXCEPT ![c] = s], UNCHANGED <<Store, args, opened>>
      PROVE  Objects!Next
  <2>1. pc' \in [Call -> State]
    BY <1>3 DEF TypeOK, State
  <2> QED
    BY <1>3, <2>1, FailStep DEF TypeOK, Objects!Next
<1>4. ASSUME NEW c \in Call,
             \/ MkdirAll(c) \/ CreateTmp(c) \/ Copy(c) \/ CopyFails(c) \/ RenameFails(c)
             \/ RemoveTmp(c) \/ RemoveTmpFails(c) \/ Fail(c) \/ ReadDir(c) \/ ReadDirMissing(c)
      PROVE  Objects!Next
  <2>1. PICK s \in Active \cup {"failed", "leaked"} : pc' = [pc EXCEPT ![c] = s]
    BY <1>4
    DEF MkdirAll, CreateTmp, Copy, CopyFails, RenameFails, RemoveTmp, RemoveTmpFails, Fail,
        ReadDir, ReadDirMissing, Return, Goto, Active
  <2>2. pc[c] \in Active /\ UNCHANGED <<args, opened>>
    BY <1>4
    DEF MkdirAll, CreateTmp, Copy, CopyFails, RenameFails, RemoveTmp, RemoveTmpFails, Fail,
        ReadDir, ReadDirMissing, Active
  <2>3. \A n \in Name \ {c} : file'[n] = file[n]
    BY <1>4
    DEF MkdirAll, CreateTmp, Copy, CopyFails, RenameFails, RemoveTmp, RemoveTmpFails, Fail,
        ReadDir, ReadDirMissing, Unlink, Put, TypeOK
  <2>4. UNCHANGED Store
    BY <2>3, NameAssumption DEF Store, Name
  <2> QED
    BY <1>3, <2>1, <2>2, <2>4
<1>5. ASSUME NEW c \in Call, pc[c] \in Active, Return(c, "ok")
      PROVE  Status[c] = "active" /\ Status' = [Status EXCEPT ![c] = "ok"]
  BY <1>5, StatusStep DEF Return, Goto, State, Active, Status, StatusOf
<1>6. ASSUME NEW c \in Call, Rename(c)
      PROVE  Objects!Next
  <2>1. /\ target[c] \in Path /\ file[c] = data[c] /\ c \in Name \ Path /\ api[c] = "Save"
    BY <1>6, NameAssumption DEF Rename, GoodArgs, Saving, Visiting, WrittenTmp, There, Name
  <2>2. Store' = [Store EXCEPT ![target[c]] = data[c]]
    BY <1>6, <2>1 DEF Rename, Store, TypeOK, Name
  <2>3. UNCHANGED <<args, opened>> /\ pc[c] \in Active /\ Return(c, "ok")
    BY <1>6 DEF Rename, Active
  <2>4. Objects!Save(c)
    BY <1>5, <2>1, <2>2, <2>3
    DEF Objects!Save, Objects!Active, Objects!Return, Objects!args, args, Store, Status, StatusOf
  <2> QED
    BY <2>4 DEF Objects!Next
<1>7. ASSUME NEW c \in Call, Open(c)
      PROVE  Objects!Next
  <2>1. target[c] \in Path /\ Store[target[c]] = file[target[c]]
    BY <1>7 DEF Open, GoodArgs, Visiting, Store
  <2>2. UNCHANGED <<args, Store>> /\ pc[c] \in Active /\ Return(c, "ok")
    BY <1>7 DEF Open, Active, Store
  <2>3. Objects!Open(c)
    BY <1>5, <1>7, <2>1, <2>2
    DEF Open, There, Objects!Open, Objects!Active, Objects!Return, Objects!args, args,
        Store, Status, StatusOf
  <2> QED
    BY <2>3 DEF Objects!Next
<1>8. ASSUME NEW c \in Call, Delete(c)
      PROVE  Objects!Next
  <2>1. target[c] \in Path
    BY <1>8 DEF Delete, GoodArgs, Visiting
  <2>2. Store' = [Store EXCEPT ![target[c]] = NoFile]
    BY <1>8, <2>1 DEF Delete, Unlink, Put, Store, TypeOK, Name
  <2>3. UNCHANGED <<args, opened>> /\ pc[c] \in Active /\ Return(c, "ok")
    BY <1>8 DEF Delete, Active
  <2>4. Objects!Delete(c)
    BY <1>5, <1>8, <2>2, <2>3
    DEF Delete, Objects!Delete, Objects!Active, Objects!Return, Objects!args, args,
        Store, Status, StatusOf
  <2> QED
    BY <2>4 DEF Objects!Next
<1>9. ASSUME NEW c \in Call, RemoveEntry(c)
      PROVE  Objects!Next \/ UNCHANGED Objects!vars
  <2>1. PICK n \in todo[c] \cap Name : Unlink(n)
    BY <1>9 DEF RemoveEntry
  <2>2. /\ UNCHANGED <<args, opened, pc>> /\ api[c] = "DeleteAll" /\ pc[c] = "visiting"
    BY <1>9 DEF RemoveEntry, Visits, VisitOK
  <2>3. CASE n \in Path
    <3>1. target[c] \in {Root, Parent[n]}
      BY <2>1, <2>3 DEF Visits, VisitOK
    <3>2. Store' = [Store EXCEPT ![n] = NoFile]
      BY <2>1, <2>3 DEF Unlink, Put, Store, TypeOK, Name
    <3>3. UNCHANGED Status /\ Status[c] = "active"
      BY <2>2 DEF Status, StatusOf, Active
    <3>4. Objects!DeleteNext(c)
      BY <2>2, <2>3, <3>1, <3>2, <3>3
      DEF Objects!DeleteNext, Objects!Active, Objects!args, args, Store, Status, StatusOf
    <3> QED
      BY <3>4 DEF Objects!Next
  <2>4. CASE n \notin Path
    <3>1. UNCHANGED <<Store, Status>>
      BY <2>1, <2>2, <2>4 DEF Unlink, Put, Store, Status, TypeOK, Name
    <3> QED
      BY <2>2, <3>1 DEF Objects!vars, Objects!args, args, Store, Status, StatusOf
  <2> QED
    BY <2>3, <2>4
<1>10. ASSUME NEW c \in Call, RemoveDir(c) \/ Info(c)
       PROVE  Objects!Next \/ UNCHANGED Objects!vars
  <2>1. UNCHANGED <<Store, args, opened>> /\ pc[c] \in Active
    BY <1>10 DEF RemoveDir, Info, Store, Visits, VisitOK, Active
  <2>2. UNCHANGED pc \/ pc' = [pc EXCEPT ![c] = "failed"]
    BY <1>10 DEF RemoveDir, Info, Return, Goto
  <2>3. CASE UNCHANGED pc
    BY <2>1, <2>3 DEF Objects!vars, Objects!args, args, Store
  <2>4. CASE pc' = [pc EXCEPT ![c] = "failed"]
    BY <1>3, <2>1, <2>4
  <2> QED
    BY <2>2, <2>3, <2>4
<1>11. ASSUME NEW c \in Call, Finish(c)
       PROVE  Objects!Next
  <2>1. UNCHANGED <<Store, args, opened>> /\ pc[c] \in Active /\ Return(c, "ok")
    BY <1>11 DEF Finish, Store, Active
  <2>2. api[c] \in {"DeleteAll", "List", "Walk"}
    BY <1>11 DEF Finish, GoodArgs, Visiting
  <2>3. Objects!ReturnUnchanged(c)
    BY <1>5, <2>1, <2>2
    DEF Objects!ReturnUnchanged, Objects!Active, Objects!Return, Objects!args, args,
        Store, Status, StatusOf
  <2> QED
    BY <2>3 DEF Objects!Next
<1> QED
  BY <1>1, <1>2, <1>4, <1>6, <1>7, <1>8, <1>9, <1>10, <1>11 DEF Next

\* Temporary files, renames and directory reads implement a store of whole
\* objects: nobody opens half an object, a Save that fails or dies changes none,
\* and nothing but a Save, Delete or DeleteAll of it changes an object.
THEOREM ObjectTheorem == Spec => ObjectSpec
BY ObjectInit, ObjectStep, InvCorrect, PTL DEF Spec, ObjectSpec, Objects!Spec
=============================================================================
