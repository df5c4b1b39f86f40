-------------------------- MODULE ObjectStoreProofs --------------------------
(***************************************************************************)
(* Theorems about ObjectStore: what a store reports stored survives power   *)
(* cuts, and what is uploaded is whole, for every number of objects, tasks  *)
(* and parts; and about PutLimit: permits are conserved and no PUT starts   *)
(* beyond the limit, for any number of PUTs and any maximum.                *)
(***************************************************************************)
EXTENDS ObjectStore, PutLimit, FiniteSetTheorems, TLAPS

Looks == {"none", "whole", "torn"}
Places == {"off", "checking", "placing", "syncing", "naming", "renamed", "stored", "sent"}
Pieces == [part : 1..PartCount, bytes : Looks]
TaskRec == [at : Places, object : Object \cup {0}, fresh : BOOLEAN, parts : Seq(Pieces)]

\* What the variables hold.
ObjectTypes ==
  /\ durable \in BOOLEAN
  /\ seen \in [Object -> Looks]
  /\ platter \in [Object -> SUBSET Looks]
  /\ remote \in [Object -> {"none", "whole", "wrong"}]
  /\ task \in [Task -> TaskRec]
  /\ \A t \in Task : task[t].at # "off" => task[t].object \in Object

\* Only t goes on.
Alone(t) == \A u \in Task \ {t} : task'[u] = task[u]

\* A task that goes on to another step keeps its object and its parts.
LEMMA MoveTask ==
  ASSUME ObjectTypes, NEW t \in Task, task[t].at # "off", NEW at \in Places, Move(t, at)
  PROVE  /\ task' \in [Task -> TaskRec]
         /\ \A u \in Task : task'[u].at # "off" => task'[u].object \in Object
         /\ task'[t].at = at /\ task'[t].object = task[t].object /\ task'[t].parts = task[t].parts
         /\ Alone(t)
<1>1. task' = [task EXCEPT ![t] = [task[t] EXCEPT !.at = at]]
  BY DEF Move
<1>2. task[t] \in TaskRec /\ task[t].object \in Object
  BY DEF ObjectTypes
<1>3. [task[t] EXCEPT !.at = at] \in TaskRec
  BY <1>2 DEF TaskRec
<1>4. task' \in [Task -> TaskRec] /\ task'[t] = [task[t] EXCEPT !.at = at] /\ Alone(t)
  BY <1>1, <1>3 DEF ObjectTypes, Alone
<1> QED
  BY <1>2, <1>4 DEF TaskRec, Alone, ObjectTypes

\* A task that has ended has no object and no parts.
LEMMA NoTaskRec ==
  /\ NoTask \in TaskRec
  /\ NoTask.at = "off" /\ NoTask.parts = <<>>
<1>1. <<>> \in Seq(Pieces)
  OBVIOUS
<1> QED
  BY <1>1 DEF NoTask, TaskRec, Places

LEMMA EndOfTask ==
  ASSUME ObjectTypes, NEW t \in Task, End(t)
  PROVE  /\ task' \in [Task -> TaskRec]
         /\ \A u \in Task : task'[u].at # "off" => task'[u].object \in Object
         /\ task'[t] = NoTask /\ Alone(t)
<1>1. task' \in [Task -> TaskRec] /\ task'[t] = NoTask /\ Alone(t)
  BY NoTaskRec DEF End, ObjectTypes, Alone
<1> QED
  BY <1>1, NoTaskRec DEF ObjectTypes, Alone

\* A task starts with an object.
LEMMA StartTask ==
  ASSUME ObjectTypes, NEW t \in Task, NEW h \in Object, Produce(t, h)
  PROVE  /\ task' \in [Task -> TaskRec]
         /\ \A u \in Task : task'[u].at # "off" => task'[u].object \in Object
         /\ task'[t].at = "placing" \/ (task'[t].at = "checking" /\ ~durable)
         /\ task'[t].object = h /\ task'[t].parts = <<>> /\ Alone(t)
         /\ UNCHANGED <<durable, seen, platter, folders, foldersOn, remote, trim, promised, lost>>
<1> DEFINE A == [NoTask EXCEPT !.at = "placing", !.object = h, !.fresh = TRUE]
<1> DEFINE B == [NoTask EXCEPT !.at = "checking", !.object = h]
<1>0. <<>> \in Seq(Pieces)
  OBVIOUS
<1>1. A \in TaskRec /\ A.at = "placing" /\ A.object = h /\ A.parts = <<>>
  BY <1>0 DEF NoTask, TaskRec, Places
<1>2. B \in TaskRec /\ B.at = "checking" /\ B.object = h /\ B.parts = <<>>
  BY <1>0 DEF NoTask, TaskRec, Places
<1>3. \/ task' = [task EXCEPT ![t] = A]
      \/ task' = [task EXCEPT ![t] = B] /\ ~durable
  BY DEF Produce
<1>4. UNCHANGED <<durable, seen, platter, folders, foldersOn, remote, trim, promised, lost>>
  BY DEF Produce, folderVars
<1> HIDE DEF A, B
<1>5. /\ task' \in [Task -> TaskRec] /\ Alone(t)
      /\ task'[t] = A \/ (task'[t] = B /\ ~durable)
  BY <1>1, <1>2, <1>3 DEF ObjectTypes, Alone
<1> QED
  BY <1>1, <1>2, <1>4, <1>5 DEF ObjectTypes, Alone

\* A part that is sent joins the list of the task, whole if the path shows a
\* whole copy.
LEMMA PartSent ==
  ASSUME ObjectTypes, NEW t \in Task, NEW n \in 1..PartCount, SendPart(t, n)
  PROVE  /\ UNCHANGED <<durable, seen, platter, folders, foldersOn, remote, trim, promised, lost>>
         /\ ~durable /\ task[t].at = "stored"
         /\ \/ End(t)
            \/ /\ task' \in [Task -> TaskRec] /\ Alone(t)
               /\ \A u \in Task : task'[u].at # "off" => task'[u].object \in Object
               /\ task'[t].at = "stored" /\ task'[t].object = task[t].object
               /\ task'[t].parts = Append(task[t].parts,
                                          [part |-> n, bytes |-> seen[task[t].object]])
               /\ seen[task[t].object] # "none"
               /\ \A k \in DOMAIN task[t].parts : task[t].parts[k].part # n
<1> DEFINE p == [part |-> n, bytes |-> seen[task[t].object]]
<1>1. /\ UNCHANGED <<durable, seen, platter, folders, foldersOn, remote, trim, promised, lost>>
      /\ ~durable /\ task[t].at = "stored"
      /\ \A k \in DOMAIN task[t].parts : task[t].parts[k].part # n
  BY DEF SendPart, folderVars
<1>2. \/ End(t)
      \/ /\ seen[task[t].object] # "none"
         /\ task' = [task EXCEPT ![t].parts = Append(@, p)]
  BY DEF SendPart
<1>3. CASE /\ seen[task[t].object] # "none"
           /\ task' = [task EXCEPT ![t].parts = Append(@, p)]
  <2>1. task[t] \in TaskRec /\ task[t].object \in Object
    BY <1>1 DEF ObjectTypes
  <2>2. p \in Pieces
    BY <2>1 DEF Pieces, ObjectTypes
  <2> HIDE DEF p
  <2> DEFINE r == [task[t] EXCEPT !.parts = Append(task[t].parts, p)]
  <2>3. Append(task[t].parts, p) \in Seq(Pieces)
    BY <2>1, <2>2 DEF TaskRec
  <2>4. r \in TaskRec /\ r.at = task[t].at /\ r.object = task[t].object
        /\ r.parts = Append(task[t].parts, p)
    BY <2>1, <2>3 DEF TaskRec
  <2>5. task' = [task EXCEPT ![t] = r]
    BY <1>3
  <2> HIDE DEF r
  <2>6. task' \in [Task -> TaskRec] /\ task'[t] = r /\ Alone(t)
    BY <2>4, <2>5 DEF ObjectTypes, Alone
  <2> QED
    BY <1>1, <1>3, <2>1, <2>4, <2>6 DEF ObjectTypes, Alone, p
<1> QED
  BY <1>1, <1>2, <1>3

\* The end of an upload.
LEMMA UploadCompletes ==
  ASSUME ObjectTypes, NEW t \in Task, CompleteUpload(t)
  PROVE  /\ task' \in [Task -> TaskRec] /\ Alone(t)
         /\ \A u \in Task : task'[u].at # "off" => task'[u].object \in Object
         /\ task'[t].at = "sent" /\ task'[t].object = task[t].object /\ task'[t].parts = <<>>
<1> DEFINE r == [task[t] EXCEPT !.at = "sent", !.parts = <<>>]
<1>1. task[t] \in TaskRec /\ task[t].object \in Object
  BY DEF CompleteUpload, ObjectTypes
<1>2. <<>> \in Seq(Pieces)
  OBVIOUS
<1>3. r \in TaskRec /\ r.at = "sent" /\ r.object = task[t].object /\ r.parts = <<>>
  BY <1>1, <1>2 DEF TaskRec, Places
<1>4. task' = [task EXCEPT ![t] = r]
  BY DEF CompleteUpload
<1> HIDE DEF r
<1>5. task' \in [Task -> TaskRec] /\ task'[t] = r /\ Alone(t)
  BY <1>3, <1>4 DEF ObjectTypes, Alone
<1> QED
  BY <1>1, <1>3, <1>5 DEF ObjectTypes, Alone

-----------------------------------------------------------------------------
(* Types.                                                                   *)

\* Removing a copy.
LEMMA GoneTypes ==
  ASSUME ObjectTypes, NEW h, Gone(h)
  PROVE  /\ seen' \in [Object -> Looks] /\ platter' \in [Object -> SUBSET Looks]
         /\ \A g \in Object : \/ g # h /\ seen'[g] = seen[g] /\ platter'[g] = platter[g]
                              \/ /\ g = h /\ seen'[g] = "none"
                                 /\ platter'[g] = platter[g] \cup {"none"}
         /\ promised' = promised \ {h} /\ lost' = lost \ {h}
BY DEF Gone, ObjectTypes, Looks

\* A rename installs a whole copy, or fails and changes no copy.
LEMMA RenameEffect ==
  ASSUME ObjectTypes, NEW t \in Task, Rename(t)
  PROVE  /\ task[t].at = "naming" /\ task[t].object \in Object
         /\ UNCHANGED <<durable, folders, foldersOn, remote, trim, promised, lost>>
         /\ \/ /\ seen' = [seen EXCEPT ![task[t].object] = "whole"]
               /\ platter' = [platter EXCEPT ![task[t].object] = @ \cup Leaves]
               /\ Move(t, "renamed")
            \/ /\ UNCHANGED <<seen, platter>>
               /\ (seen[task[t].object] = "whole" /\ Move(t, "renamed")) \/ End(t)
<1>1. task[t].at = "naming" /\ UNCHANGED <<durable, folders, foldersOn, remote, trim, promised, lost>>
  BY DEF Rename, folderVars
<1>2. task[t].object \in Object
  BY <1>1 DEF ObjectTypes
<1> QED
  BY <1>1, <1>2 DEF Rename

\* The steps that only move one task.
Steps(t) ==
  \/ CheckCopy(t) \/ MakeDir(t) \/ SyncRoot(t) \/ SkipUpload(t)

LEMMA StepsEffect ==
  ASSUME ObjectTypes, NEW t \in Task, Steps(t)
  PROVE  /\ UNCHANGED <<durable, seen, platter, remote, trim, promised, lost>>
         /\ task[t].at # "off"
         /\ \E at \in Places : Move(t, at)
<1> USE DEF Places
<1>1. CASE CheckCopy(t)
  <2>1. \E at \in {"stored", "placing"} : Move(t, at)
    BY <1>1 DEF CheckCopy
  <2> QED
    BY <1>1, <2>1 DEF CheckCopy
<1>2. CASE MakeDir(t)
  <2>1. \E at \in {"syncing", "naming"} : Move(t, at)
    BY <1>2 DEF MakeDir
  <2> QED
    BY <1>2, <2>1 DEF MakeDir
<1>3. CASE SyncRoot(t)
  BY <1>3 DEF SyncRoot
<1>4. CASE SkipUpload(t)
  BY <1>4 DEF SkipUpload
<1> QED
  BY <1>1, <1>2, <1>3, <1>4 DEF Steps

\* The state of retention and of the cache's age is no part of the types.
LEMMA TypesStep ==
  ASSUME ObjectTypes, [ObjectNext]_objectVars
  PROVE  ObjectTypes'
<1> DEFINE TasksOK == /\ task' \in [Task -> TaskRec]
                      /\ \A u \in Task : task'[u].at # "off" => task'[u].object \in Object
<1> DEFINE CopiesOK == /\ seen' \in [Object -> Looks] /\ platter' \in [Object -> SUBSET Looks]
<1>0. TasksOK /\ CopiesOK /\ durable' = durable /\ remote' \in [Object -> {"none", "whole", "wrong"}]
        => ObjectTypes'
  BY DEF ObjectTypes
<1>00. UNCHANGED <<seen, platter>> => CopiesOK
  BY DEF ObjectTypes
<1>01. UNCHANGED task => TasksOK
  BY DEF ObjectTypes
<1>02. UNCHANGED remote => remote' \in [Object -> {"none", "whole", "wrong"}]
  BY DEF ObjectTypes
<1>1. ASSUME NEW t \in Task, Steps(t) PROVE ObjectTypes'
  BY <1>0, <1>00, <1>02, <1>1, StepsEffect, MoveTask
<1>2. ASSUME NEW t \in Task, Rename(t) PROVE ObjectTypes'
  <2>1. CopiesOK
    BY <1>2, RenameEffect DEF ObjectTypes, Leaves, Looks
  <2>2. TasksOK
    BY <1>2, RenameEffect, MoveTask, EndOfTask DEF Places
  <2> QED
    BY <1>0, <1>02, <1>2, <2>1, <2>2, RenameEffect
<1>3. ASSUME NEW t \in Task, SyncDir(t) PROVE ObjectTypes'
  <2>1. TasksOK
    BY <1>3, MoveTask DEF SyncDir, Places
  <2>2. platter' \in [Object -> SUBSET Looks]
    BY <1>3 DEF SyncDir, EntriesOn, ObjectTypes
  <2> QED
    BY <1>3, <2>1, <2>2 DEF SyncDir, ObjectTypes
<1>4. ASSUME NEW t \in Task, NEW n \in 1..PartCount, SendPart(t, n) PROVE ObjectTypes'
  <2>1. TasksOK
    BY <1>4, PartSent, EndOfTask
  <2> QED
    BY <1>0, <1>00, <1>02, <1>4, <2>1, PartSent
<1>5. ASSUME NEW t \in Task, CompleteUpload(t) PROVE ObjectTypes'
  <2>1. remote' \in [Object -> {"none", "whole", "wrong"}]
    BY <1>5 DEF CompleteUpload, ObjectTypes
  <2> QED
    BY <1>0, <1>00, <1>5, <2>1, UploadCompletes DEF CompleteUpload
<1>6. ASSUME NEW t \in Task, EndTask(t) PROVE ObjectTypes'
  BY <1>0, <1>00, <1>02, <1>6, EndOfTask DEF EndTask
<1>7. ASSUME NEW t \in Task, NEW h \in Object, Produce(t, h) PROVE ObjectTypes'
  BY <1>0, <1>00, <1>02, <1>7, StartTask
<1>8. ASSUME NEW h \in Object, SweepObject(h) PROVE ObjectTypes'
  <2>1. remote' \in [Object -> {"none", "whole", "wrong"}]
    BY <1>8 DEF SweepObject, ObjectTypes
  <2> QED
    BY <1>0, <1>01, <1>8, <2>1, GoneTypes DEF SweepObject
<1>9. CASE \/ \E h \in Object : Serve(h)
           \/ StartTrim \/ ConfirmNext
           \/ UNCHANGED objectVars
  BY <1>9 DEF Serve, StartTrim, ConfirmNext, objectVars, ObjectTypes
<1>10. CASE TrimNext
  BY <1>0, <1>01, <1>02, <1>10, GoneTypes DEF TrimNext
<1>11. ASSUME NEW power \in BOOLEAN, Stop(power) PROVE ObjectTypes'
  <2>1. TasksOK
    BY <1>11, NoTaskRec DEF Stop
  <2>2. CopiesOK
    BY <1>11 DEF Stop, Looks, ObjectTypes
  <2> QED
    BY <1>0, <1>02, <1>11, <2>1, <2>2 DEF Stop
<1> QED
  BY <1>1, <1>2, <1>3, <1>4, <1>5, <1>6, <1>7, <1>8, <1>9, <1>10, <1>11
     DEF ObjectNext, TaskStep, Steps

\* A store begins empty.
LEMMA TypesInit == ObjectInit => ObjectTypes
BY NoTaskRec DEF ObjectInit, ObjectTypes, Looks

-----------------------------------------------------------------------------
(* Uploads.                                                                 *)

\* As many different parts as there are parts are all of them.
LEMMA AllParts ==
  ASSUME NEW parts \in Seq(Pieces), Len(parts) = PartCount,
         \A k \in DOMAIN parts : parts[k].bytes = "whole" /\ parts[k].part \in 1..PartCount,
         \A j, k \in DOMAIN parts : parts[j].part = parts[k].part => j = k
  PROVE  \A n \in DOMAIN Sorted(parts) : Sorted(parts)[n] = [part |-> n, bytes |-> "whole"]
<1> DEFINE N == 1..PartCount
<1>1. PartCount \in Nat /\ DOMAIN parts = N
  OBVIOUS
<1> DEFINE f == [k \in N |-> parts[k].part]
<1>2. f \in Injection(N, N)
  BY <1>1 DEF Injection, IsInjective
<1>3. IsFiniteSet(N)
  BY <1>1, FS_Interval
<1>4. f \in Surjection(N, N)
  BY <1>2, <1>3, FS_Injection
<1> SUFFICES ASSUME NEW n \in DOMAIN Sorted(parts)
             PROVE  Sorted(parts)[n] = [part |-> n, bytes |-> "whole"]
  OBVIOUS
<1>5. n \in N /\ Sorted(parts)[n] = CHOOSE p \in {parts[k] : k \in DOMAIN parts} : p.part = n
  BY <1>1 DEF Sorted
<1>6. PICK k \in N : parts[k].part = n
  BY <1>4, <1>5 DEF Surjection
<1>7. \E p \in {parts[j] : j \in DOMAIN parts} : p.part = n
  BY <1>1, <1>6
<1>8. PICK j \in DOMAIN parts : Sorted(parts)[n] = parts[j] /\ parts[j].part = n
  BY <1>5, <1>7
<1>9. parts[j] \in Pieces /\ parts[j].bytes = "whole" /\ parts[j].part = n
  BY <1>8
<1> QED
  BY <1>8, <1>9 DEF Pieces

\* What a task may rely on, and keeps while others go on.
TaskWhole(t) ==
  /\ task[t].at \in {"renamed", "stored"} => seen[task[t].object] # "torn"
  /\ task[t].at = "sent" => remote[task[t].object] = "whole"
  /\ \A k \in DOMAIN task[t].parts :
       task[t].parts[k].bytes = "whole" /\ task[t].parts[k].part \in 1..PartCount
  /\ \A j, k \in DOMAIN task[t].parts :
       task[t].parts[j].part = task[t].parts[k].part => j = k

LEMMA PartsWholeIs ==
  PartsWhole <=> /\ \A h \in Object : remote[h] \in {"none", "whole"}
                 /\ \A t \in Task : TaskWhole(t)
BY DEF PartsWhole, TaskWhole

\* No step but a power cut damages a copy, and only the sweep takes one out
\* of the bucket, when no task relies on it.
LEMMA OthersWhole ==
  ASSUME ObjectTypes, NEW u \in Task, TaskWhole(u), task'[u] = task[u],
         \A h \in Object : seen'[h] = "torn" => seen[h] = "torn",
         \A h \in Object : InUse(h) /\ remote[h] = "whole" => remote'[h] = "whole"
  PROVE  TaskWhole(u)'
<1>1. task[u].at \in {"renamed", "stored", "sent"} => task[u].object \in Object
  BY DEF ObjectTypes
<1>2. task[u].at = "sent" => InUse(task[u].object)
  BY DEF InUse, PinnedAt
<1> QED
  BY <1>1, <1>2 DEF TaskWhole

\* Every step keeps it.
LEMMA PartsStep ==
  ASSUME ObjectTypes, PartsWhole, [ObjectNext]_objectVars
  PROVE  PartsWhole'
<1>0. /\ \A h \in Object : remote[h] \in {"none", "whole"}
      /\ \A t \in Task : TaskWhole(t)
  BY PartsWholeIs
<1>01. (\A h \in Object : remote'[h] \in {"none", "whole"}) /\ (\A t \in Task : TaskWhole(t)')
         => PartsWhole'
  BY DEF PartsWhole, TaskWhole
<1> DEFINE Undamaged == \A h \in Object : seen'[h] = "torn" => seen[h] = "torn"
<1> DEFINE Keeps == \A h \in Object : /\ remote'[h] \in {"none", "whole"}
                                      /\ InUse(h) /\ remote[h] = "whole" => remote'[h] = "whole"
<1>02. UNCHANGED remote => Keeps
  BY <1>0
<1>03. UNCHANGED seen => Undamaged
  OBVIOUS
<1> HIDE DEF Undamaged, Keeps
<1>04. ASSUME NEW t \in Task, Alone(t), TaskWhole(t)', Undamaged, Keeps PROVE PartsWhole'
  <2>1. \A u \in Task \ {t} : TaskWhole(u)'
    BY <1>0, <1>04, OthersWhole DEF Alone, Undamaged, Keeps
  <2> QED
    BY <1>01, <1>04, <2>1 DEF Keeps
<1>05. ASSUME UNCHANGED task, Undamaged, Keeps PROVE PartsWhole'
  <2>1. \A u \in Task : TaskWhole(u)'
    BY <1>0, <1>05, OthersWhole DEF Undamaged, Keeps
  <2> QED
    BY <1>01, <1>05, <2>1 DEF Keeps
<1>06. ASSUME NEW t \in Task, End(t) PROVE TaskWhole(t)' /\ Alone(t)
  <2>1. task'[t] = NoTask /\ Alone(t)
    BY <1>06, EndOfTask
  <2> QED
    BY <2>1, NoTaskRec DEF TaskWhole
<1>1. ASSUME NEW t \in Task, Steps(t) PROVE PartsWhole'
  <2>1. PICK at \in Places : Move(t, at)
    BY <1>1, StepsEffect
  <2>2. /\ task'[t].at = at /\ task'[t].object = task[t].object /\ task'[t].parts = task[t].parts
        /\ Alone(t) /\ UNCHANGED <<seen, remote>> /\ task[t].object \in Object
    BY <1>1, <2>1, StepsEffect, MoveTask DEF ObjectTypes
  <2>3. at \in {"renamed", "stored"} => seen[task[t].object] # "torn"
    <3>1. CASE CheckCopy(t)
      <4>1. task'[t].at = IF IntactCopy(task[t].object) THEN "stored" ELSE "placing"
        BY <3>1, MoveTask DEF CheckCopy, Places
      <4> QED
        BY <2>2, <4>1 DEF IntactCopy
    <3>2. CASE MakeDir(t)
      <4>1. task'[t].at = IF durable /\ Dir(t) \notin folders THEN "syncing" ELSE "naming"
        BY <3>2, MoveTask DEF MakeDir, Places
      <4> QED
        BY <2>2, <4>1
    <3>3. CASE SyncRoot(t)
      <4>1. task'[t].at = "naming"
        BY <3>3, MoveTask DEF SyncRoot, Places
      <4> QED
        BY <2>2, <4>1
    <3>4. CASE SkipUpload(t)
      <4>1. task'[t].at = "sent"
        BY <3>4, MoveTask DEF SkipUpload, Places
      <4> QED
        BY <2>2, <4>1
    <3> QED
      BY <1>1, <3>1, <3>2, <3>3, <3>4 DEF Steps
  <2>4. at = "sent" => remote[task[t].object] = "whole"
    <3>1. CASE SkipUpload(t)
      BY <1>0, <2>2, <3>1 DEF SkipUpload
    <3>2. CASE CheckCopy(t)
      <4>1. task'[t].at \in {"stored", "placing"}
        BY <3>2, MoveTask DEF CheckCopy, Places
      <4> QED
        BY <2>2, <4>1
    <3>3. CASE MakeDir(t)
      <4>1. task'[t].at \in {"syncing", "naming"}
        BY <3>3, MoveTask DEF MakeDir, Places
      <4> QED
        BY <2>2, <4>1
    <3>4. CASE SyncRoot(t)
      <4>1. task'[t].at = "naming"
        BY <3>4, MoveTask DEF SyncRoot, Places
      <4> QED
        BY <2>2, <4>1
    <3> QED
      BY <1>1, <3>1, <3>2, <3>3, <3>4 DEF Steps
  <2>5. TaskWhole(t)'
    BY <1>0, <2>2, <2>3, <2>4 DEF TaskWhole
  <2> QED
    BY <1>02, <1>03, <1>04, <2>2, <2>5
<1>2. ASSUME NEW t \in Task, Rename(t) PROVE PartsWhole'
  <2>1. UNCHANGED remote /\ task[t].object \in Object /\ task[t].at = "naming"
    BY <1>2, RenameEffect
  <2>2. CASE Move(t, "renamed") /\ seen' = [seen EXCEPT ![task[t].object] = "whole"]
    <3>1. /\ task'[t].at = "renamed" /\ task'[t].object = task[t].object
          /\ task'[t].parts = task[t].parts /\ Alone(t)
      BY <2>1, <2>2, MoveTask DEF Places
    <3>2. Undamaged /\ seen'[task[t].object] = "whole"
      BY <2>1, <2>2 DEF Undamaged, ObjectTypes
    <3>3. TaskWhole(t)'
      BY <1>0, <3>1, <3>2 DEF TaskWhole
    <3> QED
      BY <1>02, <1>04, <2>1, <3>1, <3>2, <3>3
  <2>3. CASE Move(t, "renamed") /\ UNCHANGED seen /\ seen[task[t].object] = "whole"
    <3>1. /\ task'[t].at = "renamed" /\ task'[t].object = task[t].object
          /\ task'[t].parts = task[t].parts /\ Alone(t)
      BY <2>1, <2>3, MoveTask DEF Places
    <3>2. TaskWhole(t)'
      BY <1>0, <2>3, <3>1 DEF TaskWhole
    <3> QED
      BY <1>02, <1>03, <1>04, <2>1, <2>3, <3>1, <3>2
  <2>4. CASE End(t) /\ UNCHANGED seen
    BY <1>02, <1>03, <1>04, <1>06, <2>1, <2>4
  <2> QED
    BY <1>2, <2>2, <2>3, <2>4, RenameEffect
<1>3. ASSUME NEW t \in Task, SyncDir(t) PROVE PartsWhole'
  <2>1. task[t].at = "renamed" /\ UNCHANGED <<seen, remote>> /\ Move(t, "stored")
    BY <1>3 DEF SyncDir
  <2>2. /\ task'[t].at = "stored" /\ task'[t].object = task[t].object
        /\ task'[t].parts = task[t].parts /\ Alone(t)
    BY <2>1, MoveTask DEF Places
  <2>3. TaskWhole(t)'
    BY <1>0, <2>1, <2>2 DEF TaskWhole
  <2> QED
    BY <1>02, <1>03, <1>04, <2>1, <2>2, <2>3
<1>4. ASSUME NEW t \in Task, NEW n \in 1..PartCount, SendPart(t, n) PROVE PartsWhole'
  <2>1. UNCHANGED <<seen, remote>> /\ task[t].at = "stored"
    BY <1>4, PartSent
  <2>2. CASE End(t)
    BY <1>02, <1>03, <1>04, <1>06, <2>1, <2>2
  <2>3. CASE ~End(t)
    <3> DEFINE p == [part |-> n, bytes |-> seen[task[t].object]]
    <3>1. /\ Alone(t) /\ task'[t].at = "stored" /\ task'[t].object = task[t].object
          /\ task'[t].parts = Append(task[t].parts, p)
          /\ seen[task[t].object] # "none"
          /\ \A k \in DOMAIN task[t].parts : task[t].parts[k].part # n
      BY <1>4, <2>3, PartSent
    <3>2. task[t].parts \in Seq(Pieces) /\ task[t].object \in Object
      BY <2>1 DEF ObjectTypes, TaskRec
    <3>3. p.bytes = "whole" /\ p.part = n
      BY <1>0, <2>1, <3>1, <3>2 DEF TaskWhole, ObjectTypes, Looks
    <3> HIDE DEF p
    <3>4. \A k \in DOMAIN task'[t].parts :
             \/ k \in DOMAIN task[t].parts /\ task'[t].parts[k] = task[t].parts[k]
             \/ k = Len(task[t].parts) + 1 /\ task'[t].parts[k] = p
      BY <3>1, <3>2
    <3>5. \A k \in DOMAIN task'[t].parts :
             task'[t].parts[k].bytes = "whole" /\ task'[t].parts[k].part \in 1..PartCount
      BY <1>0, <3>3, <3>4 DEF TaskWhole
    <3>6. \A j, k \in DOMAIN task'[t].parts :
             task'[t].parts[j].part = task'[t].parts[k].part => j = k
      BY <1>0, <3>1, <3>3, <3>4 DEF TaskWhole
    <3>7. TaskWhole(t)'
      BY <1>0, <2>1, <3>1, <3>5, <3>6 DEF TaskWhole
    <3> QED
      BY <1>02, <1>03, <1>04, <2>1, <3>1, <3>7
  <2> QED
    BY <2>2, <2>3
<1>5. ASSUME NEW t \in Task, CompleteUpload(t) PROVE PartsWhole'
  <2>1. task[t].at = "stored" /\ Len(task[t].parts) = PartCount /\ UNCHANGED seen
    BY <1>5 DEF CompleteUpload
  <2>2. task[t].parts \in Seq(Pieces) /\ task[t].object \in Object
    BY <2>1 DEF ObjectTypes, TaskRec
  <2>3. \A n \in DOMAIN Sorted(task[t].parts) :
          Sorted(task[t].parts)[n] = [part |-> n, bytes |-> "whole"]
    BY <1>0, <2>1, <2>2, AllParts DEF TaskWhole
  <2>4. remote' = [remote EXCEPT ![task[t].object] = "whole"]
    BY <1>5, <2>3 DEF CompleteUpload
  <2>5. Keeps /\ remote'[task[t].object] = "whole"
    BY <1>0, <2>2, <2>4 DEF Keeps, ObjectTypes
  <2>6. Alone(t) /\ task'[t].at = "sent" /\ task'[t].object = task[t].object /\ task'[t].parts = <<>>
    BY <1>5, UploadCompletes
  <2>7. TaskWhole(t)'
    BY <2>5, <2>6 DEF TaskWhole
  <2> QED
    BY <1>03, <1>04, <2>1, <2>5, <2>6, <2>7
<1>6. ASSUME NEW t \in Task, EndTask(t) PROVE PartsWhole'
  BY <1>02, <1>03, <1>04, <1>06, <1>6 DEF EndTask
<1>7. ASSUME NEW t \in Task, NEW h \in Object, Produce(t, h) PROVE PartsWhole'
  <2>1. /\ task'[t].at \in {"placing", "checking"} /\ task'[t].parts = <<>>
        /\ Alone(t) /\ UNCHANGED <<seen, remote>>
    BY <1>7, StartTask
  <2>2. TaskWhole(t)'
    BY <2>1 DEF TaskWhole
  <2> QED
    BY <1>02, <1>03, <1>04, <2>1, <2>2
<1>8. ASSUME NEW h \in Object, SweepObject(h) PROVE PartsWhole'
  <2>1. ~InUse(h) /\ Gone(h) /\ remote' = [remote EXCEPT ![h] = "none"] /\ UNCHANGED task
    BY <1>8 DEF SweepObject
  <2>2. Undamaged
    BY <2>1, GoneTypes DEF Undamaged
  <2>3. Keeps
    BY <1>0, <2>1 DEF Keeps, ObjectTypes
  <2> QED
    BY <1>05, <2>1, <2>2, <2>3
<1>9. CASE \/ \E h \in Object : Serve(h)
           \/ StartTrim \/ ConfirmNext
           \/ UNCHANGED objectVars
  <2>1. UNCHANGED <<task, seen, remote>>
    BY <1>9 DEF Serve, StartTrim, ConfirmNext, objectVars
  <2> QED
    BY <1>02, <1>03, <1>05, <2>1
<1>10. CASE TrimNext
  <2>1. Gone(trim.sure) /\ UNCHANGED <<task, remote>>
    BY <1>10 DEF TrimNext
  <2>2. Undamaged
    BY <2>1, GoneTypes DEF Undamaged
  <2> QED
    BY <1>02, <1>05, <2>1, <2>2
<1>11. ASSUME NEW power \in BOOLEAN, Stop(power) PROVE PartsWhole'
  <2>1. UNCHANGED remote /\ \A u \in Task : task'[u] = NoTask
    BY <1>11 DEF Stop
  <2>2. \A u \in Task : TaskWhole(u)'
    BY <2>1, NoTaskRec DEF TaskWhole
  <2> QED
    BY <1>0, <1>01, <2>1, <2>2
<1> QED
  BY <1>1, <1>2, <1>3, <1>4, <1>5, <1>6, <1>7, <1>8, <1>9, <1>10, <1>11
     DEF ObjectNext, TaskStep, Steps

\* Whatever is uploaded is whole, although a power cut may leave damaged
\* copies in the cache and the cache is trimmed and refilled under the
\* uploads; and a build goes on only with objects that the bucket has.
THEOREM UploadsAreWhole == ObjectSpec => []UploadsWhole
<1>1. ObjectInit => ObjectTypes /\ PartsWhole
  BY TypesInit, NoTaskRec DEF ObjectInit, PartsWhole
<1>2. (ObjectTypes /\ PartsWhole) /\ [ObjectNext]_objectVars => (ObjectTypes /\ PartsWhole)'
  BY TypesStep, PartsStep
<1>3. PartsWhole => UploadsWhole
  BY DEF PartsWhole, UploadsWhole
<1> QED
  BY <1>1, <1>2, <1>3, PTL DEF ObjectSpec

-----------------------------------------------------------------------------
(* Power cuts.                                                              *)

\* What a power cut may leave of a store's copies.
CopiesKept ==
  /\ OldDirs \subseteq foldersOn /\ foldersOn \subseteq folders
  /\ trim = NoTrim
  /\ \A h \in Object : seen[h] \in {"none", "whole"} /\ platter[h] \subseteq {"none", "whole"}
  /\ \A h \in promised \ lost : seen[h] = "whole" /\ platter[h] = {"whole"} /\ DirOf[h] \in folders
  /\ \A h \in lost : DirOf[h] \notin OldDirs

\* What a task of a store has made sure of.
TaskKept(t) ==
  /\ task[t].at \in {"syncing", "naming", "renamed"} => DirOf[task[t].object] \in folders
  /\ task[t].at = "renamed" => seen[task[t].object] = "whole"

LEMMA StoreKeptIs == StoreKept <=> (durable => CopiesKept /\ \A t \in Task : TaskKept(t))
BY DEF StoreKept, CopiesKept, TaskKept, Dir

\* Promised objects are objects.
PromisedOK == promised \subseteq Object

\* Tasks that stand still keep what they have made sure of, while directories
\* only come and whole copies in use stay.
LEMMA OthersKept ==
  ASSUME ObjectTypes, NEW u \in Task, TaskKept(u), task'[u] = task[u],
         folders \subseteq folders',
         \A h \in Object : InUse(h) /\ seen[h] = "whole" => seen'[h] = "whole"
  PROVE  TaskKept(u)'
<1>1. task[u].at = "renamed" => task[u].object \in Object /\ InUse(task[u].object)
  BY DEF ObjectTypes, InUse, PinnedAt
<1> QED
  BY <1>1 DEF TaskKept

\* Every step of a store keeps it.
LEMMA StoreStep ==
  ASSUME ObjectTypes, PromisedOK, StoreKept, [ObjectNext]_objectVars
  PROVE  PromisedOK' /\ StoreKept'
<1>0. durable' = durable
  BY DEF ObjectNext, TaskStep, CheckCopy, MakeDir, SyncRoot, Rename, SyncDir, SkipUpload,
         SendPart, CompleteUpload, EndTask, Produce, SweepObject, Serve, StartTrim, ConfirmNext,
         TrimNext, Stop, objectVars
<1>1. PromisedOK'
  <2>1. \/ promised' \subseteq promised
        \/ \E t \in Task : SyncDir(t)
    BY DEF ObjectNext, TaskStep, CheckCopy, MakeDir, SyncRoot, Rename, SkipUpload,
           SendPart, CompleteUpload, EndTask, Produce, SweepObject, Serve, StartTrim, ConfirmNext,
           TrimNext, Stop, objectVars, Gone
  <2>2. ASSUME NEW t \in Task, SyncDir(t) PROVE PromisedOK'
    <3>1. promised' = promised \cup {task[t].object} /\ task[t].at = "renamed"
      BY <2>2 DEF SyncDir
    <3>2. task[t].object \in Object
      BY <3>1 DEF ObjectTypes
    <3> QED
      BY <3>1, <3>2 DEF PromisedOK
  <2> QED
    BY <2>1, <2>2 DEF PromisedOK
<1>2. CASE ~durable
  BY <1>0, <1>1, <1>2 DEF StoreKept
<1>3. CASE durable
  <2>0. durable /\ CopiesKept /\ \A t \in Task : TaskKept(t)
    BY <1>3, StoreKeptIs
  <2>01. CopiesKept' /\ (\A t \in Task : TaskKept(t)') => StoreKept'
    BY DEF StoreKept, CopiesKept, TaskKept, Dir
  <2> DEFINE Stays == /\ folders \subseteq folders'
                      /\ \A h \in Object : InUse(h) /\ seen[h] = "whole" => seen'[h] = "whole"
  <2>02. UNCHANGED <<folders, foldersOn, seen>> => Stays
    OBVIOUS
  <2>03. UNCHANGED <<folders, foldersOn, trim, seen, platter, promised, lost>> => CopiesKept'
    BY <2>0 DEF CopiesKept
  <2> HIDE DEF Stays
  <2>04. ASSUME NEW t \in Task, Alone(t), TaskKept(t)', Stays, CopiesKept' PROVE StoreKept'
    <3>1. \A u \in Task \ {t} : TaskKept(u)'
      BY <2>0, <2>04, OthersKept DEF Alone, Stays
    <3> QED
      BY <2>01, <2>04, <3>1
  <2>05. ASSUME UNCHANGED task, Stays, CopiesKept' PROVE StoreKept'
    <3>1. \A u \in Task : TaskKept(u)'
      BY <2>0, <2>05, OthersKept DEF Stays
    <3> QED
      BY <2>01, <2>05, <3>1
  <2>06. ASSUME NEW t \in Task, End(t) PROVE TaskKept(t)' /\ Alone(t)
    <3>1. task'[t] = NoTask /\ Alone(t)
      BY <2>06, EndOfTask
    <3> QED
      BY <3>1, NoTaskRec DEF TaskKept
  <2>1. ASSUME NEW t \in Task, CheckCopy(t) PROVE StoreKept'
    <3>1. /\ task[t].at = "checking" /\ UNCHANGED <<folders, foldersOn, seen, platter, trim, promised, lost>>
          /\ Move(t, IF IntactCopy(task[t].object) THEN "stored" ELSE "placing")
      BY <2>1 DEF CheckCopy, folderVars
    <3>2. task'[t].at \in {"stored", "placing"} /\ Alone(t)
      BY <3>1, MoveTask DEF Places
    <3>3. TaskKept(t)'
      BY <3>2 DEF TaskKept
    <3> QED
      BY <2>02, <2>03, <2>04, <3>1, <3>2, <3>3
  <2>2. ASSUME NEW t \in Task, MakeDir(t) PROVE StoreKept'
    <3> DEFINE d == DirOf[task[t].object]
    <3>1. /\ task[t].at = "placing" /\ folders' = folders \cup {d}
          /\ Move(t, IF d \notin folders THEN "syncing" ELSE "naming")
          /\ UNCHANGED <<foldersOn, trim, seen, platter, promised, lost>>
      BY <2>0, <2>2 DEF MakeDir, Dir
    <3>2. /\ task'[t].at = IF d \notin folders THEN "syncing" ELSE "naming"
          /\ task'[t].object = task[t].object /\ Alone(t)
      BY <3>1, MoveTask DEF Places
    <3> HIDE DEF d
    <3>3. CopiesKept' /\ Stays
      BY <2>0, <3>1 DEF CopiesKept, Stays
    <3>4. TaskKept(t)'
      BY <3>1, <3>2 DEF TaskKept, d
    <3> QED
      BY <2>04, <3>2, <3>3, <3>4
  <2>3. ASSUME NEW t \in Task, SyncRoot(t) PROVE StoreKept'
    <3> DEFINE d == DirOf[task[t].object]
    <3>1. /\ task[t].at = "syncing" /\ foldersOn' = folders
          /\ Move(t, "naming") /\ UNCHANGED <<folders, trim, seen, platter, promised, lost>>
      BY <2>3 DEF SyncRoot, Dir
    <3>2. task'[t].at = "naming" /\ task'[t].object = task[t].object /\ Alone(t)
      BY <3>1, MoveTask DEF Places
    <3>3. d \in folders
      BY <2>0, <3>1 DEF TaskKept
    <3>4. CopiesKept' /\ Stays
      BY <2>0, <3>1 DEF CopiesKept, Stays
    <3>5. TaskKept(t)'
      BY <3>1, <3>2, <3>3 DEF TaskKept
    <3> QED
      BY <2>04, <3>2, <3>4, <3>5
  <2>4. ASSUME NEW t \in Task, Rename(t) PROVE StoreKept'
    <3>1. /\ task[t].at = "naming" /\ task[t].object \in Object
          /\ UNCHANGED <<folders, foldersOn, trim, promised, lost>>
      BY <2>4, RenameEffect
    <3>2. DirOf[task[t].object] \in folders
      BY <2>0, <3>1 DEF TaskKept
    <3>3. CASE /\ seen' = [seen EXCEPT ![task[t].object] = "whole"]
               /\ platter' = [platter EXCEPT ![task[t].object] = @ \cup Leaves]
               /\ Move(t, "renamed")
      <4>1. task'[t].at = "renamed" /\ task'[t].object = task[t].object /\ Alone(t)
        BY <3>1, <3>3, MoveTask DEF Places
      <4>2. Leaves = {"whole"}
        BY <2>0 DEF Leaves
      <4>3. Stays /\ seen'[task[t].object] = "whole"
        BY <3>1, <3>3 DEF Stays, ObjectTypes
      <4>4. \A h \in Object : /\ seen'[h] \in {seen[h], "whole"}
                              /\ platter'[h] = platter[h] \/ platter'[h] = platter[h] \cup {"whole"}
        BY <3>3, <4>2 DEF ObjectTypes
      <4>5. \A h \in promised' \ lost' : h \in Object /\ seen'[h] = "whole" /\ platter'[h] = {"whole"}
        BY <2>0, <3>1, <4>4 DEF CopiesKept, PromisedOK
      <4>6. CopiesKept'
        BY <2>0, <3>1, <4>4, <4>5 DEF CopiesKept
      <4>7. TaskKept(t)'
        BY <3>1, <3>2, <4>1, <4>3 DEF TaskKept
      <4> QED
        BY <2>04, <4>1, <4>3, <4>6, <4>7
    <3>4. CASE UNCHANGED <<seen, platter>> /\ seen[task[t].object] = "whole" /\ Move(t, "renamed")
      <4>1. task'[t].at = "renamed" /\ task'[t].object = task[t].object /\ Alone(t)
        BY <3>1, <3>4, MoveTask DEF Places
      <4>2. TaskKept(t)'
        BY <3>1, <3>2, <3>4, <4>1 DEF TaskKept
      <4> QED
        BY <2>02, <2>03, <2>04, <3>1, <3>4, <4>1, <4>2
    <3>5. CASE UNCHANGED <<seen, platter>> /\ End(t)
      BY <2>02, <2>03, <2>04, <2>06, <3>1, <3>5
    <3> QED
      BY <2>4, <3>3, <3>4, <3>5, RenameEffect
  <2>5. ASSUME NEW t \in Task, SyncDir(t) PROVE StoreKept'
    <3> DEFINE g == task[t].object
    <3>1. /\ task[t].at = "renamed" /\ platter' = EntriesOn(DirOf[g])
          /\ promised' = promised \cup {g} /\ lost' = lost \ {g} /\ Move(t, "stored")
          /\ UNCHANGED <<seen, folders, foldersOn, trim>>
      BY <2>0, <2>5 DEF SyncDir, Dir, folderVars
    <3>2. task'[t].at = "stored" /\ Alone(t)
      BY <3>1, MoveTask DEF Places
    <3>3. g \in Object /\ seen[g] = "whole" /\ DirOf[g] \in folders
      BY <2>0, <3>1 DEF TaskKept, ObjectTypes
    <3>4. \A h \in Object : platter'[h] = IF DirOf[h] = DirOf[g] THEN {seen[h]} ELSE platter[h]
      BY <3>1 DEF EntriesOn
    <3> HIDE DEF g
    <3>5. \A h \in promised' \ lost' :
            seen'[h] = "whole" /\ platter'[h] = {"whole"} /\ DirOf[h] \in folders'
      BY <2>0, <3>1, <3>3, <3>4 DEF CopiesKept, PromisedOK
    <3>6. CopiesKept'
      BY <2>0, <3>1, <3>4, <3>5 DEF CopiesKept
    <3>7. TaskKept(t)'
      BY <3>2 DEF TaskKept
    <3> QED
      BY <2>02, <2>04, <3>1, <3>2, <3>6, <3>7
  <2>6. ASSUME NEW t \in Task, SkipUpload(t) \/ \E n \in 1..PartCount : SendPart(t, n) PROVE FALSE
    BY <2>0, <2>6 DEF SkipUpload, SendPart
  <2>7. ASSUME NEW t \in Task, CompleteUpload(t) PROVE StoreKept'
    <3>1. task'[t].at = "sent" /\ Alone(t)
      BY <2>7, UploadCompletes
    <3>2. TaskKept(t)'
      BY <3>1 DEF TaskKept
    <3>3. UNCHANGED <<folders, foldersOn, seen, platter, trim, promised, lost>>
      BY <2>7 DEF CompleteUpload, folderVars
    <3> QED
      BY <2>02, <2>03, <2>04, <3>1, <3>2, <3>3
  <2>8. ASSUME NEW t \in Task, EndTask(t) PROVE StoreKept'
    BY <2>02, <2>03, <2>04, <2>06, <2>8 DEF EndTask, folderVars
  <2>9. ASSUME NEW t \in Task, NEW h \in Object, Produce(t, h) PROVE StoreKept'
    <3>1. /\ task'[t].at = "placing" /\ Alone(t)
          /\ UNCHANGED <<seen, platter, folders, foldersOn, trim, promised, lost>>
      BY <2>0, <2>9, StartTask
    <3>2. TaskKept(t)'
      BY <3>1 DEF TaskKept
    <3> QED
      BY <2>02, <2>03, <2>04, <3>1, <3>2
  <2>10. ASSUME NEW h \in Object, SweepObject(h) PROVE StoreKept'
    <3>1. ~InUse(h) /\ Gone(h) /\ UNCHANGED <<task, folders, foldersOn, trim>>
      BY <2>10 DEF SweepObject, folderVars
    <3>2. \A g \in Object : \/ g # h /\ seen'[g] = seen[g] /\ platter'[g] = platter[g]
                            \/ /\ g = h /\ seen'[g] = "none"
                               /\ platter'[g] = platter[g] \cup {"none"}
      BY <3>1, GoneTypes
    <3>3. promised' = promised \ {h} /\ lost' = lost \ {h}
      BY <3>1, GoneTypes
    <3>4. Stays
      BY <3>1, <3>2 DEF Stays
    <3>5. CopiesKept'
      BY <2>0, <3>1, <3>2, <3>3 DEF CopiesKept, PromisedOK
    <3> QED
      BY <2>05, <3>1, <3>4, <3>5
  <2>11. CASE (\E h \in Object : Serve(h)) \/ StartTrim
    BY <2>0, <2>11 DEF Serve, StartTrim
  <2>12. CASE ConfirmNext \/ TrimNext
    BY <2>0, <2>12 DEF ConfirmNext, TrimNext, CopiesKept, NoTrim
  <2>13. CASE UNCHANGED objectVars
    <3>1. UNCHANGED task /\ UNCHANGED <<folders, foldersOn, seen>>
          /\ UNCHANGED <<folders, foldersOn, trim, seen, platter, promised, lost>>
      BY <2>13 DEF objectVars
    <3> QED
      BY <1>1, <2>02, <2>03, <2>05, <3>1
  <2>14. ASSUME Stop(FALSE) PROVE StoreKept'
    <3>1. /\ \A u \in Task : task'[u] = NoTask
          /\ trim' = NoTrim /\ UNCHANGED <<folders, foldersOn, seen, platter, promised, lost>>
      BY <2>14 DEF Stop, folderVars
    <3>2. CopiesKept'
      BY <2>0, <3>1 DEF CopiesKept
    <3>3. \A u \in Task : TaskKept(u)'
      BY <3>1, NoTaskRec DEF TaskKept
    <3> QED
      BY <2>01, <3>2, <3>3
  <2>15. ASSUME Stop(TRUE) PROVE StoreKept'
    <3>1. /\ \A u \in Task : task'[u] = NoTask
          /\ trim' = NoTrim /\ UNCHANGED promised
          /\ foldersOn' = folders' /\ foldersOn \subseteq folders'
          /\ \A h \in Object : seen'[h] \in (IF DirOf[h] \in folders' THEN platter[h] ELSE {"none"})
          /\ platter' = [h \in Object |-> {seen'[h]}]
          /\ lost' = lost \cup {h \in promised : DirOf[h] \notin folders'}
      BY <2>15 DEF Stop
    <3>2. \A h \in Object : seen'[h] \in {"none", "whole"} /\ platter'[h] \subseteq {"none", "whole"}
      BY <2>0, <3>1 DEF CopiesKept
    <3>3. ASSUME NEW h \in promised' \ lost'
          PROVE  seen'[h] = "whole" /\ platter'[h] = {"whole"} /\ DirOf[h] \in folders'
      <4>1. h \in Object /\ platter[h] = {"whole"} /\ DirOf[h] \in folders'
        BY <2>0, <3>1 DEF CopiesKept, PromisedOK
      <4> QED
        BY <3>1, <4>1
    <3>4. \A h \in lost' : DirOf[h] \notin OldDirs
      BY <2>0, <3>1 DEF CopiesKept
    <3>5. CopiesKept'
      BY <2>0, <3>1, <3>2, <3>3, <3>4 DEF CopiesKept
    <3>6. \A u \in Task : TaskKept(u)'
      BY <3>1, NoTaskRec DEF TaskKept
    <3> QED
      BY <2>01, <3>5, <3>6
  <2>16. StoreKept'
    BY <2>1, <2>2, <2>3, <2>4, <2>5, <2>6, <2>7, <2>8, <2>9, <2>10, <2>11, <2>12, <2>13, <2>14,
       <2>15 DEF ObjectNext, TaskStep
  <2> QED
    BY <1>1, <2>16
<1> QED
  BY <1>2, <1>3

\* In a store that is no cache, an object reported stored is there and whole
\* until it is removed, and no path shows a damaged copy, through kills and
\* power cuts at any step of any task, also of tasks that meet while one makes
\* their directory: all that a power cut may take is a directory that was made
\* since the beginning and that no sync of the root followed, with what is in
\* it.
THEOREM ReportedSurvives == ObjectSpec => []StoredSurvives
<1> DEFINE I == ObjectTypes /\ PromisedOK /\ StoreKept
<1>1. ObjectInit => I
  BY TypesInit, NoTaskRec DEF ObjectInit, PromisedOK, StoreKept
<1>2. I /\ [ObjectNext]_objectVars => I'
  BY TypesStep, StoreStep
<1>3. I => StoredSurvives
  BY DEF StoreKept, StoredSurvives
<1> QED
  BY <1>1, <1>2, <1>3, PTL DEF ObjectSpec

-----------------------------------------------------------------------------
(* PutLimit.                                                                *)

HoldingPc == {"permitted", "sending", "reported", "failed"}

\* The held permits are counted by a natural number.
LEMMA HeldCount == Cardinality(Held) \in Nat /\ IsFiniteSet(Held)
BY PutAssumption, FS_Subset, FS_CardinalityType DEF Held

\* A call that takes a permit is one more holder, one that drops it one less.
LEMMA HeldChange ==
  ASSUME PutTypeOK, NEW u \in Put, NEW v,
         v \in {"waiting", "permitted", "sending", "reported", "failed", "done"},
         pc' = [pc EXCEPT ![u] = v]
  PROVE  /\ (pc[u] \in HoldingPc) /\ (v \in HoldingPc) => Cardinality(Held') = Cardinality(Held)
         /\ (pc[u] \notin HoldingPc) /\ (v \notin HoldingPc) => Cardinality(Held') = Cardinality(Held)
         /\ (pc[u] \notin HoldingPc) /\ (v \in HoldingPc) => Cardinality(Held') = Cardinality(Held) + 1
         /\ (pc[u] \in HoldingPc) /\ (v \notin HoldingPc) => /\ Cardinality(Held') = Cardinality(Held) - 1
                                                             /\ Cardinality(Held) >= 1
<1>1. (pc[u] \in HoldingPc <=> v \in HoldingPc) => Held' = Held
  BY DEF Held, PutTypeOK, HoldingPc
<1>2. pc[u] \notin HoldingPc /\ v \in HoldingPc => Held' = Held \cup {u} /\ u \notin Held
  BY DEF Held, PutTypeOK, HoldingPc
<1>3. pc[u] \in HoldingPc /\ v \notin HoldingPc => Held' = Held \ {u} /\ u \in Held
  BY DEF Held, PutTypeOK, HoldingPc
<1>4. u \notin Held => Cardinality(Held \cup {u}) = Cardinality(Held) + 1
  BY HeldCount, FS_AddElement
<1>5. u \in Held => Cardinality(Held \ {u}) = Cardinality(Held) - 1 /\ Cardinality(Held) >= 1
  <2>1. u \in Held => Cardinality(Held \ {u}) = Cardinality(Held) - 1
    BY HeldCount, FS_RemoveElement
  <2>2. Cardinality(Held \ {u}) \in Nat
    BY HeldCount, FS_RemoveElement, FS_CardinalityType
  <2> QED
    BY <2>1, <2>2, HeldCount
<1> QED
  BY <1>1, <1>2, <1>3, <1>4, <1>5

\* Every step keeps the invariant.
LEMMA PutStep == PutInv /\ [PutNext]_putVars => PutInv'
<1> SUFFICES ASSUME PutInv, [PutNext]_putVars PROVE PutInv'
  OBVIOUS
<1>0. PutTypeOK /\ PermitsConserved /\ StartsWithinLimit
  BY DEF PutInv
<1> DEFINE n == Cardinality(Held)
<1>n. n \in Nat /\ n' \in Nat
  BY HeldCount, PutAssumption, FS_Subset, FS_CardinalityType DEF Held
<1>t. /\ limit \in 1..Max /\ successes \in Nat /\ round \in Nat /\ debt \in Nat /\ slots \in Nat
      /\ slots + n = limit + debt
      /\ slots > 0 => n < limit
      /\ debt > 0 => slots = 0
      /\ Max \in Nat \ {0}
  BY <1>0, PutAssumption DEF PutTypeOK, PermitsConserved, StartsWithinLimit
\* What is left to show of a step, with the count of holders as a number.
<1> DEFINE Counts == /\ limit' \in 1..Max /\ successes' \in Nat /\ round' \in Nat
                     /\ debt' \in Nat /\ slots' \in Nat
                     /\ slots' + n' = limit' + debt'
                     /\ slots' > 0 => n' < limit'
                     /\ debt' > 0 => slots' = 0
           Rest == /\ pc' \in [Put -> {"waiting", "permitted", "sending", "reported", "failed", "done"}]
                   /\ sentIn' \in [Put -> Nat]
                   /\ throttles' \in [Put -> Nat] /\ failures' \in [Put -> Nat]
<1>q. Counts /\ Rest => PutInv'
  BY DEF PutInv, PutTypeOK, PermitsConserved, StartsWithinLimit
<1>1. ASSUME NEW u \in Put, Acquire(u) PROVE Counts /\ Rest
  <2>1. n' = n + 1
    BY <1>0, <1>1, HeldChange DEF Acquire, HoldingPc
  <2>2. Counts
    BY <1>1, <1>t, <1>n, <2>1 DEF Acquire, stateVars
  <2> QED
    BY <1>0, <1>1, <2>2 DEF Acquire, PutTypeOK
<1>2. ASSUME NEW u \in Put, Send(u) PROVE Counts /\ Rest
  <2>1. n' = n
    BY <1>0, <1>2, HeldChange DEF Send, HoldingPc
  <2>2. Counts
    BY <1>2, <1>t, <1>n, <2>1 DEF Send, stateVars
  <2> QED
    BY <1>0, <1>2, <2>2 DEF Send, PutTypeOK
<1>3. ASSUME NEW u \in Put, Succeeded(u) PROVE Counts /\ Rest
  <2>1. n' = n
    BY <1>0, <1>3, HeldChange DEF Succeeded, HoldingPc
  <2>2. Counts
    BY <1>3, <1>t, <1>n, <2>1 DEF Succeeded
  <2> QED
    BY <1>0, <1>3, <2>2 DEF Succeeded, PutTypeOK
<1>4. ASSUME NEW u \in Put, Throttled(u) PROVE Counts /\ Rest
  <2>1. n' = n
    BY <1>0, <1>4, HeldChange DEF Throttled, HoldingPc
  <2> DEFINE half == IF limit \div 2 > 1 THEN limit \div 2 ELSE 1
  <2>2. half \in 1..limit /\ half \in Nat
    BY <1>t
  <2>3. CASE sentIn[u] = round
    <3> DEFINE cut == limit - half
               forgotten == IF slots < cut THEN slots ELSE cut
    <3>1. /\ limit' = half /\ successes' = 0 /\ round' = round + 1
          /\ slots' = slots - forgotten /\ debt' = debt + (cut - forgotten)
      BY <1>4, <2>3 DEF Throttled
    <3> HIDE DEF half
    <3>2. Counts
      BY <1>t, <1>n, <2>1, <2>2, <3>1
    <3> QED
      BY <1>0, <1>4, <3>2 DEF Throttled, PutTypeOK
  <2>4. CASE sentIn[u] # round
    <3>1. Counts
      BY <1>4, <1>t, <1>n, <2>1, <2>4 DEF Throttled, stateVars
    <3> QED
      BY <1>0, <1>4, <3>1 DEF Throttled, PutTypeOK
  <2> QED
    BY <2>3, <2>4
<1>5. ASSUME NEW u \in Put, Failed(u) PROVE Counts /\ Rest
  <2>1. n' = n
    BY <1>0, <1>5, HeldChange DEF Failed, HoldingPc
  <2>2. Counts
    BY <1>5, <1>t, <1>n, <2>1 DEF Failed, stateVars
  <2> QED
    BY <1>0, <1>5, <2>2 DEF Failed, PutTypeOK
<1>6. ASSUME NEW u \in Put, Drop(u) PROVE Counts /\ Rest
  <2>1. n' = n - 1
    BY <1>0, <1>6, HeldChange DEF Drop, AfterDrop, HoldingPc
  <2>2. Counts
    BY <1>6, <1>t, <1>n, <2>1 DEF Drop
  <2> QED
    BY <1>0, <1>6, <2>2 DEF Drop, AfterDrop, PutTypeOK
<1>7. ASSUME NEW u \in Put, Cancel(u) PROVE Counts /\ Rest
  <2>1. CASE pc[u] = "waiting"
    <3>1. n' = n
      BY <1>0, <1>7, <2>1, HeldChange DEF Cancel, HoldingPc
    <3>2. Counts
      BY <1>7, <1>t, <1>n, <2>1, <3>1 DEF Cancel
    <3> QED
      BY <1>0, <1>7, <3>2 DEF Cancel, PutTypeOK
  <2>2. CASE pc[u] = "sending"
    <3>1. n' = n - 1
      BY <1>0, <1>7, <2>2, HeldChange DEF Cancel, HoldingPc
    <3>2. Counts
      BY <1>7, <1>t, <1>n, <2>2, <3>1 DEF Cancel
    <3> QED
      BY <1>0, <1>7, <3>2 DEF Cancel, PutTypeOK
  <2> QED
    BY <1>7, <2>1, <2>2 DEF Cancel
<1>8. CASE UNCHANGED putVars
  <2>1. n' = n
    BY <1>8 DEF putVars, Held
  <2>2. Counts
    BY <1>8, <1>t, <1>n, <2>1 DEF putVars
  <2> QED
    BY <1>0, <1>8, <1>q, <2>2 DEF putVars, PutTypeOK
<1> HIDE DEF Counts, Rest, n
<1> QED
  BY <1>1, <1>2, <1>3, <1>4, <1>5, <1>6, <1>7, <1>8, <1>q DEF PutNext

\* PutInv is an invariant of the limit, whatever number of PUTs is in flight
\* and whatever its maximum.
THEOREM PutInvariant == PutSpec => []PutInv
<1>1. PutInit => PutInv
  <2> SUFFICES ASSUME PutInit PROVE PutInv
    OBVIOUS
  <2>1. Held = {}
    BY DEF PutInit, Held
  <2>2. Cardinality(Held) = 0
    BY <2>1, FS_EmptySet
  <2> QED
    BY <2>2, PutAssumption DEF PutInit, PutInv, PutTypeOK, PermitsConserved, StartsWithinLimit
<1> QED
  BY <1>1, PutStep, PTL DEF PutSpec

\* acquire, succeeded, throttled and drop: permits are conserved and no PUT
\* starts beyond the limit.
THEOREM PermitsSafe == PutSpec => [](PermitsConserved /\ StartsWithinLimit)
BY PutInvariant, PTL DEF PutInv
=============================================================================
