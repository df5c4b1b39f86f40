---------------------------- MODULE ObjectStore ----------------------------
(***************************************************************************)
(* Objects on disk and in the bucket (rust/src/cas.rs, retention.rs, the    *)
(* uploads of storage/s3_storage.rs and storage/mod.rs).                    *)
(*                                                                          *)
(* With local storage the CAS is the store, and syncs what it installs.     *)
(* Before a bucket it is a cache, which syncs nothing: a power cut may      *)
(* leave an object's path with other bytes than its hash says.  Builds      *)
(* install objects and upload them, reads of the bucket fill the cache, the *)
(* sweep deletes what nobody pins and retention trims the cache.            *)
(*                                                                          *)
(* The sweep is one step here (ArtifactGC has its steps), and the limit on  *)
(* PUTs is PutLimit's.  All objects count as one unit of size.              *)
(***************************************************************************)
EXTENDS Integers, FiniteSets, Sequences

CONSTANTS
  Object,       \* content hashes
  DirOf,        \* DirOf[h]: the fan-out directory of h
  OldDirs,      \* the fan-out directories there from the beginning
  Task,         \* builds and reads that store an object each, at a time
  PartCount,    \* parts of a multipart upload
  MaxKept,      \* RIPCLONE_RETENTION_MAX_BYTES
  MaxStores,    \* bound: objects stored
  MaxCuts,      \* bound: power cuts and kills
  MaxRefusals   \* bound: failed writes and uploads

VARIABLES
  durable,    \* whether the CAS is the store, not a cache
  seen,       \* seen[h]: what the path of h shows: "none", "whole" or "torn"
  platter,    \* platter[h]: what a power cut may leave of it in its directory
  folders,    \* the fan-out directories there are
  foldersOn,  \* those that a power cut leaves
  task,       \* task[t]: where t is with which object, and the parts it sent
  remote,     \* remote[h]: what the bucket has: "none", "whole" or "wrong"
  byAge,      \* the objects on disk, least recently written or served first
  trim,       \* the pass of retention: what is left of its list, what it must
              \* free, and the object whose remote copy it has confirmed
  promised,   \* objects reported stored and not removed since
  lost,       \* history: those of them that a power cut took with a directory
              \* whose entry no sync had put on the platter
  stores, cuts, refusals

folderVars == <<folders, foldersOn>>
objectVars == <<durable, seen, platter, folders, foldersOn, task, remote, byAge, trim,
                promised, lost, stores, cuts, refusals>>

NoTask == [at |-> "off", object |-> 0, fresh |-> FALSE, parts |-> <<>>]
NoTrim == [list |-> <<>>, target |-> 0, sure |-> 0]

ObjectInit ==
  /\ durable \in BOOLEAN
  /\ seen = [h \in Object |-> "none"] /\ platter = [h \in Object |-> {"none"}]
  /\ folders = OldDirs /\ foldersOn = OldDirs
  /\ task = [t \in Task |-> NoTask]
  /\ remote = [h \in Object |-> "none"]
  /\ byAge = <<>> /\ trim = NoTrim /\ promised = {} /\ lost = {}
  /\ stores = 0 /\ cuts = 0 /\ refusals = 0

Move(t, at) == task' = [task EXCEPT ![t].at = at]
End(t) == task' = [task EXCEPT ![t] = NoTask]
Dir(t) == DirOf[task[t].object]

\* with_pins: an object is pinned from before it is relied on or installed
\* until its build ends.
PinnedAt == {"checking", "placing", "syncing", "naming", "renamed", "stored", "sent"}
InUse(h) == \E t \in Task : task[t].object = h /\ task[t].at \in PinnedAt

Refuse == refusals < MaxRefusals /\ refusals' = refusals + 1

-----------------------------------------------------------------------------
(* Storing an object.                                                       *)

\* put, install_file and put_file_with_hash: a build has written a temporary
\* file and install pins it; in a store sync_file has synced it, and the rename
\* below depends on that.  put_with_hash: a read of the bucket has bytes that
\* match the hash.
Produce(t, h) ==
  /\ task[t].at = "off" /\ stores < MaxStores /\ stores' = stores + 1
  /\ \/ task' = [task EXCEPT ![t] = [NoTask EXCEPT !.at = "placing", !.object = h, !.fresh = TRUE]]
     \/ /\ ~durable /\ remote[h] = "whole"
        /\ task' = [task EXCEPT ![t] = [NoTask EXCEPT !.at = "checking", !.object = h]]
  /\ UNCHANGED <<durable, seen, platter, folderVars, remote, byAge, trim, promised, lost, cuts, refusals>>

\* Bug: whatever is at the path is kept.
AnyCopy(h) == seen[h] # "none"

\* verify_object: the copy at the path matches its hash.
IntactCopy(h) == seen[h] = "whole"

\* put_with_hash keeps an intact copy.
CheckCopy(t) ==
  /\ task[t].at = "checking"
  /\ Move(t, IF IntactCopy(task[t].object) THEN "stored" ELSE "placing")
  /\ UNCHANGED <<durable, seen, platter, folderVars, remote, byAge, trim, promised, lost, stores, cuts, refusals>>

\* create_object_dir: whoever finds the directory there goes on at once,
\* though another task may still be making it; whoever made it syncs the root.
MakeDir(t) ==
  /\ task[t].at = "placing"
  /\ folders' = folders \cup {Dir(t)}
  /\ Move(t, IF durable /\ Dir(t) \notin folders THEN "syncing" ELSE "naming")
  /\ UNCHANGED <<durable, seen, platter, foldersOn, remote, byAge, trim, promised, lost, stores, cuts, refusals>>

\* sync_dir of the root: the entries of all directories are as they look.
SyncRoot(t) ==
  /\ task[t].at = "syncing" /\ foldersOn' = folders /\ Move(t, "naming")
  /\ UNCHANGED <<durable, seen, platter, folders, remote, byAge, trim, promised, lost, stores, cuts, refusals>>

Without(h) == SelectSeq(byAge, LAMBDA g : g # h)

\* What a power cut may leave of the bytes.
Leaves == IF durable THEN {"whole"} ELSE {"whole", "torn"}

\* install: the rename replaces what is there.
Rename(t) ==
  /\ task[t].at = "naming"
  /\ LET h == task[t].object
     IN  \/ /\ seen' = [seen EXCEPT ![h] = "whole"]
            /\ platter' = [platter EXCEPT ![h] = @ \cup Leaves]
            /\ byAge' = Append(Without(h), h)
            /\ Move(t, "renamed") /\ UNCHANGED refusals
         \/ \* it fails; an intact copy will do
            /\ Refuse /\ IF seen[h] = "whole" THEN Move(t, "renamed") ELSE End(t)
            /\ UNCHANGED <<seen, platter, byAge>>
  /\ UNCHANGED <<durable, folderVars, remote, trim, promised, lost, stores, cuts>>

\* Bug: the directory is not synced after the rename.
EntriesAsBefore(dir) == platter

\* sync_dir: the entries of the directory are as they look.
EntriesOn(dir) == [h \in Object |-> IF DirOf[h] = dir THEN {seen[h]} ELSE platter[h]]

\* The object is reported stored; its upload starts (on_store).
SyncDir(t) ==
  /\ task[t].at = "renamed"
  /\ platter' = IF durable THEN EntriesOn(Dir(t)) ELSE platter
  /\ promised' = promised \cup {task[t].object} /\ lost' = lost \ {task[t].object}
  /\ Move(t, "stored")
  /\ UNCHANGED <<durable, seen, folderVars, remote, byAge, trim, stores, cuts, refusals>>

-----------------------------------------------------------------------------
(* Uploading it.                                                            *)

\* put_file_async: a large object that the bucket has is not sent again.
SkipUpload(t) ==
  /\ ~durable /\ task[t].at = "stored" /\ task[t].fresh /\ task[t].parts = <<>>
  /\ seen[task[t].object] # "none" /\ remote[task[t].object] # "none"
  /\ Move(t, "sent")
  /\ UNCHANGED <<durable, seen, platter, folderVars, remote, byAge, trim, promised, lost, stores, cuts, refusals>>

\* A part is read from the file, and sent until it is in (PutLimit); parts end
\* in any order.
SendPart(t, n) ==
  /\ ~durable /\ task[t].at = "stored" /\ task[t].fresh
  /\ \A k \in DOMAIN task[t].parts : task[t].parts[k].part # n
  /\ LET bytes == seen[task[t].object]
     IN  \/ /\ bytes # "none"
            /\ task' = [task EXCEPT ![t].parts = Append(@, [part |-> n, bytes |-> bytes])]
            /\ UNCHANGED refusals
         \/ bytes = "none" /\ End(t) /\ UNCHANGED refusals
         \/ Refuse /\ End(t)
  /\ UNCHANGED <<durable, seen, platter, folderVars, remote, byAge, trim, promised, lost, stores, cuts>>

\* completed.sort_by_key
Sorted(parts) ==
  [n \in DOMAIN parts |-> CHOOSE p \in {parts[k] : k \in DOMAIN parts} : p.part = n]

\* complete_multipart_upload puts the parts together as they are listed.
CompleteUpload(t) ==
  /\ task[t].at = "stored" /\ Len(task[t].parts) = PartCount
  /\ LET parts == Sorted(task[t].parts)
         right == \A n \in DOMAIN parts : parts[n] = [part |-> n, bytes |-> "whole"]
     IN  remote' = [remote EXCEPT ![task[t].object] = IF right THEN "whole" ELSE "wrong"]
  /\ task' = [task EXCEPT ![t].at = "sent", ![t].parts = <<>>]
  /\ UNCHANGED <<durable, seen, platter, folderVars, byAge, trim, promised, lost, stores, cuts, refusals>>

\* The build ends, and its pins with it, as it does when a step fails.  A
\* failed upload is aborted: the bucket keeps no object of it.
EndTask(t) ==
  /\ task[t].at \in (IF durable \/ ~task[t].fresh THEN {"stored"} ELSE {"sent"})
  /\ End(t)
  /\ UNCHANGED <<durable, seen, platter, folderVars, remote, byAge, trim, promised, lost, stores, cuts, refusals>>

-----------------------------------------------------------------------------
(* Removing objects.                                                        *)

Gone(h) ==
  /\ seen' = [seen EXCEPT ![h] = "none"]
  /\ platter' = [platter EXCEPT ![h] = @ \cup {"none"}]
  /\ byAge' = Without(h)
  /\ promised' = promised \ {h} /\ lost' = lost \ {h}

\* The sweep: the local copy and the one in the bucket.
SweepObject(h) ==
  /\ ~InUse(h) /\ (seen[h] # "none" \/ remote[h] # "none")
  /\ Gone(h) /\ remote' = [remote EXCEPT ![h] = "none"]
  /\ UNCHANGED <<durable, folderVars, task, trim, stores, cuts, refusals>>

\* get_small: an object that is read is marked used.
Serve(h) ==
  /\ ~durable /\ seen[h] = "whole" /\ byAge' = Append(Without(h), h)
  /\ UNCHANGED <<durable, seen, platter, folderVars, task, remote, trim, promised, lost, stores, cuts, refusals>>

\* list_cas_entries, sorted by the time they were written or marked used.
Entries == byAge

\* run_once: over the limit, the oldest go until a tenth of it is free.
StartTrim ==
  /\ ~durable /\ trim = NoTrim /\ Len(Entries) > MaxKept
  /\ trim' = [NoTrim EXCEPT !.list = Entries, !.target = Len(Entries) - (MaxKept * 9) \div 10]
  /\ UNCHANGED <<durable, seen, platter, folderVars, task, remote, byAge, promised, lost, stores, cuts, refusals>>

\* verify_durable_copy of the next object; it is kept when that fails.
ConfirmNext ==
  /\ trim.list # <<>> /\ trim.sure = 0
  /\ trim' = IF trim.target = 0 THEN NoTrim
             ELSE IF remote[Head(trim.list)] = "none"
             THEN [trim EXCEPT !.list = Tail(@), !.target = IF Tail(trim.list) = <<>> THEN 0 ELSE @]
             ELSE [trim EXCEPT !.sure = Head(trim.list)]
  /\ UNCHANGED <<durable, seen, platter, folderVars, task, remote, byAge, promised, lost, stores, cuts, refusals>>

TrimNext ==
  /\ trim.sure # 0
  /\ LET freed == IF seen[trim.sure] = "none" THEN 0 ELSE 1
         rest == [list |-> Tail(trim.list), target |-> trim.target - freed, sure |-> 0]
     IN  trim' = IF rest.list = <<>> THEN NoTrim ELSE rest
  /\ Gone(trim.sure)
  /\ UNCHANGED <<durable, folderVars, task, remote, stores, cuts, refusals>>

\* The process is killed, or the power cut.  What is left at a path is one of
\* the things that may be left there.
Stop(power) ==
  /\ cuts < MaxCuts /\ cuts' = cuts + 1
  /\ task' = [t \in Task |-> NoTask] /\ trim' = NoTrim
  /\ IF power
     THEN /\ \E kept \in SUBSET folders : foldersOn \subseteq kept /\ folders' = kept /\ foldersOn' = kept
          /\ seen' \in [Object -> {"none", "whole", "torn"}]
          /\ \A h \in Object : seen'[h] \in (IF DirOf[h] \in folders' THEN platter[h] ELSE {"none"})
          /\ platter' = [h \in Object |-> {seen'[h]}]
          /\ byAge' = SelectSeq(byAge, LAMBDA h : seen'[h] # "none")
          /\ lost' = lost \cup {h \in promised : DirOf[h] \notin folders'}
     ELSE UNCHANGED <<folderVars, seen, platter, byAge, lost>>
  /\ UNCHANGED <<durable, remote, promised, stores, refusals>>

TaskStep(t) ==
  \/ CheckCopy(t) \/ MakeDir(t) \/ SyncRoot(t) \/ Rename(t) \/ SyncDir(t)
  \/ SkipUpload(t) \/ (\E n \in 1..PartCount : SendPart(t, n)) \/ CompleteUpload(t) \/ EndTask(t)

ObjectNext ==
  \/ \E t \in Task : TaskStep(t) \/ \E h \in Object : Produce(t, h)
  \/ \E h \in Object : SweepObject(h) \/ Serve(h)
  \/ StartTrim \/ ConfirmNext \/ TrimNext
  \/ \E power \in BOOLEAN : Stop(power)

ObjectSpec == ObjectInit /\ [][ObjectNext]_objectVars

-----------------------------------------------------------------------------
(* Properties.                                                              *)

\* In a store that is no cache, an object that was reported stored is there
\* and whole until it is removed, and whatever is at an object's path is
\* whole, through kills and power cuts at any step of any task.  What is lost
\* is lost with a directory that was made and not yet synced, so never in one
\* of the directories that were there from the beginning.
StoredSurvives ==
  durable => /\ \A h \in promised \ lost : seen[h] = "whole"
             /\ \A h \in lost : DirOf[h] \notin OldDirs
             /\ \A h \in Object : seen[h] # "torn"

\* What cas.rs:65 says of a store, "each stored object is durable": nothing
\* that was reported stored is lost.  It is not so for two tasks that meet in a
\* new directory, and no run checks it.
ReportedIsDurable == durable => \A h \in promised : seen[h] = "whole"

\* Whatever is uploaded is whole, although the cache may hold damaged copies
\* since a power cut, and is trimmed and refilled meanwhile; what a task just
\* stored can be read without hashing it again; and a build goes on only with
\* objects that the bucket has.
UploadsWhole ==
  /\ \A h \in Object : remote[h] \in {"none", "whole"}
  /\ \A t \in Task :
       /\ task[t].at = "stored" => seen[task[t].object] # "torn"
       /\ task[t].at = "sent" => remote[task[t].object] = "whole"

\* The strengthening for what is stored: a reported object that is not lost
\* is on the platter, in a directory that is there, and a task renames only
\* into a directory that is there.
StoreKept ==
  durable =>
    /\ OldDirs \subseteq foldersOn /\ foldersOn \subseteq folders
    /\ trim = NoTrim
    /\ \A h \in Object : seen[h] \in {"none", "whole"} /\ platter[h] \subseteq {"none", "whole"}
    /\ \A h \in promised \ lost : seen[h] = "whole" /\ platter[h] = {"whole"} /\ DirOf[h] \in folders
    /\ \A h \in lost : DirOf[h] \notin OldDirs
    /\ \A t \in Task :
         /\ task[t].at \in {"syncing", "naming", "renamed"} => Dir(t) \in folders
         /\ task[t].at = "renamed" => seen[task[t].object] = "whole"

\* The strengthening for what is uploaded: the path of an object shows no
\* damaged copy from its rename or its check until its task ends, so the parts
\* are whole, and they are different ones.
PartsWhole ==
  /\ \A h \in Object : remote[h] \in {"none", "whole"}
  /\ \A t \in Task :
       /\ task[t].at \in {"renamed", "stored"} => seen[task[t].object] # "torn"
       /\ task[t].at = "sent" => remote[task[t].object] = "whole"
       /\ \A k \in DOMAIN task[t].parts :
            task[t].parts[k].bytes = "whole" /\ task[t].parts[k].part \in 1..PartCount
       /\ \A j, k \in DOMAIN task[t].parts :
            task[t].parts[j].part = task[t].parts[k].part => j = k
=============================================================================
