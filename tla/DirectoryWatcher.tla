-------------------------- MODULE DirectoryWatcher --------------------------
(***************************************************************************)
(* The Linux half of directory_watcher/directory_watcher.cpp: init() scans *)
(* a directory tree and asks inotify to watch every directory in it, and a *)
(* thread follows the events and keeps two maps between watch descriptors  *)
(* and directory names.  Others change the tree meanwhile, so that a name  *)
(* may mean another directory, or none, by the time it is used.            *)
(*                                                                         *)
(* A path is the sequence of names below the directory given to init().    *)
(* Events that the code ignores (IN_IGNORED, IN_DELETE of a directory) are *)
(* left out, and so is a queue of the kernel that overflows.  Left out too *)
(* are three changes of the tree: a directory that moves out of it or into *)
(* it, so that only one of IN_MOVED_FROM and IN_MOVED_TO comes, and one    *)
(* that is renamed onto an empty directory, which ends that one.           *)
(***************************************************************************)
EXTENDS Integers, SequencesExt

CONSTANTS
    Dirs,           \* directories, by identity, below the one given to init()
    Names,
    MaxDepth,       \* bound: the length of a path
    MaxChanges,     \* bound: changes of the tree and the files
    Top,            \* the directory given to init(); it stays where it is
    Gone            \* the path of a directory that does not exist

ASSUME ConstantsAssumption ==
    /\ IsFiniteSet(Dirs) /\ Top \notin Dirs /\ Gone \notin Seq(Names)
    /\ MaxDepth \in Nat /\ MaxChanges \in Nat

VARIABLES
    path,           \* where each directory is
    changes,        \* how many changes there were
    outrun,         \* ghost: a change that the code does not follow, see Outruns
    self_isdir,     \* does the kernel set IN_ISDIR on IN_xxx_SELF?
    watches,        \* the kernel's watches: from descriptors to directories
    last_wd,        \* the last descriptor it gave
    queue,          \* events to be read
    pc,             \* init(), the thread, and exit()
    dir_list, dir_name,                \* of init(): to be scanned, being scanned
    m_description_directory_map, m_directory_description_map,
    batch,          \* event_buf, from event_pos
    pipe,           \* exit() has written "x"
    seen            \* ghost: directories that a scan or an event gives notice of

tree == <<path, changes, self_isdir>>
maps == <<m_description_directory_map, m_directory_description_map>>
scan == <<dir_list, dir_name>>
kernel == <<watches, last_wd>>
vars == <<tree, outrun, kernel, queue, pc, scan, maps, batch, pipe, seen>>

Paths == SeqOf(Names, MaxDepth) \ {<<>>}
At(p) == {d \in Dirs : path[d] = p} \cup (IF p = <<>> THEN {Top} ELSE {})
Exists(p) == At(p) # {}
PathOf(d) == IF d = Top THEN <<>> ELSE path[d]
Existing == {d \in Dirs : path[d] # Gone}
Below(d) == {e \in Existing \ {d} : IsPrefix(PathOf(d), path[e])}
Children(d) == {e \in Existing : Front(path[e]) = PathOf(d)}

Init ==
    /\ path \in [Dirs -> Paths \cup {Gone}]
    /\ \A d \in Existing : Exists(Front(path[d])) /\ At(path[d]) = {d}
    /\ changes = 0 /\ outrun = FALSE
    /\ self_isdir \in BOOLEAN
    /\ watches = <<>> /\ last_wd = 0
    /\ queue = <<>>
    /\ pc = "idle"
    /\ dir_list = <<>> /\ dir_name = Gone
    /\ m_description_directory_map = <<>>
    /\ m_directory_description_map = <<>>
    /\ batch = <<>>
    /\ pipe = FALSE
    /\ seen = {}

Without(f, x) == [y \in DOMAIN f \ {x} |-> f[y]]
With(f, x, v) == [y \in DOMAIN f \cup {x} |-> IF y = x THEN v ELSE f[y]]

Watch(d) == {wd \in DOMAIN watches : watches[wd] = d}      \* at most one

\* A directory is watched under the name it has now.
Watched(d) ==
    \E wd \in Watch(d) \cap DOMAIN m_description_directory_map :
        m_description_directory_map[wd] = PathOf(d)
Outstanding == ToSet(queue) \cup ToSet(batch)
Settled == pc = "run" /\ Outstanding = {}

-----------------------------------------------------------------------------
(* The file system and inotify.                                            *)

\* No event or one.
Event(dir, mask, name) ==
    IF Watch(dir) = {} THEN <<>>
    ELSE <<[wd |-> CHOOSE wd \in Watch(dir) : TRUE, mask |-> mask, name |-> name,
            dir |-> dir, names |-> {PathOf(dir)}, known |-> Watched(dir)]>>

Notices(dir, d) == IF Watched(dir) THEN seen \cup {d} ELSE seen \ {d}

Known(wd) == wd \in DOMAIN m_description_directory_map      \* search_watch()

\* The event makes the thread give up the name p.
GivesUp(e, p) ==
    /\ Known(e.wd)
    /\ \/ e.mask = "moved_from" /\ p = Append(m_description_directory_map[e.wd], e.name)
       \/ self_isdir /\ e.mask \in {"delete_self", "move_self"} /\ p = m_description_directory_map[e.wd]

\* The name of a directory is taken by another before the thread has come to
\* the event that the first has given it up.
Reused(p) == \E e \in Outstanding : GivesUp(e, p)

Change ==
    /\ changes < MaxChanges /\ changes' = changes + 1
    /\ UNCHANGED <<self_isdir, last_wd, pc, scan, maps, pipe>>

Mkdir(d, dir, name) ==
    /\ Change
    /\ path[d] = Gone /\ dir \in Existing \cup {Top}
    /\ LET p == Append(PathOf(dir), name) IN
        /\ Len(p) <= MaxDepth /\ ~ Exists(p)
        /\ path' = [path EXCEPT ![d] = p]
    /\ queue' = queue \o Event(dir, "create", name)
    /\ outrun' = (outrun \/ Reused(Append(PathOf(dir), name)))
    /\ seen' = Notices(dir, d)
    /\ UNCHANGED <<watches, batch>>

\* The watch goes with the directory.
Rmdir(d) ==
    /\ Change
    /\ d \in Existing /\ Below(d) = {}
    /\ path' = [path EXCEPT ![d] = Gone]
    /\ queue' = queue \o Event(d, "delete_self", Gone)
    /\ watches' = [wd \in DOMAIN watches \ Watch(d) |-> watches[wd]]
    /\ seen' = seen \ {d}
    /\ UNCHANGED <<outrun, batch>>

\* Within the tree, to a name that is free.  The directories below move along.
\* For the ghosts: file events that are
\* still to be handled learn the new path of their directory.
Rename(d, dir, name) ==
    /\ Change
    /\ d \in Existing /\ dir \in (Existing \cup {Top}) \ ({d} \cup Below(d))
    /\ LET old == path[d]
           new == Append(PathOf(dir), name)
           from == Last(old)
           parent == CHOOSE e \in At(Front(old)) : TRUE
           Moved(e) == new \o SubSeq(path[e], Len(old) + 1, Len(path[e]))
           Learn(events) == [i \in DOMAIN events |->
               IF events[i].dir = d THEN [events[i] EXCEPT !.names = @ \cup {new}] ELSE events[i]]
       IN /\ ~ Exists(new)
          /\ \A e \in Below(d) : Len(Moved(e)) <= MaxDepth
          /\ Len(new) <= MaxDepth
          /\ path' = [e \in Dirs |-> IF e \in {d} \cup Below(d) THEN Moved(e) ELSE path[e]]
          /\ queue' = Learn(queue) \o Event(parent, "moved_from", from)
                          \o Event(dir, "moved_to", name) \o Event(d, "move_self", Gone)
          /\ batch' = Learn(batch)
          /\ outrun' = (outrun \/ Below(d) # {} \/ Reused(new) \/ (Watch(d) # {} /\ ~ Watched(parent)))
    /\ seen' = Notices(dir, d)
    /\ UNCHANGED watches

\* A file in the directory is created, deleted, written or renamed.
FileChange(d) ==
    /\ Change
    /\ Event(d, "file", Gone) # <<>>
    /\ queue' = queue \o Event(d, "file", Gone)
    /\ UNCHANGED <<path, outrun, watches, batch, seen>>

-----------------------------------------------------------------------------
(* The calls on the maps.                                                  *)

NoWatchChange == UNCHANGED <<outrun, kernel, maps>>

\* append_watch(): inotify_add_watch() goes by the name, and returns the
\* descriptor there is for a directory that is watched already.  (If that is
\* under another name, what is outstanding for the directory is renamed.)
AppendWatch(p) ==
    IF ~ Exists(p) THEN NoWatchChange
    ELSE LET dir == CHOOSE d \in At(p) : TRUE
             wd == IF Watch(dir) = {} THEN last_wd + 1 ELSE CHOOSE w \in Watch(dir) : TRUE
         IN /\ watches' = With(watches, wd, dir)
            /\ last_wd' = IF Watch(dir) = {} THEN wd ELSE last_wd
            /\ outrun' = (outrun \/ (Known(wd) /\ m_description_directory_map[wd] # p))
            /\ m_description_directory_map' = With(m_description_directory_map, wd, p)
            /\ m_directory_description_map' = With(m_directory_description_map, p, wd)

\* remove_watch(int)
RemoveDescription(wd) ==
    /\ watches' = Without(watches, wd)
    /\ m_description_directory_map' = Without(m_description_directory_map, wd)
    /\ m_directory_description_map' =
           IF wd \in DOMAIN m_description_directory_map
           THEN Without(m_directory_description_map, m_description_directory_map[wd])
           ELSE m_directory_description_map
    /\ UNCHANGED <<outrun, last_wd>>

\* remove_watch(const std::string &)
RemoveDirectory(p) ==
    IF p \notin DOMAIN m_directory_description_map THEN NoWatchChange
    ELSE LET wd == m_directory_description_map[p] IN
         /\ watches' = Without(watches, wd)
         /\ m_description_directory_map' = Without(m_description_directory_map, wd)
         /\ m_directory_description_map' = Without(m_directory_description_map, p)
         /\ UNCHANGED <<outrun, last_wd>>

-----------------------------------------------------------------------------
(* init() and exit(), called by one thread.                                *)

InitBegin ==
    /\ pc = "idle"
    /\ pc' = "scan"
    /\ dir_list' = <<<<>>>>
    /\ seen' = Existing
    /\ UNCHANGED <<tree, outrun, kernel, queue, dir_name, maps, batch, pipe>>

\* opendir() and readdir(); a directory that is gone is passed over.
InitScan ==
    /\ pc = "scan" /\ dir_name = Gone /\ dir_list # <<>>
    /\ IF Exists(Head(dir_list))
       THEN LET dir == CHOOSE d \in At(Head(dir_list)) : TRUE IN
            /\ dir_name' = Head(dir_list)
            /\ \E order \in SetToSeqs({path[e] : e \in Children(dir)}) :
                   dir_list' = Tail(dir_list) \o order
       ELSE dir_list' = Tail(dir_list) /\ UNCHANGED dir_name
    /\ UNCHANGED <<tree, outrun, kernel, queue, pc, maps, batch, pipe, seen>>

\* What is created after the scan and before this is missed.
InitWatch ==
    /\ pc = "scan" /\ dir_name # Gone
    /\ AppendWatch(dir_name)
    /\ dir_name' = Gone
    /\ UNCHANGED <<tree, queue, pc, dir_list, batch, pipe, seen>>

InitEnd ==
    /\ pc = "scan" /\ dir_name = Gone /\ dir_list = <<>>
    /\ pc' = "run"
    /\ UNCHANGED <<tree, outrun, kernel, queue, scan, maps, batch, pipe, seen>>

ExitBegin ==
    /\ pc = "run" /\ ~ pipe
    /\ pipe' = TRUE
    /\ UNCHANGED <<tree, outrun, kernel, queue, pc, scan, maps, batch, seen>>

\* The watches end with their descriptor, and with it what was not read.
ExitEnd ==
    /\ pc = "ended"
    /\ pc' = "idle" /\ pipe' = FALSE
    /\ watches' = <<>> /\ last_wd' = 0 /\ queue' = <<>>
    /\ m_description_directory_map' = <<>> /\ m_directory_description_map' = <<>>
    /\ seen' = {}
    /\ UNCHANGED <<tree, outrun, scan, batch>>

-----------------------------------------------------------------------------
(* The thread: watch_wait().                                               *)

\* select() tells of the pipe, which is looked at first.
ThreadEnd ==
    /\ pc = "run" /\ batch = <<>> /\ pipe
    /\ pc' = "ended"
    /\ UNCHANGED <<tree, outrun, kernel, queue, scan, maps, batch, pipe, seen>>

ReadEvents ==
    /\ pc = "run" /\ batch = <<>> /\ ~ pipe /\ queue # <<>>
    /\ batch' = queue /\ queue' = <<>>
    /\ UNCHANGED <<tree, outrun, kernel, pc, scan, maps, pipe, seen>>

event == Head(batch)
Handling(masks) ==
    /\ pc = "run" /\ batch # <<>> /\ event.mask \in masks
    /\ batch' = Tail(batch)
    /\ UNCHANGED <<tree, queue, pc, scan, pipe, seen>>

\* Defect: the directory in front of the name is forgotten.
NamedBare == <<event.name>>
Named == Append(m_description_directory_map[event.wd], event.name)

HandleSelf ==
    /\ Handling({"delete_self", "move_self"})
    /\ IF self_isdir THEN RemoveDescription(event.wd) ELSE NoWatchChange

\* Defect: a directory that is moved away keeps its watch.
HandleMovedFromIgnored ==
    /\ Handling({"moved_from"})
    /\ NoWatchChange

HandleMovedFrom ==
    /\ Handling({"moved_from"})
    /\ IF Known(event.wd) THEN RemoveDirectory(Named) ELSE NoWatchChange

HandleEntered ==
    /\ Handling({"create", "moved_to"})
    /\ IF Known(event.wd) THEN AppendWatch(Named) ELSE NoWatchChange

\* handle_event() is called if the descriptor is known.
HandleFile ==
    /\ Handling({"file"})
    /\ NoWatchChange

-----------------------------------------------------------------------------
Others ==
    \/ \E d \in Dirs \cup {Top} : FileChange(d)
    \/ \E d \in Dirs :
        \/ Rmdir(d)
        \/ \E dir \in Dirs \cup {Top}, name \in Names : Mkdir(d, dir, name) \/ Rename(d, dir, name)
Caller == InitBegin \/ InitScan \/ InitWatch \/ InitEnd \/ ExitBegin \/ ExitEnd
Thread ==
    ThreadEnd \/ ReadEvents \/ HandleSelf \/ HandleMovedFrom \/ HandleEntered \/ HandleFile

Next == Others \/ Caller \/ Thread

Spec == Init /\ [][Next]_vars

-----------------------------------------------------------------------------
(* Properties.  They hold until the tree outruns the code (outrun): a      *)
(* directory moves while others are below it, which keep their old names   *)
(* for good; one that is watched moves out of a directory that is not; a   *)
(* directory takes a name before the thread has come to the event by which *)
(* another gives it up; or a directory is found under its new name while   *)
(* it is watched under the old one, which renames what is outstanding.     *)

(* Once all events are handled, a directory that was there before init(),  *)
(* or that was created in or moved into a watched directory, is watched,   *)
(* whatever else has changed since it was seen; and every watch is         *)
(* recorded under the path of its directory: no name is stale, and none    *)
(* leads to another's watch.                                               *)
WatchesFollowTree ==
    Settled /\ ~ outrun =>
        /\ \A d \in seen : Watched(d)
        /\ \A wd \in DOMAIN watches :
            /\ Known(wd) /\ m_description_directory_map[wd] = PathOf(watches[wd])
            /\ PathOf(watches[wd]) \in DOMAIN m_directory_description_map
            /\ m_directory_description_map[PathOf(watches[wd])] = wd

(* A change of a file is reported under a path that its directory has had  *)
(* since; and it is reported if its directory was watched under its path   *)
(* when the file changed, whatever else was outstanding.                   *)
ReportsAreTrue ==
    [][HandleFile /\ ~ outrun =>
        /\ Known(event.wd) => m_description_directory_map[event.wd] \in event.names
        /\ event.known => Known(event.wd)]_vars
=============================================================================
