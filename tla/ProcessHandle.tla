---------------------------- MODULE ProcessHandle ----------------------------
(***************************************************************************)
(* popen_ex/popen_ex.cpp: a program that starts children with              *)
(* goofer_popen() and watches, kills and closes them, in its POSIX and its *)
(* Windows half.  What the caller is given for a child is a number: a pid, *)
(* which the system gives away again once the child is reaped, or the      *)
(* value of a handle, which it gives away again once the handle is closed. *)
(* A child reads from, or writes to, the pipe until the other end is       *)
(* closed everywhere, or ends before.  The calls come from one thread, and *)
(* none follows goofer_pclose().                                           *)
(***************************************************************************)
EXTENDS Integers

CONSTANTS
    Calls,              \* calls of goofer_popen(), which stand for their children
    Numbers,            \* bound: pids, or handle values
    NoNumber, Nobody, Stranger

ASSUME HandleAssumption ==
    /\ NoNumber \notin Numbers
    /\ Nobody \notin Calls /\ Stranger \notin Calls /\ Nobody # Stranger

VARIABLES
    system,             \* "posix" or "windows"
    named,              \* what each number names
    process,            \* the child of each call
    child,              \* the number the call gave
    file,               \* the caller's end of the pipe
    inherited,          \* the pipes whose caller's end a child has as well
    toldDead,           \* ghost: goofer_palive() has returned false
    askedAgain          \* ghost: a pid was used after that

handleVars == <<system, named, process, child, file, inherited, toldDead, askedAgain>>

\* "259": it ended with STILL_ACTIVE for its exit code.
HandleTypeOK ==
    /\ system \in {"posix", "windows"}
    /\ named \in [Numbers -> Calls \cup {Nobody, Stranger}]
    /\ process \in [Calls -> {"none", "running", "ended", "259", "reaped"}]
    /\ child \in [Calls -> Numbers \cup {NoNumber}]
    /\ file \in [Calls -> {"none", "open", "closed"}]
    /\ inherited \in [Calls -> SUBSET Calls]
    /\ toldDead \in [Calls -> BOOLEAN] /\ askedAgain \in BOOLEAN

HandleInit ==
    /\ system \in {"posix", "windows"}
    /\ named = [n \in Numbers |-> Nobody]
    /\ process = [c \in Calls |-> "none"]
    /\ child = [c \in Calls |-> NoNumber]
    /\ file = [c \in Calls |-> "none"]
    /\ inherited = [c \in Calls |-> {}]
    /\ toldDead = [c \in Calls |-> FALSE] /\ askedAgain = FALSE

Become(c, p) == process' = [process EXCEPT ![c] = p]
GiveAway(n) == named' = [named EXCEPT ![n] = Nobody]

-----------------------------------------------------------------------------
(* The calls.                                                              *)

\* Defect: the caller's end is inheritable on Windows as well.
InheritedAlways == {c \in Calls : file[c] = "open"}

\* The descriptors a new child starts with: SetHandleInformation() takes the
\* caller's ends out, fork() passes them all on.
Inherited == {c \in Calls : system = "posix" /\ file[c] = "open"}

\* goofer_popen().  If the pipe or the process fails, nothing is left.
PopenDone(c) ==
    /\ process[c] = "none"
    /\ \E n \in Numbers :
        /\ named[n] = Nobody
        /\ named' = [named EXCEPT ![n] = c]
        /\ child' = [child EXCEPT ![c] = n]
    /\ Become(c, "running")
    /\ file' = [file EXCEPT ![c] = "open"]
    /\ inherited' = [inherited EXCEPT ![c] = Inherited]
    /\ UNCHANGED <<system, toldDead, askedAgain>>

\* The stream cannot be made: the end of the pipe and the handle are closed and
\* the caller gets no number, but the child is there.
PopenNoStream(c) ==
    /\ process[c] = "none"
    /\ \E n \in Numbers :
        /\ named[n] = Nobody
        /\ named' = IF system = "posix" THEN [named EXCEPT ![n] = c] ELSE named
    /\ Become(c, "running")
    /\ file' = [file EXCEPT ![c] = "closed"]
    /\ inherited' = [inherited EXCEPT ![c] = Inherited]
    /\ UNCHANGED <<system, child, toldDead, askedAgain>>

Running(x) == IF x = Stranger THEN TRUE ELSE x # Nobody /\ process[x] = "running"
Ended(x) == x \in Calls /\ process[x] \in {"ended", "259"}

\* goofer_palive(): on POSIX waitpid() knows the program's own children only,
\* and reaps one that has ended.
Palive(c) ==
    LET x == named[child[c]] IN
    IF system = "posix" THEN x \in Calls /\ process[x] = "running"
    ELSE x \in Calls /\ process[x] \in {"running", "259"}

Again(c) == askedAgain' = (askedAgain \/ (system = "posix" /\ toldDead[c]))

\* Defect: the call that reaps the child reports it alive.
AskAliveReaping(c) ==
    /\ file[c] = "open"
    /\ LET x == named[child[c]] IN
       IF system = "posix" /\ Ended(x)
       THEN Become(x, "reaped") /\ GiveAway(child[c])
       ELSE UNCHANGED <<process, named>>
    /\ toldDead' = [toldDead EXCEPT ![c] = @ \/ ~ (Palive(c) \/ Ended(named[child[c]]))]
    /\ Again(c)
    /\ UNCHANGED <<system, child, file, inherited>>

AskAlive(c) ==
    /\ file[c] = "open"
    /\ LET x == named[child[c]] IN
       IF system = "posix" /\ Ended(x)
       THEN Become(x, "reaped") /\ GiveAway(child[c])
       ELSE UNCHANGED <<process, named>>
    /\ toldDead' = [toldDead EXCEPT ![c] = @ \/ ~ Palive(c)]
    /\ Again(c)
    /\ UNCHANGED <<system, child, file, inherited>>

\* goofer_pkill(): whatever the number names now.
Pkill(c) ==
    /\ file[c] = "open" /\ Running(named[child[c]])
    /\ IF named[child[c]] = Stranger THEN GiveAway(child[c]) /\ UNCHANGED process
       ELSE Become(named[child[c]], "ended") /\ UNCHANGED named
    /\ Again(c)
    /\ UNCHANGED <<system, child, file, inherited, toldDead>>

\* goofer_pclose(): Windows closes the handle, POSIX leaves the child unreaped.
Pclose(c) ==
    /\ file[c] = "open"
    /\ file' = [file EXCEPT ![c] = "closed"]
    /\ IF system = "windows" THEN GiveAway(child[c]) ELSE UNCHANGED named
    /\ UNCHANGED <<system, process, child, inherited, toldDead, askedAgain>>

-----------------------------------------------------------------------------
(* The system.                                                             *)

\* A child's end of the pipe tells it that the other end is closed.
SeesClosed(c) ==
    /\ file[c] = "closed"
    /\ \A d \in Calls : process[d] = "running" => c \notin inherited[d]

EndAtClose(c) ==
    /\ process[c] = "running" /\ SeesClosed(c)
    /\ Become(c, "ended")
    /\ UNCHANGED <<system, named, child, file, inherited, toldDead, askedAgain>>

EndEarly(c) ==
    /\ process[c] = "running"
    /\ \E p \in {"ended", "259"} : Become(c, p)
    /\ UNCHANGED <<system, named, child, file, inherited, toldDead, askedAgain>>

\* Other programs' processes, or the program's own other handles.
Strangers ==
    /\ \E n \in Numbers :
        \/ named[n] = Nobody /\ named' = [named EXCEPT ![n] = Stranger]
        \/ named[n] = Stranger /\ GiveAway(n)
    /\ UNCHANGED <<system, process, child, file, inherited, toldDead, askedAgain>>

HandleNext ==
    \/ \E c \in Calls :
          \/ PopenDone(c) \/ PopenNoStream(c) \/ AskAlive(c) \/ Pkill(c) \/ Pclose(c)
          \/ EndAtClose(c) \/ EndEarly(c)
    \/ Strangers

\* A child goes on; nobody has to call anything.
HandleFairness == \A c \in Calls : WF_handleVars(EndAtClose(c))

HandleSpec == HandleInit /\ [][HandleNext]_handleVars /\ HandleFairness
-----------------------------------------------------------------------------
(* Properties.                                                             *)

(* Until goofer_pclose(), and on POSIX until goofer_palive() has said that *)
(* the child is dead, the number names the child and nothing else, so that *)
(* goofer_pkill() reaches no other process and palive() tells the truth,   *)
(* but for a Windows child that ends with 259.  It holds as long as nobody *)
(* uses a pid again after palive() has said so: that may reap, or kill, a  *)
(* child that has the pid by then.                                         *)
NumbersNameTheChild ==
    /\ HandleTypeOK
    /\ ~ askedAgain => \A c \in Calls :
          file[c] = "open" /\ ~ (system = "posix" /\ toldDead[c]) =>
              /\ named[child[c]] = c
              /\ Palive(c) <=> process[c] = "running" \/ (system = "windows" /\ process[c] = "259")

(* A child whose pipe was closed sees it and ends.  On POSIX one that was  *)
(* started while the pipe was open keeps it open until it ends itself, and *)
(* so may one that keeps that child's pipe open: what it takes then is     *)
(* that the file of such a child is still open.                            *)
ClosedPipeEndsChild ==
    \A c \in Calls :
        file[c] = "closed" ~>
            \/ process[c] # "running"
            \/ system = "posix"
               /\ \E d \in Calls : process[d] = "running" /\ file[d] = "open" /\ inherited[d] # {}
=============================================================================
