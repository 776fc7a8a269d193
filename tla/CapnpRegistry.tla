--------------------------- MODULE CapnpRegistry ---------------------------
(***************************************************************************)
(* The Core and its Exts of capnp_demo, version 1 and version 2.           *)
(*                                                                         *)
(* Version 2 runs one event loop in each process, so a handler is atomic   *)
(* between two awaits, and only there: register_() looks the id up, awaits *)
(* a connection to the Ext, and then stores it; a console command looks an *)
(* entry up, awaits the Ext's answer and, for a shutdown, then erases by   *)
(* id.  In version 1 register_() awaits nothing and the Core has no        *)
(* console; an Ext serves in one thread and runs its own console, which    *)
(* waits for every answer, in another.  An Ext is given a port of its own  *)
(* here.  A call fails when a process on its way has ended, or when the    *)
(* Core drops the entry, and with it the connection, that it goes over.    *)
(***************************************************************************)
EXTENDS Integers

CONSTANTS
    Exts,               \* Ext processes: each is started at most once
    Ids,                \* ids given on their command lines
    NoExt,
    MaxCores            \* bound: Core processes started

ASSUME NoExtAssumption == NoExt \notin Exts
ASSUME CoresAssumption == MaxCores \in Nat \ {0}

VARIABLES
    version,            \* of capnp_demo: 1 or 2, never changes
    core, cores,        \* the Core that runs (0: none), those started
    g_registeredExts,   \* the Core's map: the process behind each id's client
    connecting,         \* the Exts register_() awaits a connection to
    command,            \* the command of the Core's console that awaits an answer
    extId, link,        \* each Ext's id, and the Core it connected to
    phase,              \* where each Ext's registration is
    g_running,          \* each Ext's flag
    call                \* the command of each Ext's console that awaits an answer

continuations == <<connecting, command>>
coreVars == <<core, cores, g_registeredExts, continuations>>
exts == <<extId, link, phase, g_running, call>>
vars == <<version, coreVars, exts>>

\* A command of the Core's console: how far its answer has come.
NoCommand == [kind |-> "none"]
Commands == {NoCommand} \cup
    [kind : {"ask", "shutdown"}, id : Ids, target : Exts, step : {"sent", "handled", "received"}]

\* A command of an Ext's console: ping of another Ext, in version 1 also query.
\* "core": the Core is asked for it; "target" and "handled": so is the Ext,
\* through the Core.
NoCall == [step |-> "none"]
Calls == {NoCall} \cup
    [step : {"core", "target", "handled"}, id : Ids, target : Exts \cup {NoExt}]

\* "requested": register() is not answered yet; "stored" and "rejected": the
\* answer is on its way back.  Version 1 only: "leaving" and "left" are the same
\* for unregister(), and an Ext that is "refused" or "parted" has no console.
Phases == {"off", "requested", "stored", "rejected", "up", "refused",
           "leaving", "left", "parted", "gone"}
Alive(i) == phase[i] \notin {"off", "gone"}
Linked(i) == link[i] = core

TypeOK ==
    /\ version \in {1, 2}
    /\ cores \in 1 .. MaxCores /\ core \in {0, cores}
    /\ g_registeredExts \in [Ids -> Exts \cup {NoExt}]
    /\ connecting \subseteq Exts /\ command \in Commands
    /\ extId \in [Exts -> Ids] /\ link \in [Exts -> 0 .. MaxCores]
    /\ phase \in [Exts -> Phases]
    /\ g_running \in [Exts -> BOOLEAN]
    /\ call \in [Exts -> Calls]

Init ==
    /\ version \in {1, 2}
    /\ core = 1 /\ cores = 1
    /\ g_registeredExts = [n \in Ids |-> NoExt]
    /\ connecting = {} /\ command = NoCommand
    /\ extId \in [Exts -> Ids] /\ link = [i \in Exts |-> 0]
    /\ phase = [i \in Exts |-> "off"]
    /\ g_running = [i \in Exts |-> TRUE]
    /\ call = [i \in Exts |-> NoCall]

MoveTo(i, p) == phase' = [phase EXCEPT ![i] = p]
Say(i, c) == call' = [call EXCEPT ![i] = c]

\* main() returns.
End(i) == MoveTo(i, "gone") /\ Say(i, NoCall)

-----------------------------------------------------------------------------
(* Registration.                                                           *)

\* An Ext listens, connects to the Core and sends register().
ExtStart(i) ==
    /\ phase[i] = "off" /\ core # 0
    /\ link' = [link EXCEPT ![i] = core]
    /\ MoveTo(i, "requested")
    /\ UNCHANGED <<version, coreVars, extId, g_running, call>>

Store(i) == g_registeredExts' = [g_registeredExts EXCEPT ![extId[i]] = i]

\* register_() of version 1: nothing comes between the test and the entry.
Register(i) ==
    /\ version = 1 /\ phase[i] = "requested" /\ Linked(i)
    /\ IF g_registeredExts[extId[i]] # NoExt
       THEN MoveTo(i, "rejected") /\ UNCHANGED g_registeredExts
       ELSE MoveTo(i, "stored") /\ Store(i)
    /\ UNCHANGED <<version, core, cores, continuations, extId, link, g_running, call>>

\* register_() of version 2 up to its first await.
RegisterChecked(i) ==
    /\ version = 2 /\ phase[i] = "requested" /\ Linked(i) /\ i \notin connecting
    /\ IF g_registeredExts[extId[i]] # NoExt
       THEN MoveTo(i, "rejected") /\ UNCHANGED connecting
       ELSE connecting' = connecting \cup {i} /\ UNCHANGED phase
    /\ UNCHANGED <<version, core, cores, g_registeredExts, command, extId, link, g_running, call>>

\* The answer of a call whose caller has ended goes nowhere, but the call is
\* not cancelled.
Answer(i, p) == phase' = [phase EXCEPT ![i] = IF @ = "requested" THEN p ELSE @]

\* The continuation after connect(): the entry is stored, whatever the map
\* holds by now.
RegisterConnected(i) ==
    /\ i \in connecting
    /\ connecting' = connecting \ {i}
    /\ Store(i)
    /\ Answer(i, "stored")
    /\ UNCHANGED <<version, core, cores, command, extId, link, g_running, call>>

\* Defect: a failed connection is not reported.
RegisterFailedSilently(i) ==
    /\ i \in connecting
    /\ connecting' = connecting \ {i}
    /\ UNCHANGED <<version, core, cores, g_registeredExts, command, exts>>

\* catch_(): the connection attempt failed.
RegisterFailed(i) ==
    /\ i \in connecting
    /\ connecting' = connecting \ {i}
    /\ Answer(i, "rejected")
    /\ UNCHANGED <<version, core, cores, g_registeredExts, command, extId, link, g_running, call>>

\* The Ext reads the answer.  A refused one clears its flag; in version 1 its
\* client thread ends, in version 2 a line on its standard input ends it.
ExtAnswered(i) ==
    /\ phase[i] \in {"stored", "rejected"} /\ Linked(i)
    /\ MoveTo(i, IF phase[i] = "stored" THEN "up" ELSE "refused")
    /\ g_running' = [g_running EXCEPT ![i] = g_running[i] /\ phase[i] = "stored"]
    /\ UNCHANGED <<version, coreVars, extId, link, call>>

\* quit, a shutdown's end, Ctrl+C: main() returns and tells nobody.  In version
\* 1 only a signal ends the process, as main() waits for NEVER_DONE.
ExtQuit(i) ==
    /\ Alive(i)
    /\ End(i)
    /\ UNCHANGED <<version, coreVars, extId, link, g_running>>

\* Version 2: onDisconnect() joins the promises main() waits for.  Version 1:
\* the wait for the registration throws, which ends the client thread.
ExtDisconnected(i) ==
    /\ Alive(i) /\ ~ Linked(i)
    /\ IF version = 2 THEN End(i) /\ UNCHANGED g_running
       ELSE /\ phase[i] \in {"requested", "stored", "rejected"}
            /\ MoveTo(i, "refused") /\ UNCHANGED call
            /\ g_running' = [g_running EXCEPT ![i] = FALSE]
    /\ UNCHANGED <<version, coreVars, extId, link>>

-----------------------------------------------------------------------------
(* An Ext's console, one command at a time.                                *)

\* ping, and query of version 1; that of version 2 only reads the Core's map.
\* Version 1 has a console once it is registered, and does not ask for itself.
ExtAsks(i, n) ==
    /\ call[i] = NoCall /\ g_running[i] /\ Alive(i)
    /\ version = 1 => phase[i] = "up" /\ n # extId[i]
    /\ Say(i, [step |-> "core", id |-> n, target |-> NoExt])
    /\ UNCHANGED <<version, coreVars, extId, link, phase, g_running>>

\* The loops of both versions test g_running before the next command.
ExtGoesOn(i) ==
    /\ Say(i, NoCall)
    /\ phase' = IF g_running[i] THEN phase ELSE [phase EXCEPT ![i] = "gone"]

\* connectToExt(); there is no such Ext if the service is null.
CoreConnects(i) ==
    /\ call[i].step = "core" /\ Linked(i)
    /\ LET target == g_registeredExts[call[i].id] IN
       IF target = NoExt THEN ExtGoesOn(i)
       ELSE Say(i, [call[i] EXCEPT !.step = "target", !.target = target]) /\ UNCHANGED phase
    /\ UNCHANGED <<version, coreVars, extId, link, g_running>>

\* Defect: an Ext that waits for an answer gives none.
TargetAnswersIdle(i) ==
    /\ call[i].step = "target" /\ Alive(call[i].target) /\ call[call[i].target] = NoCall
    /\ Say(i, [call[i] EXCEPT !.step = "handled"])
    /\ UNCHANGED <<version, coreVars, extId, link, phase, g_running>>

\* Version 1 has a thread for it, version 2 does not block.
TargetAnswers(i) ==
    /\ call[i].step = "target" /\ Alive(call[i].target)
    /\ Say(i, [call[i] EXCEPT !.step = "handled"])
    /\ UNCHANGED <<version, coreVars, extId, link, phase, g_running>>

Forwarded(i) == g_registeredExts[call[i].id] = call[i].target

ExtCallDone(i) ==
    /\ call[i].step = "handled" /\ Linked(i) /\ Forwarded(i)
    /\ ExtGoesOn(i)
    /\ UNCHANGED <<version, coreVars, extId, link, g_running>>

\* Version 1 prints the exception.  So does version 2 if the Core does not
\* answer, but ping's handler is that of the call to the Core: an exception of
\* the call to the other Ext leaves the console and main().
ExtCallFailed(i) ==
    /\ \/ call[i].step # "none" /\ ~ Linked(i)
       \/ call[i].step \in {"target", "handled"}
          /\ ~ (Alive(call[i].target) /\ Forwarded(i))
    /\ IF version = 2 /\ call[i].step # "core" THEN End(i) ELSE ExtGoesOn(i)
    /\ UNCHANGED <<version, coreVars, extId, link, g_running>>

\* quit of version 1: unregister() by id.
ExtLeaves(i) ==
    /\ version = 1 /\ phase[i] = "up" /\ call[i] = NoCall
    /\ MoveTo(i, "leaving")
    /\ UNCHANGED <<version, coreVars, extId, link, g_running, call>>

Unregister(i) ==
    /\ phase[i] = "leaving" /\ Linked(i)
    /\ g_registeredExts' = [g_registeredExts EXCEPT ![extId[i]] = NoExt]
    /\ MoveTo(i, "left")
    /\ UNCHANGED <<version, core, cores, continuations, extId, link, g_running, call>>

\* The client thread ends and the server's thread does not.  Without a Core
\* the call fails, and the console goes on.
ExtLeft(i) ==
    /\ \/ phase[i] = "left" /\ Linked(i) /\ MoveTo(i, "parted")
          /\ g_running' = [g_running EXCEPT ![i] = FALSE]
       \/ phase[i] \in {"leaving", "left"} /\ ~ Linked(i) /\ MoveTo(i, "up")
          /\ UNCHANGED g_running
    /\ UNCHANGED <<version, coreVars, extId, link, call>>

-----------------------------------------------------------------------------
(* The Core's console, one command at a time, and the Core's life.         *)

\* ping, status ("ask") and shutdown of a registered id.
CommandSent(kind, n) ==
    /\ version = 2 /\ core # 0 /\ command = NoCommand
    /\ g_registeredExts[n] # NoExt
    /\ command' = [kind |-> kind, id |-> n, target |-> g_registeredExts[n], step |-> "sent"]
    /\ UNCHANGED <<version, core, cores, g_registeredExts, connecting, exts>>

Pending == command # NoCommand /\ command.step # "received"
Connected == g_registeredExts[command.id] = command.target

\* Defect: the Ext accepts a shutdown and goes on.
CommandHandledIdly ==
    /\ Pending /\ command.step = "sent" /\ Alive(command.target)
    /\ command' = [command EXCEPT !.step = "handled"]
    /\ UNCHANGED <<version, core, cores, g_registeredExts, connecting, exts>>

\* The Ext's handler; ExtServiceImpl::shutdown() always accepts.
CommandHandled ==
    /\ Pending /\ command.step = "sent" /\ Alive(command.target)
    /\ command' = [command EXCEPT !.step = "handled"]
    /\ g_running' = [g_running EXCEPT ![command.target] = @ /\ command.kind # "shutdown"]
    /\ UNCHANGED <<version, core, cores, g_registeredExts, connecting, extId, link, phase, call>>

\* The answer arrives, and its continuation is queued behind other events.
CommandReceived ==
    /\ Pending /\ command.step = "handled" /\ Connected
    /\ command' = [command EXCEPT !.step = "received"]
    /\ UNCHANGED <<version, core, cores, g_registeredExts, connecting, exts>>

\* Defect: the answer to any command erases the entry.
CommandDoneErases ==
    /\ command # NoCommand /\ command.step = "received"
    /\ g_registeredExts' = [g_registeredExts EXCEPT ![command.id] = NoExt]
    /\ command' = NoCommand
    /\ UNCHANGED <<version, core, cores, connecting, exts>>

\* The continuation with the answer: a shutdown erases the id's entry.
CommandDone ==
    /\ command # NoCommand /\ command.step = "received"
    /\ g_registeredExts' = IF command.kind = "shutdown"
                           THEN [g_registeredExts EXCEPT ![command.id] = NoExt]
                           ELSE g_registeredExts
    /\ command' = NoCommand
    /\ UNCHANGED <<version, core, cores, connecting, exts>>

\* The continuation with an exception: the entry stays.
CommandFailed ==
    /\ Pending /\ ~ (Alive(command.target) /\ Connected)
    /\ command' = NoCommand
    /\ UNCHANGED <<version, core, cores, g_registeredExts, connecting, exts>>

CoreQuit ==
    /\ core # 0
    /\ core' = 0
    /\ g_registeredExts' = [n \in Ids |-> NoExt]
    /\ connecting' = {} /\ command' = NoCommand
    /\ UNCHANGED <<version, cores, exts>>

CoreStart ==
    /\ core = 0 /\ cores < MaxCores
    /\ cores' = cores + 1 /\ core' = cores'
    /\ UNCHANGED <<version, g_registeredExts, continuations, exts>>

-----------------------------------------------------------------------------
CoreServes(i) ==
    \/ Register(i) \/ RegisterChecked(i) \/ RegisterConnected(i) \/ RegisterFailed(i)
    \/ Unregister(i)
ExtGetsOn(i) == ExtAnswered(i) \/ ExtDisconnected(i) \/ ExtLeft(i)
CallGetsOn(i) == CoreConnects(i) \/ TargetAnswers(i) \/ ExtCallDone(i) \/ ExtCallFailed(i)
CommandGetsOn == CommandHandled \/ CommandReceived \/ CommandDone \/ CommandFailed

Next ==
    \/ \E i \in Exts :
          \/ ExtStart(i) \/ CoreServes(i) \/ ExtGetsOn(i) \/ CallGetsOn(i)
          \/ ExtLeaves(i) \/ ExtQuit(i)
          \/ \E n \in Ids : ExtAsks(i, n)
    \/ \E n \in Ids, kind \in {"ask", "shutdown"} : CommandSent(kind, n)
    \/ CommandGetsOn
    \/ CoreQuit \/ CoreStart

\* The event loops run; nobody has to start, quit or type anything.  Standard
\* input stays open: at its end the consoles of version 2 read again at once,
\* for good, and whether the loop gets to anything else is up to kj.
Fairness ==
    /\ \A i \in Exts : WF_vars(CoreServes(i)) /\ WF_vars(ExtGetsOn(i)) /\ WF_vars(CallGetsOn(i))
    /\ WF_vars(CommandGetsOn)

Spec == Init /\ [][Next]_vars /\ Fairness
-----------------------------------------------------------------------------
(* Properties.                                                             *)

Namesakes(i) == {j \in Exts \ {i} : extId[j] = extId[i] /\ phase[j] # "off"}

(* An Ext that was told its registration succeeded and has not been asked  *)
(* to stop can be found in the map, and no late answer to a command or a   *)
(* registration takes its entry away: in version 1 always, in version 2 if *)
(* no other Ext uses its id.  One that was refused, or has unregistered,   *)
(* is never handed to others.  (And the types are right.)                  *)
RegistrationsAreTrue ==
    /\ TypeOK
    /\ \A i \in Exts :
        /\ phase[i] \in {"stored", "up", "leaving"} /\ g_running[i] /\ Linked(i)
           /\ (version = 1 \/ Namesakes(i) = {})
              => g_registeredExts[extId[i]] = i
        /\ phase[i] \in {"rejected", "refused", "left", "parted"} /\ Linked(i)
              => \A n \in Ids : g_registeredExts[n] # i

(* An Ext loses its entry only by its own unregister() or when it has      *)
(* accepted a shutdown, while the Core lives.  The exceptions are those of *)
(* version 2: another Ext that passed the test in time takes the id over,  *)
(* or has just done so when the answer to the shutdown is acted on.        *)
EntriesGivenUp ==
    [][\A n \in Ids : LET i == g_registeredExts[n] IN
          i # NoExt /\ g_registeredExts'[n] # i /\ core' # 0 =>
              \/ phase[i] = "leaving"
              \/ version = 2 /\ \/ ~ g_running[i]
                                \/ g_registeredExts'[n] \in connecting
                                \/ CommandDone /\ command.target # i]_vars

(* The prompt comes back after every command, on the Core and on an Ext,   *)
(* whichever process ends meanwhile, and even if Exts ask each other.      *)
ConsoleReturns ==
    /\ command # NoCommand ~> command = NoCommand
    /\ \A i \in Exts : call[i] # NoCall ~> call[i] = NoCall

(* Every Ext that asked to be registered or unregistered learns the        *)
(* outcome or ends.                                                        *)
RegistrationAnswered ==
    \A i \in Exts : phase[i] \in {"requested", "leaving"}
                        ~> phase[i] \notin {"requested", "stored", "rejected", "leaving", "left"}

(* capnp_demo/v2/src/core.cpp:60 "Check if already registered": while an   *)
(* id is registered no other Ext gets it.                                  *)
NoRegistrationInForceIsReplaced ==
    [][\A n \in Ids : g_registeredExts[n] # NoExt
                          => g_registeredExts'[n] \in {g_registeredExts[n], NoExt}]_vars

(* capnp_demo/v2/src/ext.cpp:250 "returns promise of: true to continue,    *)
(* false to quit", and of these only quit returns false: a ping of an id   *)
(* that is not its own, which fails because the other Ext ends or is given *)
(* up while the Core and the link to it live, does not end the asking Ext. *)
OnlyQuitEnds ==
    [][\A i \in Exts :
          /\ ExtCallFailed(i) /\ g_running[i]
          /\ core # 0 /\ Linked(i) /\ call[i].id # extId[i]
          => phase'[i] # "gone"]_vars
=============================================================================
