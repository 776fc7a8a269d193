------------------------ MODULE CapnpRegistryProofs ------------------------
(***************************************************************************)
(* Safety of the Core's map of capnp_demo, for any number of Exts, ids and *)
(* Core processes and for both versions: RegistryInv is inductive, and     *)
(* what the map promises follows from it.                                  *)
(***************************************************************************)
EXTENDS CapnpRegistry, TLAPS

(* An Ext has a connection once it was started, to a Core that did run,    *)
(* and only then commands.                                                 *)
LinksInv ==
    \A i \in Exts : IF phase[i] = "off" THEN link[i] = 0 /\ call[i] = NoCall
                                        ELSE link[i] \in 1 .. cores

(* An entry of the map is of an Ext that has that id, that is connected to *)
(* the Core that runs, and that was registered: it may have ended since.   *)
EntriesInv ==
    \A n \in Ids : LET i == g_registeredExts[n] IN
        i # NoExt => /\ core # 0 /\ Linked(i) /\ extId[i] = n
                     /\ phase[i] \in {"stored", "up", "leaving", "gone"}

(* What waits in a continuation of version 2: a registration is of an Ext  *)
(* that still waits or has ended, and a shutdown that was handled has      *)
(* cleared the flag of its target, which had the id it was looked up by.   *)
ContinuationsInv ==
    /\ \A i \in connecting :
          version = 2 /\ core # 0 /\ Linked(i) /\ phase[i] \in {"requested", "gone"}
    /\ command # NoCommand =>
          /\ version = 2
          /\ extId[command.target] = command.id /\ phase[command.target] # "off"
          /\ command.kind = "shutdown" /\ command.step # "sent" => ~ g_running[command.target]

(* In version 1 an Ext clears its flag only when its registration is over, *)
(* and only there it unregisters.                                          *)
VersionInv ==
    \A i \in Exts :
        /\ version = 1 /\ ~ g_running[i] => phase[i] \in {"refused", "parted", "gone"}
        /\ phase[i] \in {"leaving", "left", "parted"} => version = 1

RegistryInv ==
    TypeOK /\ LinksInv /\ EntriesInv /\ ContinuationsInv /\ VersionInv /\ RegistrationsAreTrue
-----------------------------------------------------------------------------
(* A command that waits is a record of its fields, and stays one when its  *)
(* step changes; so is a call.                                             *)
LEMMA CommandFields ==
    ASSUME command \in Commands, command # NoCommand
    PROVE  /\ command.kind \in {"ask", "shutdown"} /\ command.id \in Ids
           /\ command.target \in Exts /\ command.step \in {"sent", "handled", "received"}
           /\ \A s \in {"sent", "handled", "received"} :
                 [command EXCEPT !.step = s] \in Commands \ {NoCommand}
BY DEF Commands, NoCommand

(* The fields of a call that is under way.                                 *)
LEMMA CallFields ==
    ASSUME NEW c \in Calls, c.step # "none"
    PROVE  /\ c.step \in {"core", "target", "handled"} /\ c.id \in Ids
           /\ c.target \in Exts \cup {NoExt}
           /\ [c EXCEPT !.step = "handled"] \in Calls
           /\ \A t \in Exts : [c EXCEPT !.step = "target", !.target = t] \in Calls
<1>1. c \in [step : {"core", "target", "handled"}, id : Ids, target : Exts \cup {NoExt}]
  BY DEF Calls, NoCall
<1>2. [c EXCEPT !.step = "handled"] \in Calls
  BY <1>1 DEF Calls
<1>3. ASSUME NEW t \in Exts PROVE [c EXCEPT !.step = "target", !.target = t] \in Calls
  <2> DEFINE d == [c EXCEPT !.step = "target"]
  <2>1. d \in [step : {"core", "target", "handled"}, id : Ids, target : Exts \cup {NoExt}]
    BY <1>1
  <2>2. [d EXCEPT !.target = t]
            \in [step : {"core", "target", "handled"}, id : Ids, target : Exts \cup {NoExt}]
    BY <2>1
  <2> QED BY <2>2 DEF Calls
<1> QED BY <1>1, <1>2, <1>3

(* The variables keep their types.                                         *)
LEMMA RegistryTypeStep == TypeOK /\ [Next]_vars => TypeOK'
<1> SUFFICES ASSUME TypeOK, [Next]_vars PROVE TypeOK'
  OBVIOUS
<1> USE CoresAssumption DEF TypeOK, continuations, coreVars, exts, MoveTo, Say, Phases
<1>0. NoCommand \in Commands /\ NoCall \in Calls
  BY DEF Commands, Calls
<1>1. ASSUME NEW i \in Exts, ExtStart(i) \/ CoreServes(i) PROVE TypeOK'
  <2>1. CASE ExtStart(i) BY <2>1 DEF ExtStart
  <2>2. CASE Register(i) BY <2>2 DEF Register, Store
  <2>3. CASE RegisterChecked(i) BY <2>3 DEF RegisterChecked
  <2>4. CASE RegisterConnected(i) BY <2>4 DEF RegisterConnected, Store, Answer
  <2>5. CASE RegisterFailed(i) BY <2>5 DEF RegisterFailed, Answer
  <2>6. CASE Unregister(i) BY <2>6 DEF Unregister
  <2> QED BY <1>1, <2>1, <2>2, <2>3, <2>4, <2>5, <2>6 DEF CoreServes
<1>2. ASSUME NEW i \in Exts, ExtGetsOn(i) \/ ExtLeaves(i) \/ ExtQuit(i) PROVE TypeOK'
  <2>1. CASE ExtAnswered(i) BY <2>1 DEF ExtAnswered
  <2>2. CASE ExtDisconnected(i) BY <1>0, <2>2 DEF ExtDisconnected, End
  <2>3. CASE ExtLeft(i) BY <2>3 DEF ExtLeft
  <2>4. CASE ExtLeaves(i) BY <2>4 DEF ExtLeaves
  <2>5. CASE ExtQuit(i) BY <1>0, <2>5 DEF ExtQuit, End
  <2> QED BY <1>2, <2>1, <2>2, <2>3, <2>4, <2>5 DEF ExtGetsOn
<1>3. ASSUME NEW i \in Exts, CallGetsOn(i) \/ \E n \in Ids : ExtAsks(i, n) PROVE TypeOK'
  <2>1. ASSUME NEW n \in Ids, ExtAsks(i, n) PROVE TypeOK'
    <3>1. [step |-> "core", id |-> n, target |-> NoExt] \in Calls BY DEF Calls
    <3> QED BY <2>1, <3>1 DEF ExtAsks
  <2>2. CASE CoreConnects(i)
    <3>1. call'  \in [Exts -> Calls] /\ phase' \in [Exts -> Phases]
      <4>1. call[i].step # "none" /\ call[i] \in Calls BY <2>2 DEF CoreConnects
      <4>2. call[i].id \in Ids BY <4>1, CallFields
      <4>3. CASE g_registeredExts[call[i].id] = NoExt
        BY <1>0, <2>2, <4>3 DEF CoreConnects, ExtGoesOn
      <4>4. CASE g_registeredExts[call[i].id] # NoExt
        <5> DEFINE target == g_registeredExts[call[i].id]
        <5>1. target \in Exts BY <4>2, <4>4
        <5>2. [call[i] EXCEPT !.step = "target", !.target = target] \in Calls
          BY <4>1, <5>1, CallFields
        <5>3. Say(i, [call[i] EXCEPT !.step = "target", !.target = target]) /\ UNCHANGED phase
          BY <2>2, <4>4 DEF CoreConnects
        <5> QED BY <5>2, <5>3
      <4> QED BY <4>3, <4>4
    <3> QED BY <2>2, <3>1 DEF CoreConnects
  <2>3. CASE TargetAnswers(i)
    <3>1. call[i].step # "none" /\ call[i] \in Calls BY <2>3 DEF TargetAnswers
    <3> QED BY <2>3, <3>1, CallFields DEF TargetAnswers
  <2>4. CASE ExtCallDone(i) BY <1>0, <2>4 DEF ExtCallDone, ExtGoesOn
  <2>5. CASE ExtCallFailed(i) BY <1>0, <2>5 DEF ExtCallFailed, ExtGoesOn, End
  <2> QED BY <1>3, <2>1, <2>2, <2>3, <2>4, <2>5 DEF CallGetsOn
<1>4. ASSUME NEW n \in Ids, NEW kind \in {"ask", "shutdown"}, CommandSent(kind, n) PROVE TypeOK'
  <2>1. g_registeredExts[n] \in Exts BY <1>4 DEF CommandSent
  <2>2. command' \in Commands BY <1>4, <2>1 DEF CommandSent, Commands
  <2> QED BY <1>4, <2>2 DEF CommandSent
<1>5. CASE CommandGetsOn
  <2>1. CASE CommandHandled
    BY <2>1, CommandFields DEF CommandHandled, Pending
  <2>2. CASE CommandReceived
    BY <2>2, CommandFields DEF CommandReceived, Pending
  <2>3. CASE CommandDone \/ CommandFailed BY <1>0, <2>3 DEF CommandDone, CommandFailed
  <2> QED BY <1>5, <2>1, <2>2, <2>3 DEF CommandGetsOn
<1>6. CASE CoreQuit \/ CoreStart BY <1>0, <1>6 DEF CoreQuit, CoreStart
<1>7. CASE UNCHANGED vars BY <1>7 DEF vars
<1> QED BY <1>1, <1>2, <1>3, <1>4, <1>5, <1>6, <1>7 DEF Next

-----------------------------------------------------------------------------
(* A connection is made once, when the Ext starts, and Cores are counted up. *)
LEMMA LinksStep == RegistryInv /\ TypeOK' /\ [Next]_vars => LinksInv'
<1> SUFFICES ASSUME RegistryInv, TypeOK', [Next]_vars PROVE LinksInv'
  OBVIOUS
<1> USE CoresAssumption DEF RegistryInv, TypeOK, LinksInv, continuations, coreVars, exts, MoveTo, Say
<1>1. ASSUME NEW i \in Exts, ExtStart(i) PROVE LinksInv'
  BY <1>1 DEF ExtStart
<1>2. ASSUME NEW i \in Exts, CoreServes(i) PROVE LinksInv'
  BY <1>2 DEF CoreServes, Register, RegisterChecked, RegisterConnected, RegisterFailed, Unregister, Answer
<1>3. ASSUME NEW i \in Exts, ExtGetsOn(i) \/ ExtLeaves(i) \/ ExtQuit(i) PROVE LinksInv'
  BY <1>3 DEF ExtGetsOn, ExtAnswered, ExtDisconnected, ExtLeft, ExtLeaves, ExtQuit, End, Alive
<1>4. ASSUME NEW i \in Exts, CallGetsOn(i) \/ \E n \in Ids : ExtAsks(i, n) PROVE LinksInv'
  <2>1. phase[i] # "off"
    BY <1>4 DEF CallGetsOn, ExtAsks, CoreConnects, TargetAnswers, ExtCallDone, ExtCallFailed, Alive, NoCall
  <2> QED
    BY <1>4, <2>1 DEF CallGetsOn, ExtAsks, CoreConnects, TargetAnswers, ExtCallDone, ExtCallFailed,
       ExtGoesOn, End
<1>5. CASE CommandGetsOn \/ \E n \in Ids, kind \in {"ask", "shutdown"} : CommandSent(kind, n)
  BY <1>5 DEF CommandGetsOn, CommandSent, CommandHandled, CommandReceived, CommandDone, CommandFailed
<1>6. CASE CoreQuit \/ CoreStart BY <1>6 DEF CoreQuit, CoreStart
<1>7. CASE UNCHANGED vars BY <1>7 DEF vars
<1> QED BY <1>1, <1>2, <1>3, <1>4, <1>5, <1>6, <1>7 DEF Next

(* Only an Ext that has just been registered gets an entry.                *)
LEMMA EntriesStep == RegistryInv /\ TypeOK' /\ LinksInv' /\ [Next]_vars => EntriesInv'
<1> SUFFICES ASSUME RegistryInv, TypeOK', LinksInv', [Next]_vars PROVE EntriesInv'
  OBVIOUS
<1> USE NoExtAssumption DEF RegistryInv, TypeOK, EntriesInv, continuations, coreVars, exts, Linked, MoveTo, Say
<1>1. ASSUME NEW i \in Exts, ExtStart(i) PROVE EntriesInv'
  BY <1>1 DEF ExtStart
<1>2. ASSUME NEW i \in Exts, CoreServes(i) PROVE EntriesInv'
  <2>1. CASE Register(i) BY <2>1 DEF Register, Store, LinksInv
  <2>2. CASE RegisterChecked(i) BY <2>2 DEF RegisterChecked
  <2>3. CASE RegisterConnected(i)
    BY <2>3 DEF RegisterConnected, Store, Answer, ContinuationsInv
  <2>4. CASE RegisterFailed(i) BY <2>4 DEF RegisterFailed, Answer
  <2>5. CASE Unregister(i) BY <2>5 DEF Unregister
  <2> QED BY <1>2, <2>1, <2>2, <2>3, <2>4, <2>5 DEF CoreServes
<1>3. ASSUME NEW i \in Exts, ExtGetsOn(i) \/ ExtLeaves(i) \/ ExtQuit(i) PROVE EntriesInv'
  BY <1>3 DEF ExtGetsOn, ExtAnswered, ExtDisconnected, ExtLeft, ExtLeaves, ExtQuit, End
<1>4. ASSUME NEW i \in Exts, CallGetsOn(i) \/ \E n \in Ids : ExtAsks(i, n) PROVE EntriesInv'
  BY <1>4 DEF CallGetsOn, ExtAsks, CoreConnects, TargetAnswers, ExtCallDone, ExtCallFailed, ExtGoesOn, End
<1>5. CASE CommandGetsOn \/ \E n \in Ids, kind \in {"ask", "shutdown"} : CommandSent(kind, n)
  BY <1>5 DEF CommandGetsOn, CommandSent, CommandHandled, CommandReceived, CommandDone, CommandFailed
<1>6. CASE CoreQuit \/ CoreStart BY <1>6 DEF CoreQuit, CoreStart
<1>7. CASE UNCHANGED vars BY <1>7 DEF vars
<1> QED BY <1>1, <1>2, <1>3, <1>4, <1>5, <1>6, <1>7 DEF Next

(* A continuation keeps what it was created with; the flag of the target   *)
(* of a shutdown is never set again.                                       *)
LEMMA ContinuationsStep == RegistryInv /\ TypeOK' /\ [Next]_vars => ContinuationsInv'
<1> SUFFICES ASSUME RegistryInv, TypeOK', [Next]_vars PROVE ContinuationsInv'
  OBVIOUS
<1> USE DEF RegistryInv, TypeOK, ContinuationsInv, continuations, coreVars, exts, Linked, MoveTo, Say
<1>0. command # NoCommand => command.target \in Exts
  BY CommandFields
<1>1. ASSUME NEW i \in Exts, ExtStart(i) PROVE ContinuationsInv'
  BY <1>0, <1>1 DEF ExtStart
<1>2. ASSUME NEW i \in Exts, CoreServes(i) PROVE ContinuationsInv'
  <2>1. CASE Register(i) BY <1>0, <2>1 DEF Register
  <2>2. CASE RegisterChecked(i) BY <1>0, <2>2 DEF RegisterChecked, LinksInv
  <2>3. CASE RegisterConnected(i) BY <1>0, <2>3 DEF RegisterConnected, Answer
  <2>4. CASE RegisterFailed(i) BY <1>0, <2>4 DEF RegisterFailed, Answer
  <2>5. CASE Unregister(i) BY <1>0, <2>5 DEF Unregister
  <2> QED BY <1>2, <2>1, <2>2, <2>3, <2>4, <2>5 DEF CoreServes
<1>3. ASSUME NEW i \in Exts, ExtGetsOn(i) \/ ExtLeaves(i) \/ ExtQuit(i) PROVE ContinuationsInv'
  BY <1>0, <1>3 DEF ExtGetsOn, ExtAnswered, ExtDisconnected, ExtLeft, ExtLeaves, ExtQuit, End, Alive, VersionInv
<1>4. ASSUME NEW i \in Exts, CallGetsOn(i) \/ \E n \in Ids : ExtAsks(i, n) PROVE ContinuationsInv'
  BY <1>0, <1>4 DEF CallGetsOn, ExtAsks, CoreConnects, TargetAnswers, ExtCallDone, ExtCallFailed, ExtGoesOn, End
<1>5. CASE CommandGetsOn \/ \E n \in Ids, kind \in {"ask", "shutdown"} : CommandSent(kind, n)
  <2>1. ASSUME NEW n \in Ids, NEW kind \in {"ask", "shutdown"}, CommandSent(kind, n)
        PROVE  ContinuationsInv'
    BY <2>1 DEF CommandSent, EntriesInv
  <2>2. CASE CommandHandled
    <3>1. /\ command # NoCommand /\ command'.target = command.target
          /\ command'.id = command.id /\ command'.kind = command.kind
      BY <2>2 DEF CommandHandled, Pending, Commands
    <3> QED BY <1>0, <2>2, <3>1 DEF CommandHandled
  <2>3. CASE CommandReceived
    <3>1. /\ command # NoCommand /\ command'.target = command.target /\ command.step # "sent"
          /\ command'.id = command.id /\ command'.kind = command.kind
      BY <2>3 DEF CommandReceived, Pending, Commands
    <3> QED BY <1>0, <2>3, <3>1 DEF CommandReceived
  <2>4. CASE CommandDone \/ CommandFailed BY <2>4 DEF CommandDone, CommandFailed
  <2> QED BY <1>5, <2>1, <2>2, <2>3, <2>4 DEF CommandGetsOn
<1>6. CASE CoreQuit \/ CoreStart BY <1>0, <1>6 DEF CoreQuit, CoreStart
<1>7. CASE UNCHANGED vars BY <1>7 DEF vars
<1> QED BY <1>1, <1>2, <1>3, <1>4, <1>5, <1>6, <1>7 DEF Next

(* What belongs to one version stays in it.                                *)
LEMMA VersionStep == RegistryInv /\ TypeOK' /\ [Next]_vars => VersionInv'
<1> SUFFICES ASSUME RegistryInv, TypeOK', [Next]_vars PROVE VersionInv'
  OBVIOUS
<1> USE DEF RegistryInv, TypeOK, VersionInv, continuations, coreVars, exts, MoveTo, Say
<1>1. ASSUME NEW i \in Exts, ExtStart(i) PROVE VersionInv'
  BY <1>1 DEF ExtStart
<1>2. ASSUME NEW i \in Exts, CoreServes(i) PROVE VersionInv'
  BY <1>2 DEF CoreServes, Register, RegisterChecked, RegisterConnected, RegisterFailed, Unregister, Answer
<1>3. ASSUME NEW i \in Exts, ExtGetsOn(i) \/ ExtLeaves(i) \/ ExtQuit(i) PROVE VersionInv'
  BY <1>3 DEF ExtGetsOn, ExtAnswered, ExtDisconnected, ExtLeft, ExtLeaves, ExtQuit, End
<1>4. ASSUME NEW i \in Exts, CallGetsOn(i) \/ \E n \in Ids : ExtAsks(i, n) PROVE VersionInv'
  BY <1>4 DEF CallGetsOn, ExtAsks, CoreConnects, TargetAnswers, ExtCallDone, ExtCallFailed, ExtGoesOn, End
<1>5. CASE CommandGetsOn \/ \E n \in Ids, kind \in {"ask", "shutdown"} : CommandSent(kind, n)
  BY <1>5 DEF CommandGetsOn, CommandSent, CommandHandled, CommandReceived, CommandDone, CommandFailed,
     Pending, ContinuationsInv
<1>6. CASE CoreQuit \/ CoreStart BY <1>6 DEF CoreQuit, CoreStart
<1>7. CASE UNCHANGED vars BY <1>7 DEF vars
<1> QED BY <1>1, <1>2, <1>3, <1>4, <1>5, <1>6, <1>7 DEF Next

(* No step takes the entry of an Ext that was told it has one, and none    *)
(* gives one to an Ext that was refused.                                   *)
LEMMA RegistrationsStep ==
    RegistryInv /\ TypeOK' /\ LinksInv' /\ EntriesInv' /\ [Next]_vars => RegistrationsAreTrue'
<1> SUFFICES ASSUME RegistryInv, TypeOK', LinksInv', EntriesInv', [Next]_vars
             PROVE  RegistrationsAreTrue'
  OBVIOUS
<1> USE NoExtAssumption
    DEF RegistryInv, TypeOK, RegistrationsAreTrue, Namesakes, continuations, coreVars, exts,
        Linked, MoveTo, Say
<1>1. ASSUME NEW i \in Exts, ExtStart(i) PROVE RegistrationsAreTrue'
  BY <1>1 DEF ExtStart
<1>2. ASSUME NEW i \in Exts, CoreServes(i) PROVE RegistrationsAreTrue'
  <2>1. CASE Register(i) BY <2>1 DEF Register, Store, EntriesInv
  <2>2. CASE RegisterChecked(i) BY <2>2 DEF RegisterChecked, EntriesInv
  <2>3. CASE RegisterConnected(i)
    BY <2>3 DEF RegisterConnected, Store, Answer, ContinuationsInv
  <2>4. CASE RegisterFailed(i)
    BY <2>4 DEF RegisterFailed, Answer, EntriesInv
  <2>5. CASE Unregister(i) BY <2>5 DEF Unregister, VersionInv, EntriesInv
  <2> QED BY <1>2, <2>1, <2>2, <2>3, <2>4, <2>5 DEF CoreServes
<1>3. ASSUME NEW i \in Exts, ExtGetsOn(i) \/ ExtLeaves(i) \/ ExtQuit(i)
      PROVE  RegistrationsAreTrue'
  BY <1>3 DEF ExtGetsOn, ExtAnswered, ExtDisconnected, ExtLeft, ExtLeaves, ExtQuit, End, EntriesInv
<1>4. ASSUME NEW i \in Exts, CallGetsOn(i) \/ \E n \in Ids : ExtAsks(i, n)
      PROVE  RegistrationsAreTrue'
  BY <1>4 DEF CallGetsOn, ExtAsks, CoreConnects, TargetAnswers, ExtCallDone, ExtCallFailed, ExtGoesOn, End
<1>5. CASE CommandGetsOn \/ \E n \in Ids, kind \in {"ask", "shutdown"} : CommandSent(kind, n)
  <2>1. CASE \E n \in Ids, kind \in {"ask", "shutdown"} : CommandSent(kind, n)
    BY <2>1 DEF CommandSent
  <2>2. CASE CommandHandled BY <2>2 DEF CommandHandled
  <2>3. CASE CommandReceived BY <2>3 DEF CommandReceived
  <2>4. CASE CommandDone
    BY <2>4, CommandFields DEF CommandDone, ContinuationsInv
  <2>5. CASE CommandFailed BY <2>5 DEF CommandFailed
  <2> QED BY <1>5, <2>1, <2>2, <2>3, <2>4, <2>5 DEF CommandGetsOn
<1>6. CASE CoreQuit BY <1>6 DEF CoreQuit, LinksInv
<1>7. CASE CoreStart BY <1>7 DEF CoreStart, LinksInv
<1>8. CASE UNCHANGED vars BY <1>8 DEF vars
<1> QED BY <1>1, <1>2, <1>3, <1>4, <1>5, <1>6, <1>7, <1>8 DEF Next

(* The inductive invariant of the registry.                                *)
LEMMA RegistryInvariant == Spec => []RegistryInv
<1>1. Init => RegistryInv
  <2> SUFFICES ASSUME Init PROVE RegistryInv
    OBVIOUS
  <2>1. TypeOK
    <3>1. NoCommand \in Commands /\ NoCall \in Calls BY DEF Commands, Calls
    <3>2. 1 \in 1 .. MaxCores /\ 0 \in 0 .. MaxCores BY CoresAssumption
    <3> QED BY <3>1, <3>2 DEF Init, TypeOK, Phases
  <2>2. LinksInv /\ EntriesInv /\ ContinuationsInv /\ VersionInv
    BY DEF Init, LinksInv, EntriesInv, ContinuationsInv, VersionInv
  <2>3. RegistrationsAreTrue BY <2>1 DEF Init, RegistrationsAreTrue
  <2> QED BY <2>1, <2>2, <2>3 DEF RegistryInv
<1>2. RegistryInv /\ [Next]_vars => RegistryInv'
  <2> SUFFICES ASSUME RegistryInv, [Next]_vars PROVE RegistryInv'
    OBVIOUS
  <2>1. TypeOK' BY RegistryTypeStep DEF RegistryInv
  <2>2. LinksInv' BY <2>1, LinksStep
  <2>3. EntriesInv' BY <2>1, <2>2, EntriesStep
  <2>4. ContinuationsInv' /\ VersionInv' BY <2>1, ContinuationsStep, VersionStep
  <2>5. RegistrationsAreTrue' BY <2>1, <2>2, <2>3, RegistrationsStep
  <2> QED BY <2>1, <2>2, <2>3, <2>4, <2>5 DEF RegistryInv
<1> QED BY <1>1, <1>2, PTL DEF Spec

(* An Ext that was told that it is registered is found in the map, and one *)
(* that was refused or has unregistered is not.                            *)
THEOREM RegistrationsAreTrueHolds == Spec => []RegistrationsAreTrue
<1>1. RegistryInv => RegistrationsAreTrue
  BY DEF RegistryInv
<1> QED BY <1>1, RegistryInvariant, PTL

(* An Ext loses its entry only by its own wish, or in the two ways that    *)
(* version 2 leaves open between the test of an entry and its use.         *)
THEOREM EntriesGivenUpHolds == Spec => EntriesGivenUp
<1>1. RegistryInv /\ [Next]_vars =>
        \A n \in Ids : LET i == g_registeredExts[n] IN
            i # NoExt /\ g_registeredExts'[n] # i /\ core' # 0 =>
              \/ phase[i] = "leaving"
              \/ version = 2 /\ \/ ~ g_running[i]
                                \/ g_registeredExts'[n] \in connecting
                                \/ CommandDone /\ command.target # i
  <2> DEFINE Allowed(i, j) ==
        \/ phase[i] = "leaving"
        \/ version = 2 /\ (~ g_running[i] \/ j \in connecting \/ (CommandDone /\ command.target # i))
  <2> SUFFICES ASSUME RegistryInv, [Next]_vars, NEW n \in Ids, g_registeredExts[n] # NoExt,
                      g_registeredExts'[n] # g_registeredExts[n], core' # 0
               PROVE  Allowed(g_registeredExts[n], g_registeredExts'[n])
    OBVIOUS
  <2> USE NoExtAssumption DEF RegistryInv, TypeOK, continuations, coreVars, exts
  <2>1. ASSUME NEW i \in Exts, CoreServes(i)
        PROVE  Allowed(g_registeredExts[n], g_registeredExts'[n])
    <3>1. CASE Register(i) BY <3>1 DEF Register, Store
    <3>2. CASE RegisterChecked(i) \/ RegisterFailed(i) BY <3>2 DEF RegisterChecked, RegisterFailed
    <3>3. CASE RegisterConnected(i)
      <4>1. version = 2 /\ i \in connecting
        BY <3>3 DEF RegisterConnected, ContinuationsInv
      <4>2. g_registeredExts'[n] = i
        BY <3>3 DEF RegisterConnected, Store
      <4> QED BY <4>1, <4>2
    <3>4. CASE Unregister(i)
      <4>1. version = 1 /\ g_running[i] BY <3>4 DEF Unregister, VersionInv
      <4>2. g_registeredExts[extId[i]] = i BY <3>4, <4>1 DEF Unregister, RegistrationsAreTrue
      <4> QED BY <3>4, <4>2 DEF Unregister
    <3> QED BY <2>1, <3>1, <3>2, <3>3, <3>4 DEF CoreServes
  <2>2. CASE CommandDone
    <3>1. command # NoCommand /\ command.step = "received" BY <2>2 DEF CommandDone
    <3>2. CASE command.kind = "shutdown"
      <4>1. n = command.id /\ version = 2
        BY <2>2, <3>1, <3>2 DEF CommandDone, ContinuationsInv
      <4>2. ~ g_running[command.target]
        BY <3>1, <3>2 DEF ContinuationsInv
      <4> QED BY <2>2, <4>1, <4>2
    <3>3. CASE command.kind # "shutdown"
      BY <2>2, <3>3 DEF CommandDone
    <3> QED BY <3>2, <3>3
  <2>3. CASE CoreQuit BY <2>3 DEF CoreQuit
  <2>4. CASE UNCHANGED g_registeredExts BY <2>4
  <2> QED BY <2>1, <2>2, <2>3, <2>4 DEF Next, vars, ExtStart, ExtGetsOn, ExtAnswered, ExtDisconnected,
             ExtLeft, CallGetsOn, CoreConnects, TargetAnswers, ExtCallDone, ExtCallFailed, ExtLeaves,
             ExtQuit, ExtAsks, CommandSent, CommandGetsOn, CommandHandled, CommandReceived,
             CommandFailed, CoreStart
<1> QED BY <1>1, RegistryInvariant, PTL DEF Spec, EntriesGivenUp
=============================================================================
