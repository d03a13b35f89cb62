------------------------------- MODULE Sandbox -------------------------------
(***************************************************************************)
(* start_emulators and stop_emulators of sandbox.py, called by programs    *)
(* that run on the same machine.  For the emulators of the Datastore, of   *)
(* Cloud Tasks and of Cloud Storage in turn, a program looks for a port    *)
(* that nobody listens on, launches the emulator there and, except for     *)
(* Cloud Tasks, waits until something answers on the port.                 *)
(*                                                                         *)
(* Ports are offsets from the one asked for.  An emulator listens on its   *)
(* port some time after its launch, and ends if the port is taken by then. *)
(***************************************************************************)
EXTENDS Naturals, Sequences

CONSTANTS
  Programs,
  Emulators,   \* the sequence of emulators to start
  Unwaited,    \* those whose answer is not waited for
  PortOffsets, \* the ports tried
  NoProgram

VARIABLES
  explicit,  \* is a port passed that is not the default?
  program,   \* where each program is: [at, number of the emulator, port]
  active,    \* _ACTIVE_EMULATORS of each program
  process,   \* the emulator processes by program and emulator
  answered,  \* observer: whose emulator has answered the wait
  rivals     \* observer: a port has been chosen while another waited for its answer

sandboxVars == <<explicit, program, active, process, answered, rivals>>

Names == {Emulators[i] : i \in DOMAIN Emulators}
\* There is an emulator to start.
ASSUME SandboxAssumption ==
  Emulators \in Seq(Names) /\ Emulators # <<>> /\ PortOffsets \subseteq Nat

NoProcess == [at |-> "none", port |-> 0]

SandboxInit ==
  /\ explicit \in BOOLEAN
  /\ program = [p \in Programs |-> [at |-> "new", turn |-> 1, port |-> 0]]
  /\ active = [p \in Programs |-> {}]
  /\ process = [p \in Programs |-> [e \in Names |-> NoProcess]]
  /\ answered = [p \in Programs |-> [e \in Names |-> NoProgram]]
  /\ rivals = FALSE

Current(p) == Emulators[program[p].turn]
\* How an emulator that listens answers: 200, another success, an error.
Answers == {"serving", "empty", "erring"}
Listeners(e, port) ==
  {q \in Programs : process[q][e].at \in Answers /\ process[q][e].port = port}
PortIsOpen(e, port) == Listeners(e, port) = {}

\* In a program that Django's autoreload has started, nothing happens.
StartReloaded(p) ==
  /\ program[p].at = "new"
  /\ program' = [program EXCEPT ![p].at = "child"]
  /\ UNCHANGED <<explicit, active, process, answered, rivals>>

Start(p) ==
  /\ program[p].at = "new"
  /\ program' = [program EXCEPT ![p].at = "choose"]
  /\ UNCHANGED <<explicit, active, process, answered, rivals>>

\* Mutated form of OpenPorts: the port is not tested.
OpenPortsUntested(e) == PortOffsets
OpenPorts(e) == {port \in PortOffsets : PortIsOpen(e, port)}

\* An explicit port must be open; else the next open one is taken, if any.
ChoosePort(p) ==
  /\ program[p].at = "choose"
  /\ LET e    == Current(p)
         open == OpenPorts(e) \cap IF explicit THEN {0} ELSE PortOffsets
     IN /\ program' = [program EXCEPT ![p] =
             IF open = {} THEN [@ EXCEPT !.at = "failed"]
             ELSE [@ EXCEPT !.at = "launch", !.port = CHOOSE o \in open : \A n \in open : o <= n]]
        /\ rivals' = (rivals \/ \E q \in Programs \ {p} :
                                program[q].at \in {"launch", "wait"} /\ Current(q) = e)
  /\ UNCHANGED <<explicit, active, process, answered>>

\* On to the next emulator, or back from start_emulators.
Proceed(p) ==
  \/ /\ program[p].turn = Len(Emulators)
     /\ program' = [program EXCEPT ![p].at = "started"]
  \/ /\ program[p].turn < Len(Emulators)
     /\ program' = [program EXCEPT ![p].at = "choose", ![p].turn = @ + 1]

Launch(p) ==
  /\ program[p].at = "launch"
  /\ process' = [process EXCEPT ![p][Current(p)] = [at |-> "booting", port |-> program[p].port]]
  /\ active' = [active EXCEPT ![p] = @ \cup {Current(p)}]
  /\ IF Current(p) \in Unwaited THEN Proceed(p)
                                ELSE program' = [program EXCEPT ![p].at = "wait"]
  /\ UNCHANGED <<explicit, answered, rivals>>

\* The emulator binds its port, or it cannot, or fails for reasons of its own.
Boot(p, e) ==
  /\ process[p][e].at = "booting"
  /\ \E to \in {"ended"} \cup IF PortIsOpen(e, process[p][e].port) THEN Answers ELSE {} :
       process' = [process EXCEPT ![p][e].at = to]
  /\ UNCHANGED <<explicit, program, active, answered, rivals>>

Waiting(p) == program[p].at = "wait"
Heard(p) == Listeners(Current(p), program[p].port)
\* The connection fails or the answer is an error, for the time being or for
\* ever: the loop goes on without testing its timeout.
Refused(p) == Waiting(p) /\ \A q \in Heard(p) : process[q][Current(p)].at = "erring"

\* _wait: the answer is 200 ...
WaitEnds(p) ==
  /\ Waiting(p)
  /\ \E q \in Heard(p) :
       /\ process[q][Current(p)].at = "serving"
       /\ answered' = [answered EXCEPT ![p][Current(p)] = q]
  /\ Proceed(p)
  /\ UNCHANGED <<explicit, active, process, rivals>>

\* Mutated form of WaitTimesOut: there is no time limit.
WaitNeverTimesOut(p) == FALSE /\ UNCHANGED sandboxVars
\* ... or another success, for longer than TIMEOUT.
WaitTimesOut(p) ==
  /\ Waiting(p)
  /\ \E q \in Heard(p) : process[q][Current(p)].at = "empty"
  /\ program' = [program EXCEPT ![p].at = "failed"]
  /\ UNCHANGED <<explicit, active, process, answered, rivals>>

\* stop_emulators, also after a failed or interrupted start: the processes are
\* killed, with their children.
Stop(p) ==
  /\ program[p].at \in {"started", "failed", "wait"}
  /\ program' = [program EXCEPT ![p].at = "stopped"]
  /\ process' = [process EXCEPT ![p] =
       [e \in Names |-> IF e \in active[p] THEN [@[e] EXCEPT !.at = "ended"] ELSE @[e]]]
  /\ UNCHANGED <<explicit, active, answered, rivals>>

ProgramStep(p) == Start(p) \/ ChoosePort(p) \/ Launch(p) \/ WaitEnds(p) \/ WaitTimesOut(p)
SandboxNext ==
  \/ \E p \in Programs : ProgramStep(p) \/ StartReloaded(p) \/ Stop(p)
  \/ \E p \in Programs, e \in Names : Boot(p, e)

SandboxSpec == SandboxInit /\ [][SandboxNext]_sandboxVars
-----------------------------------------------------------------------------
\* The emulator that has answered a program's wait is its own, and not one that
\* another program has started on the same port - unless a program looked for a
\* port while the other waited for its answer: until that emulator has bound the
\* port, or when it has failed to, the port is free for both (sandbox.py:59-87, 150-235).
AnsweredByOwn ==
  rivals \/ \A p \in Programs, e \in Names : answered[p][e] \in {NoProgram, p}

\* start_emulators comes to an end, unless nobody ever answers without an error
\* on the port it waits for (sandbox.py:68-87): then it waits for ever.
StartEnds ==
  \A p \in Programs :
    <>[](program[p].at \in {"choose", "launch", "wait"}) => <>[]Refused(p)
=============================================================================
