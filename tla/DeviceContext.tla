---------------------------- MODULE DeviceContext ----------------------------
(***************************************************************************)
(* The contexts of src/core: every thread has one, made at its first call, *)
(* with the runtimes of the devices the thread uses, one of them active.   *)
(* Storages refer to the runtime they were allocated from and give their   *)
(* memory back to it, on whatever thread they die.                         *)
(*                                                                         *)
(* A device is a type and a number; the CPU is the last type a context     *)
(* looks at.  Runtimes and storages are numbered as they are made.         *)
(***************************************************************************)
EXTENDS Integers, FiniteSets, Sequences

CONSTANTS
  Threads,       \* threads that call the library
  Accelerators,  \* accelerators of the machine, numbered from 0 (none: 0)
  MaxRuntimes,   \* bound: runtimes made
  MaxStorages    \* bound: storages alive

ASSUME AcceleratorAssumption == Accelerators \in Nat

VARIABLES
  runtimes,  \* the runtimes made: thread, device, is_active, deleted
  map,       \* _runtime_map of each thread: the runtime of a device, or 0
  current,   \* _current_runtime of each thread, 0 without a context
  storages   \* storages alive: runtime, is_host, and the device asked for

contextVars == <<runtimes, map, current, storages>>

Device == {<<"cpu", 0>>} \cup ({"nvidia"} \X (0 .. Accelerators - 1))

NoMap == [d \in Device |-> 0]

\* The first device in the order of the constructor that there is one of.
FirstDevice == IF Accelerators > 0 THEN <<"nvidia", 0>> ELSE <<"cpu", 0>>

Made(th) == {i \in DOMAIN runtimes : runtimes[i].thread = th}
CurrentDevice(th) == runtimes[current[th]].device

ContextInit ==
  /\ runtimes = << >> /\ storages = {}
  /\ map = [th \in Threads |-> NoMap]
  /\ current = [th \in Threads |-> 0]

NewRuntime(th, d) == [thread |-> th, device |-> d, is_active |-> TRUE, deleted |-> FALSE]

\* Mutant: the map is filled before the runtime is put into its list.
MapAtStartEmpty(th, i) == NoMap

\* The lists of the map after the constructor made runtime i.
MapAtStart(th, i) == [NoMap EXCEPT ![FirstDevice] = i]

\* The thread-local context, made with a runtime of the first device.
FirstCall(th) ==
  /\ current[th] = 0 /\ Len(runtimes) < MaxRuntimes
  /\ runtimes' = Append(runtimes, NewRuntime(th, FirstDevice))
  /\ current' = [current EXCEPT ![th] = Len(runtimes')]
  /\ map' = [map EXCEPT ![th] = MapAtStart(th, Len(runtimes'))]
  /\ UNCHANGED storages

\* Mutant: the runtime left behind stays active.
DeactivatedNot(rts, i) == rts

Deactivated(rts, i) == [rts EXCEPT ![i].is_active = FALSE]

\* setDevice to another device.  The list it takes from the map is a copy: a
\* runtime it has to make is not found again.
Switched(th, d) ==
  LET left == Deactivated(runtimes, current[th])
      i    == map[th][d]
  IN  IF i = 0
      THEN /\ runtimes' = Append(left, NewRuntime(th, d))
           /\ current' = [current EXCEPT ![th] = Len(runtimes')]
      ELSE /\ runtimes' = [left EXCEPT ![i].is_active = TRUE]
           /\ current' = [current EXCEPT ![th] = i]

\* An invalid device throws before anything changes.
SetDevice(th, d) ==
  /\ current[th] # 0 /\ d \in Device /\ d # CurrentDevice(th)
  /\ Len(runtimes) < MaxRuntimes
  /\ Switched(th, d)
  /\ UNCHANGED <<map, storages>>

\* Tensor::create: a CPU tensor gets host memory while another device is
\* active, and the active device stays active.
Hosted(th, d) == d[1] = "cpu" /\ CurrentDevice(th)[1] # "cpu"

CreateTensor(th, d) ==
  /\ current[th] # 0 /\ d \in Device
  /\ Cardinality(storages) < MaxStorages /\ Len(runtimes) < MaxRuntimes
  /\ IF Hosted(th, d) \/ d = CurrentDevice(th) THEN UNCHANGED <<runtimes, current>>
     ELSE Switched(th, d)
  /\ storages' = storages \cup
       {[runtime |-> current'[th], is_host |-> Hosted(th, d), asked |-> d[1]]}
  /\ UNCHANGED map

\* The last handle of a storage is destroyed, on any thread.  If its runtime is
\* gone, that is a call through a dangling reference: nothing kept here changes.
Destroy(s) ==
  /\ s \in storages /\ storages' = storages \ {s}
  /\ UNCHANGED <<runtimes, map, current>>

\* A thread ends: ~Context deletes the current runtime, then activates and
\* deletes the others of its map, without asking who has memory of theirs.
ThreadExit(th) ==
  LET dies == {current[th]} \cup {map[th][d] : d \in Device} IN
  /\ current[th] # 0
  /\ runtimes' = [i \in DOMAIN runtimes |->
       IF i \in dies THEN [runtimes[i] EXCEPT !.is_active = FALSE, !.deleted = TRUE]
       ELSE runtimes[i]]
  /\ current' = [current EXCEPT ![th] = 0]
  /\ map' = [map EXCEPT ![th] = NoMap]
  /\ UNCHANGED storages

ContextNext ==
  \/ \E th \in Threads : FirstCall(th) \/ ThreadExit(th)
  \/ \E th \in Threads, d \in Device : SetDevice(th, d) \/ CreateTensor(th, d)
  \/ \E s \in storages : Destroy(s)

ContextSpec == ContextInit /\ [][ContextNext]_contextVars

-----------------------------------------------------------------------------
DeviceType(s) == IF s.is_host THEN "cpu" ELSE runtimes[s.runtime].device[1]

\* Runtimes belong to a thread and a device; a thread's current one is its own.
ContextTypeOK ==
  /\ \A i \in DOMAIN runtimes : runtimes[i].thread \in Threads /\ runtimes[i].device \in Device
  /\ \A th \in Threads : current[th] \in {0} \cup Made(th)
  /\ \A s \in storages : s.runtime \in DOMAIN runtimes

\* A thread has one active runtime, the current one, which is not deleted; a
\* thread without a context has none.
ActiveIsCurrent ==
  \A th \in Threads : {i \in Made(th) : runtimes[i].is_active}
                        = IF current[th] = 0 THEN {} ELSE {current[th]}

\* Whatever a thread switches to, the runtime of the device it started on is
\* made once and found again; and a storage whose runtime is still there lies on
\* the device it was asked for, whatever was active when it was made.
StartKept ==
  /\ \A th \in Threads : current[th] # 0 =>
       Cardinality({i \in Made(th) : ~runtimes[i].deleted
                                     /\ runtimes[i].device = FirstDevice}) = 1
  /\ \A s \in storages : ~runtimes[s.runtime].deleted => DeviceType(s) = s.asked
=============================================================================
