---------------------------- MODULE KernelsProofs ----------------------------
(***************************************************************************)
(* Proofs about the machines below the forward.  The contexts: for any     *)
(* number of threads and accelerators a thread's active runtime is its     *)
(* current one, the runtime of the device a thread started on is unique,   *)
(* and a storage lies on the device it was asked for while its runtime is  *)
(* there.  The sampler: for any batches, weights and block size every row  *)
(* gets a token it may get, with two exceptions, however the threads of    *)
(* the kernel interleave.  The dense session: for any number of layers its *)
(* answers are those of a model without a cache.                           *)
(***************************************************************************)
EXTENDS DeviceContext, Sampler, DenseForward, SequenceLemmas

-----------------------------------------------------------------------------
\* The contexts.

Runtime == [thread : Threads, device : Device, is_active : BOOLEAN, deleted : BOOLEAN]

ContextTypes ==
  /\ runtimes \in Seq(Runtime)
  /\ map \in [Threads -> [Device -> Nat]]
  /\ current \in [Threads -> Nat]

\* A thread's current runtime is one of its own, active and alive.
CurrentAlive ==
  \A th \in Threads : current[th] # 0 =>
    /\ current[th] \in DOMAIN runtimes
    /\ runtimes[current[th]].thread = th
    /\ runtimes[current[th]].is_active
    /\ ~runtimes[current[th]].deleted

\* What the map names is the thread's own, of the device, and alive.
MapAlive ==
  \A th \in Threads, d \in Device : map[th][d] # 0 =>
    /\ map[th][d] \in DOMAIN runtimes
    /\ runtimes[map[th][d]].thread = th
    /\ runtimes[map[th][d]].device = d
    /\ ~runtimes[map[th][d]].deleted

ActiveOnly ==
  \A i \in DOMAIN runtimes : runtimes[i].is_active => current[runtimes[i].thread] = i

\* The map keeps the runtime of the first device, and there is no other.
StartOnly ==
  /\ \A th \in Threads : current[th] # 0 => map[th][FirstDevice] # 0
  /\ \A i \in DOMAIN runtimes :
       ~runtimes[i].deleted /\ runtimes[i].device = FirstDevice =>
         /\ current[runtimes[i].thread] # 0
         /\ i = map[runtimes[i].thread][FirstDevice]

Stored ==
  \A s \in storages :
    /\ s.runtime \in DOMAIN runtimes
    /\ ~runtimes[s.runtime].deleted => DeviceType(s) = s.asked

RuntimesInv == ContextTypes /\ CurrentAlive /\ MapAlive /\ ActiveOnly /\ StartOnly

ContextInv == RuntimesInv /\ Stored

-----------------------------------------------------------------------------
\* The first device is a device of the machine.
LEMMA FirstDeviceIsDevice == FirstDevice \in Device
  BY AcceleratorAssumption, SMT DEF FirstDevice, Device

\* Setting the flag of a runtime keeps the rest of it.
LEMMA FlagDown ==
  ASSUME NEW r \in Runtime, NEW e, e = [r EXCEPT !.is_active = FALSE]
  PROVE  /\ e \in Runtime /\ ~e.is_active
         /\ e.thread = r.thread /\ e.device = r.device /\ e.deleted = r.deleted
  BY DEF Runtime

\* A runtime that is activated is the same otherwise.
LEMMA FlagUp ==
  ASSUME NEW r \in Runtime, NEW e, e = [r EXCEPT !.is_active = TRUE]
  PROVE  /\ e \in Runtime /\ e.is_active
         /\ e.thread = r.thread /\ e.device = r.device /\ e.deleted = r.deleted
  BY DEF Runtime

\* A switch deactivates the runtime left, finds or makes the one asked for, and
\* leaves everything else of the runtimes as it is.
LEMMA SwitchedKeeps ==
  ASSUME RuntimesInv, NEW th \in Threads, NEW d \in Device,
         current[th] # 0, d # CurrentDevice(th), Switched(th, d), UNCHANGED map
  PROVE  /\ RuntimesInv'
         /\ current'[th] \in DOMAIN runtimes'
         /\ runtimes'[current'[th]].device = d
         /\ ~runtimes'[current'[th]].deleted
         /\ \A i \in DOMAIN runtimes :
              /\ i \in DOMAIN runtimes'
              /\ runtimes'[i].device = runtimes[i].device
              /\ runtimes'[i].deleted = runtimes[i].deleted
<1> USE DEF RuntimesInv
<1>1. PICK c : c = current[th]
  OBVIOUS
<1>2. PICK left : left = Deactivated(runtimes, c)
  OBVIOUS
<1>3. /\ c \in DOMAIN runtimes /\ runtimes[c].thread = th
      /\ DOMAIN runtimes = 1 .. Len(runtimes) /\ Len(runtimes) \in Nat
      /\ \A i \in DOMAIN runtimes : runtimes[i].thread \in Threads
  <2>1. c \in DOMAIN runtimes /\ runtimes[c].thread = th
    BY <1>1 DEF CurrentAlive
  <2>2. \A i \in DOMAIN runtimes : runtimes[i] \in Runtime
    BY DEF ContextTypes
  <2>3. \A i \in DOMAIN runtimes : runtimes[i].thread \in Threads
    BY <2>2 DEF Runtime
  <2>4. DOMAIN runtimes = 1 .. Len(runtimes) /\ Len(runtimes) \in Nat
    BY DEF ContextTypes
  <2> QED
    BY <2>1, <2>3, <2>4
<1>4. /\ left \in Seq(Runtime) /\ Len(left) = Len(runtimes)
      /\ DOMAIN left = DOMAIN runtimes
      /\ \A i \in DOMAIN runtimes :
           /\ left[i].thread = runtimes[i].thread
           /\ left[i].device = runtimes[i].device
           /\ left[i].deleted = runtimes[i].deleted
           /\ i # c => left[i] = runtimes[i]
      /\ ~left[c].is_active
  <2>1. PICK e : e = [runtimes[c] EXCEPT !.is_active = FALSE]
    OBVIOUS
  <2>2. runtimes \in Seq(Runtime) /\ runtimes[c] \in Runtime
    BY <1>3 DEF ContextTypes
  <2>3. /\ e \in Runtime /\ ~e.is_active /\ e.thread = runtimes[c].thread
        /\ e.device = runtimes[c].device /\ e.deleted = runtimes[c].deleted
    BY <2>1, <2>2, FlagDown
  <2>4. left = [runtimes EXCEPT ![c] = e]
    BY <1>2, <2>1 DEF Deactivated
  <2>5. /\ left \in Seq(Runtime) /\ Len(left) = Len(runtimes)
        /\ \A i \in 1 .. Len(runtimes) : left[i] = IF i = c THEN e ELSE runtimes[i]
    BY <1>3, <2>2, <2>3, <2>4, ExceptSeq
  <2> QED
    BY <1>3, <2>3, <2>5
<1>5. \A i \in DOMAIN runtimes : left[i].is_active => current[runtimes[i].thread] # c /\ runtimes[i].thread # th
  BY <1>1, <1>3, <1>4 DEF ActiveOnly
<1>6. CASE map[th][d] = 0
  <2>1. PICK n : n = Len(runtimes) + 1
    OBVIOUS
  <2>2. /\ runtimes' = Append(left, NewRuntime(th, d))
        /\ Len(runtimes') = n
        /\ current' = [current EXCEPT ![th] = n]
    BY <1>1, <1>2, <1>3, <1>4, <1>6, <2>1 DEF Switched
  <2>3. /\ runtimes' \in Seq(Runtime)
        /\ DOMAIN runtimes' = DOMAIN runtimes \cup {n} /\ n \notin DOMAIN runtimes
        /\ n \in Nat \ {0}
        /\ \A i \in DOMAIN runtimes : runtimes'[i] = left[i]
        /\ runtimes'[n] = NewRuntime(th, d)
    <3>1. NewRuntime(th, d) \in Runtime
      BY DEF NewRuntime, Runtime
    <3> QED
      BY <1>3, <1>4, <2>1, <2>2, <3>1
  <2>4. /\ runtimes'[n].thread = th /\ runtimes'[n].device = d
        /\ runtimes'[n].is_active /\ ~runtimes'[n].deleted
    BY <2>3 DEF NewRuntime
  <2>5. current' \in [Threads -> Nat] /\ current'[th] = n
        /\ \A x \in Threads : x # th => current'[x] = current[x]
    BY <2>2, <2>3 DEF ContextTypes
  <2>6. ContextTypes'
    BY <2>3, <2>5 DEF ContextTypes
  <2>7. CurrentAlive'
    BY <1>1, <1>3, <1>4, <2>3, <2>4, <2>5 DEF CurrentAlive
  <2>8. MapAlive'
    BY <1>4, <2>3 DEF MapAlive
  <2>9. ActiveOnly'
    <3> SUFFICES ASSUME NEW i \in DOMAIN runtimes', runtimes'[i].is_active
                 PROVE  current'[runtimes'[i].thread] = i
      BY DEF ActiveOnly
    <3>1. CASE i = n
      BY <2>4, <2>5, <3>1
    <3>2. CASE i # n
      <4>1. i \in DOMAIN runtimes /\ runtimes'[i] = left[i] /\ i # c
        BY <1>4, <2>3, <3>2
      <4> QED
        BY <1>3, <1>4, <1>5, <2>5, <4>1 DEF ActiveOnly
    <3> QED
      BY <3>1, <3>2
  <2>10. d # FirstDevice
    BY <1>6 DEF StartOnly
  <2>11. StartOnly'
    <3>1. \A x \in Threads : current'[x] # 0 => map'[x][FirstDevice] # 0
      BY <2>5 DEF StartOnly
    <3>2. ASSUME NEW i \in DOMAIN runtimes', ~runtimes'[i].deleted,
                 runtimes'[i].device = FirstDevice
          PROVE  /\ current'[runtimes'[i].thread] # 0
                 /\ i = map'[runtimes'[i].thread][FirstDevice]
      <4>1. i \in DOMAIN runtimes /\ runtimes'[i] = left[i]
        BY <2>3, <2>4, <2>10, <3>2
      <4> QED
        BY <1>3, <1>4, <2>3, <2>5, <3>2, <4>1 DEF StartOnly
    <3> QED
      BY <3>1, <3>2 DEF StartOnly
  <2> QED
    BY <1>4, <2>3, <2>4, <2>5, <2>6, <2>7, <2>8, <2>9, <2>11
<1>7. CASE map[th][d] # 0
  <2>1. PICK m : m = map[th][d]
    OBVIOUS
  <2>2. /\ m \in DOMAIN runtimes /\ m # c
        /\ runtimes[m].thread = th /\ runtimes[m].device = d /\ ~runtimes[m].deleted
    BY <1>1, <1>7, <2>1 DEF MapAlive, CurrentDevice
  <2>3. /\ runtimes' = [left EXCEPT ![m].is_active = TRUE]
        /\ current' = [current EXCEPT ![th] = m]
    BY <1>1, <1>2, <1>7, <2>1 DEF Switched
  <2>4. /\ runtimes' \in Seq(Runtime) /\ DOMAIN runtimes' = DOMAIN runtimes
        /\ \A i \in DOMAIN runtimes :
             /\ runtimes'[i].thread = runtimes[i].thread
             /\ runtimes'[i].device = runtimes[i].device
             /\ runtimes'[i].deleted = runtimes[i].deleted
             /\ i # m => runtimes'[i] = left[i]
        /\ runtimes'[m].is_active
    <3>1. PICK e : e = [left[m] EXCEPT !.is_active = TRUE]
      OBVIOUS
    <3>2. m \in 1 .. Len(left) /\ left[m] \in Runtime
      BY <1>3, <1>4, <2>2
    <3>3. /\ e \in Runtime /\ e.is_active /\ e.thread = left[m].thread
          /\ e.device = left[m].device /\ e.deleted = left[m].deleted
      BY <3>1, <3>2, FlagUp
    <3>4. runtimes' = [left EXCEPT ![m] = e]
      BY <2>3, <3>1
    <3>5. /\ runtimes' \in Seq(Runtime) /\ Len(runtimes') = Len(left)
          /\ \A i \in 1 .. Len(left) : runtimes'[i] = IF i = m THEN e ELSE left[i]
      BY <1>4, <3>2, <3>3, <3>4, ExceptSeq
    <3> QED
      BY <1>3, <1>4, <2>2, <3>2, <3>3, <3>5
  <2>5. current' \in [Threads -> Nat] /\ current'[th] = m
        /\ \A x \in Threads : x # th => current'[x] = current[x]
    BY <1>3, <2>2, <2>3 DEF ContextTypes
  <2>6. ContextTypes'
    BY <2>4, <2>5 DEF ContextTypes
  <2>7. CurrentAlive'
    BY <1>1, <1>3, <1>4, <2>2, <2>4, <2>5 DEF CurrentAlive
  <2>8. MapAlive'
    BY <2>4 DEF MapAlive
  <2>9. ActiveOnly'
    <3> SUFFICES ASSUME NEW i \in DOMAIN runtimes', runtimes'[i].is_active
                 PROVE  current'[runtimes'[i].thread] = i
      BY DEF ActiveOnly
    <3>1. CASE i = m
      BY <2>2, <2>4, <2>5, <3>1
    <3>2. CASE i # m
      <4>1. i \in DOMAIN runtimes /\ runtimes'[i] = left[i] /\ i # c
        BY <1>4, <2>4, <3>2
      <4> QED
        BY <1>3, <1>4, <1>5, <2>5, <4>1 DEF ActiveOnly
    <3> QED
      BY <3>1, <3>2
  <2>10. StartOnly'
    <3>1. \A x \in Threads : current'[x] # 0 => map'[x][FirstDevice] # 0
      BY <2>5 DEF StartOnly
    <3>2. ASSUME NEW i \in DOMAIN runtimes', ~runtimes'[i].deleted,
                 runtimes'[i].device = FirstDevice
          PROVE  /\ current'[runtimes'[i].thread] # 0
                 /\ i = map'[runtimes'[i].thread][FirstDevice]
      BY <1>3, <2>2, <2>4, <2>5, <3>2 DEF StartOnly
    <3> QED
      BY <3>1, <3>2 DEF StartOnly
  <2> QED
    BY <2>2, <2>4, <2>5, <2>6, <2>7, <2>8, <2>9, <2>10
<1> QED
  BY <1>6, <1>7

-----------------------------------------------------------------------------
\* The contexts begin without runtimes.
LEMMA InitHolds == ContextInit => ContextInv
  BY SMT DEF ContextInit, ContextInv, RuntimesInv, ContextTypes, CurrentAlive, MapAlive, ActiveOnly,
         StartOnly, Stored, NoMap

\* A thread's context comes with a runtime of the first device, and no other
\* runtime of that device is left from an earlier context of the thread.
LEMMA FirstCallKeeps ==
  ASSUME ContextInv, NEW th \in Threads, FirstCall(th)
  PROVE  ContextInv'
<1> USE DEF ContextInv, RuntimesInv
<1>1. PICK n : n = Len(runtimes) + 1
  OBVIOUS
<1>2. /\ FirstDevice \in Device /\ NewRuntime(th, FirstDevice) \in Runtime
      /\ DOMAIN runtimes = 1 .. Len(runtimes) /\ Len(runtimes) \in Nat
  <2>1. FirstDevice \in Device
    BY FirstDeviceIsDevice
  <2>2. NewRuntime(th, FirstDevice) \in Runtime
    BY <2>1 DEF NewRuntime, Runtime
  <2> QED
    BY <2>1, <2>2 DEF ContextTypes
<1>3. \A i \in DOMAIN runtimes : runtimes[i].thread \in Threads
  <2>1. \A i \in DOMAIN runtimes : runtimes[i] \in Runtime
    BY DEF ContextTypes
  <2> QED
    BY <2>1 DEF Runtime
<1>4. /\ runtimes' = Append(runtimes, NewRuntime(th, FirstDevice))
      /\ Len(runtimes') = n /\ n \in Nat \ {0} /\ current[th] = 0
      /\ UNCHANGED storages
  BY <1>1, <1>2 DEF FirstCall, ContextTypes
<1>5. /\ runtimes' \in Seq(Runtime)
      /\ DOMAIN runtimes' = DOMAIN runtimes \cup {n} /\ n \notin DOMAIN runtimes
      /\ \A i \in DOMAIN runtimes : runtimes'[i] = runtimes[i]
      /\ runtimes'[n] = NewRuntime(th, FirstDevice)
  BY <1>1, <1>2, <1>4 DEF ContextTypes
<1>6. /\ runtimes'[n].thread = th /\ runtimes'[n].device = FirstDevice
      /\ runtimes'[n].is_active /\ ~runtimes'[n].deleted
  BY <1>5 DEF NewRuntime
<1>7. /\ current' \in [Threads -> Nat] /\ current'[th] = n
      /\ \A x \in Threads : x # th => current'[x] = current[x]
  BY <1>4 DEF FirstCall, ContextTypes
<1>8. /\ map' \in [Threads -> [Device -> Nat]]
      /\ \A d \in Device : map'[th][d] = IF d = FirstDevice THEN n ELSE 0
      /\ \A x \in Threads : x # th => map'[x] = map[x]
  BY <1>2, <1>4 DEF FirstCall, MapAtStart, NoMap, ContextTypes
<1>9. ContextTypes'
  BY <1>5, <1>7, <1>8 DEF ContextTypes
<1>10. CurrentAlive'
  BY <1>5, <1>6, <1>7 DEF CurrentAlive
<1>11. MapAlive'
  <2> SUFFICES ASSUME NEW x \in Threads, NEW d \in Device, map'[x][d] # 0
               PROVE  /\ map'[x][d] \in DOMAIN runtimes'
                      /\ runtimes'[map'[x][d]].thread = x
                      /\ runtimes'[map'[x][d]].device = d
                      /\ ~runtimes'[map'[x][d]].deleted
    BY DEF MapAlive
  <2>1. CASE x = th
    BY <1>5, <1>6, <1>8, <2>1
  <2>2. CASE x # th
    BY <1>5, <1>8, <2>2 DEF MapAlive
  <2> QED
    BY <2>1, <2>2
<1>12. ActiveOnly'
  <2> SUFFICES ASSUME NEW i \in DOMAIN runtimes', runtimes'[i].is_active
               PROVE  current'[runtimes'[i].thread] = i
    BY DEF ActiveOnly
  <2>1. CASE i = n
    BY <1>6, <1>7, <2>1
  <2>2. CASE i # n
    <3>1. i \in DOMAIN runtimes /\ runtimes'[i] = runtimes[i] /\ i # 0
      BY <1>2, <1>5, <2>2
    <3> QED
      BY <1>3, <1>4, <1>7, <3>1 DEF ActiveOnly
  <2> QED
    BY <2>1, <2>2
<1>13. StartOnly'
  <2>1. \A x \in Threads : current'[x] # 0 => map'[x][FirstDevice] # 0
    BY <1>2, <1>4, <1>7, <1>8 DEF StartOnly
  <2>2. ASSUME NEW i \in DOMAIN runtimes', ~runtimes'[i].deleted,
               runtimes'[i].device = FirstDevice
        PROVE  /\ current'[runtimes'[i].thread] # 0
               /\ i = map'[runtimes'[i].thread][FirstDevice]
    <3>1. CASE i = n
      BY <1>2, <1>4, <1>6, <1>7, <1>8, <3>1
    <3>2. CASE i # n
      <4>1. i \in DOMAIN runtimes /\ runtimes'[i] = runtimes[i]
        BY <1>5, <3>2
      <4>2. PICK x \in Threads : x = runtimes[i].thread
        BY <1>3, <4>1
      <4>3. current[x] # 0 /\ i = map[x][FirstDevice]
        BY <2>2, <4>1, <4>2 DEF StartOnly
      <4>4. x # th
        BY <1>4, <4>3
      <4>5. current'[x] = current[x] /\ map'[x] = map[x]
        BY <1>7, <1>8, <4>2, <4>4
      <4> QED
        BY <4>1, <4>2, <4>3, <4>5
    <3> QED
      BY <3>1, <3>2
  <2> QED
    BY <2>1, <2>2 DEF StartOnly
<1>14. Stored'
  BY <1>4, <1>5 DEF Stored, DeviceType
<1> QED
  BY <1>9, <1>10, <1>11, <1>12, <1>13, <1>14

\* Switching changes no storage and deletes no runtime.
LEMMA SetDeviceKeeps ==
  ASSUME ContextInv, NEW th \in Threads, NEW d \in Device, SetDevice(th, d)
  PROVE  ContextInv'
<1>1. /\ current[th] # 0 /\ d # CurrentDevice(th) /\ Switched(th, d)
      /\ UNCHANGED <<map, storages>>
  BY DEF SetDevice
<1>2. /\ RuntimesInv'
      /\ \A i \in DOMAIN runtimes :
           /\ i \in DOMAIN runtimes'
           /\ runtimes'[i].device = runtimes[i].device
           /\ runtimes'[i].deleted = runtimes[i].deleted
  BY <1>1, SwitchedKeeps DEF ContextInv
<1>3. Stored'
  BY <1>1, <1>2 DEF ContextInv, Stored, DeviceType
<1> QED
  BY <1>2, <1>3 DEF ContextInv

\* A tensor's storage is allocated where it was asked for.
LEMMA CreateTensorKeeps ==
  ASSUME ContextInv, NEW th \in Threads, NEW d \in Device, CreateTensor(th, d)
  PROVE  ContextInv'
<1>0. PICK new : new = [runtime |-> current'[th], is_host |-> Hosted(th, d), asked |-> d[1]]
  OBVIOUS
<1>1. current[th] # 0 /\ storages' = storages \cup {new} /\ UNCHANGED map
  BY <1>0 DEF CreateTensor
<1>2. /\ RuntimesInv'
      /\ \A i \in DOMAIN runtimes :
           /\ i \in DOMAIN runtimes'
           /\ runtimes'[i].device = runtimes[i].device
           /\ runtimes'[i].deleted = runtimes[i].deleted
      /\ current'[th] \in DOMAIN runtimes'
      /\ ~runtimes'[current'[th]].deleted
      /\ ~Hosted(th, d) => runtimes'[current'[th]].device = d
  <2>1. CASE Hosted(th, d) \/ d = CurrentDevice(th)
    <3>1. UNCHANGED <<runtimes, current>>
      BY <2>1 DEF CreateTensor
    <3>2. RuntimesInv'
      BY <1>1, <3>1 DEF ContextInv, RuntimesInv, ContextTypes, CurrentAlive, MapAlive, ActiveOnly,
                        StartOnly
    <3> QED
      BY <1>1, <2>1, <3>1, <3>2 DEF ContextInv, RuntimesInv, CurrentAlive, CurrentDevice
  <2>2. CASE ~(Hosted(th, d) \/ d = CurrentDevice(th))
    <3>1. Switched(th, d)
      BY <2>2 DEF CreateTensor
    <3> QED
      BY <1>1, <2>2, <3>1, SwitchedKeeps DEF ContextInv
  <2> QED
    BY <2>1, <2>2
<1>3. Hosted(th, d) => d[1] = "cpu"
  BY DEF Hosted
<1>4. /\ new.runtime = current'[th] /\ new.asked = d[1]
      /\ new.is_host = Hosted(th, d)
  BY <1>0
<1>5. (IF new.is_host THEN "cpu" ELSE runtimes'[new.runtime].device[1]) = new.asked
  BY <1>2, <1>3, <1>4
<1>6. Stored'
  <2> SUFFICES ASSUME NEW s \in storages'
               PROVE  /\ s.runtime \in DOMAIN runtimes'
                      /\ ~runtimes'[s.runtime].deleted => DeviceType(s)' = s.asked
    BY DEF Stored
  <2>1. CASE s \in storages
    BY <1>2, <2>1 DEF ContextInv, Stored, DeviceType
  <2>2. CASE s = new
    BY <1>2, <1>4, <1>5, <2>2 DEF DeviceType
  <2> QED
    BY <1>1, <2>1, <2>2
<1> QED
  BY <1>2, <1>6 DEF ContextInv

\* A storage given back changes no runtime.
LEMMA DestroyKeeps ==
  ASSUME ContextInv, NEW s \in storages, Destroy(s)
  PROVE  ContextInv'
  BY DEF Destroy, ContextInv, RuntimesInv, ContextTypes, CurrentAlive, MapAlive, ActiveOnly,
         StartOnly, Stored, DeviceType

\* A thread that ends takes its current runtime and those of its map with it;
\* storages left without a runtime are asked nothing.
LEMMA ThreadExitKeeps ==
  ASSUME ContextInv, NEW th \in Threads, ThreadExit(th)
  PROVE  ContextInv'
<1> USE DEF ContextInv, RuntimesInv
<1>1. PICK dies : dies = {current[th]} \cup {map[th][d] : d \in Device}
  OBVIOUS
<1>2. /\ current[th] # 0
      /\ runtimes' = [i \in DOMAIN runtimes |->
           IF i \in dies THEN [runtimes[i] EXCEPT !.is_active = FALSE, !.deleted = TRUE]
           ELSE runtimes[i]]
      /\ current' = [current EXCEPT ![th] = 0]
      /\ map' = [map EXCEPT ![th] = NoMap]
      /\ UNCHANGED storages
  BY <1>1 DEF ThreadExit
<1>3. /\ \A i \in DOMAIN runtimes : runtimes[i] \in Runtime /\ runtimes[i].thread \in Threads
      /\ DOMAIN runtimes = 1 .. Len(runtimes) /\ Len(runtimes) \in Nat
  <2>1. \A i \in DOMAIN runtimes : runtimes[i] \in Runtime
    BY DEF ContextTypes
  <2>2. \A i \in DOMAIN runtimes : runtimes[i].thread \in Threads
    BY <2>1 DEF Runtime
  <2> QED
    BY <2>1, <2>2 DEF ContextTypes
<1>4. \A i \in DOMAIN runtimes : i \in dies => runtimes[i].thread = th
  <2>1. \A i \in DOMAIN runtimes : i # 0
    BY <1>3
  <2> QED
    BY <1>1, <2>1 DEF CurrentAlive, MapAlive
<1>5. /\ DOMAIN runtimes' = DOMAIN runtimes
      /\ \A i \in DOMAIN runtimes :
           /\ runtimes'[i] \in Runtime
           /\ runtimes'[i].thread = runtimes[i].thread
           /\ runtimes'[i].device = runtimes[i].device
           /\ i \in dies => ~runtimes'[i].is_active /\ runtimes'[i].deleted
           /\ i \notin dies => runtimes'[i] = runtimes[i]
  BY <1>2, <1>3 DEF Runtime
<1>6. runtimes' \in Seq(Runtime)
  <2>1. runtimes' = [i \in 1 .. Len(runtimes) |-> runtimes'[i]]
    BY <1>2, <1>3
  <2> QED
    BY <1>3, <1>5, <2>1
<1>7. /\ current' \in [Threads -> Nat] /\ current'[th] = 0
      /\ \A x \in Threads : x # th => current'[x] = current[x]
  BY <1>2 DEF ContextTypes
<1>8. /\ map' \in [Threads -> [Device -> Nat]]
      /\ \A d \in Device : map'[th][d] = 0
      /\ \A x \in Threads : x # th => map'[x] = map[x]
  BY <1>2 DEF NoMap, ContextTypes
<1>9. ContextTypes'
  BY <1>6, <1>7, <1>8 DEF ContextTypes
<1>10. CurrentAlive'
  BY <1>4, <1>5, <1>7 DEF CurrentAlive
<1>11. MapAlive'
  <2> SUFFICES ASSUME NEW x \in Threads, NEW d \in Device, map'[x][d] # 0
               PROVE  /\ map'[x][d] \in DOMAIN runtimes'
                      /\ runtimes'[map'[x][d]].thread = x
                      /\ runtimes'[map'[x][d]].device = d
                      /\ ~runtimes'[map'[x][d]].deleted
    BY DEF MapAlive
  <2>1. x # th /\ map'[x][d] = map[x][d]
    BY <1>8
  <2> QED
    BY <1>4, <1>5, <2>1 DEF MapAlive
<1>12. ActiveOnly'
  BY <1>1, <1>3, <1>5, <1>7 DEF ActiveOnly
<1>13. StartOnly'
  <2>1. \A x \in Threads : current'[x] # 0 => map'[x][FirstDevice] # 0
    BY <1>7, <1>8 DEF StartOnly
  <2>2. ASSUME NEW i \in DOMAIN runtimes', ~runtimes'[i].deleted,
               runtimes'[i].device = FirstDevice
        PROVE  /\ current'[runtimes'[i].thread] # 0
               /\ i = map'[runtimes'[i].thread][FirstDevice]
    <3>1. i \in DOMAIN runtimes /\ i \notin dies /\ runtimes'[i] = runtimes[i]
      BY <1>5, <2>2
    <3>2. /\ current[runtimes[i].thread] # 0
          /\ i = map[runtimes[i].thread][FirstDevice]
      BY <2>2, <3>1 DEF StartOnly
    <3>3. runtimes[i].thread # th
      BY <1>1, <3>1, <3>2, FirstDeviceIsDevice
    <3> QED
      BY <1>3, <1>7, <1>8, <3>1, <3>2, <3>3
  <2> QED
    BY <2>1, <2>2 DEF StartOnly
<1>14. Stored'
  <2> SUFFICES ASSUME NEW s \in storages'
               PROVE  /\ s.runtime \in DOMAIN runtimes'
                      /\ ~runtimes'[s.runtime].deleted => DeviceType(s)' = s.asked
    BY DEF Stored
  <2>1. /\ s \in storages /\ s.runtime \in DOMAIN runtimes
        /\ ~runtimes[s.runtime].deleted => DeviceType(s) = s.asked
    BY <1>2 DEF Stored
  <2>2. CASE s.runtime \in dies
    BY <1>5, <2>1, <2>2
  <2>3. CASE s.runtime \notin dies
    BY <1>5, <2>1, <2>3 DEF DeviceType
  <2> QED
    BY <2>2, <2>3
<1> QED
  BY <1>9, <1>10, <1>11, <1>12, <1>13, <1>14

-----------------------------------------------------------------------------
\* The invariant holds in every reachable state.
LEMMA ContextInvAlways == ContextSpec => []ContextInv
<1>1. ContextInit => ContextInv
  BY InitHolds
<1>2. ContextInv /\ [ContextNext]_contextVars => ContextInv'
  <2> SUFFICES ASSUME ContextInv, [ContextNext]_contextVars
               PROVE  ContextInv'
    OBVIOUS
  <2>1. CASE \E th \in Threads : FirstCall(th) \/ ThreadExit(th)
    BY <2>1, FirstCallKeeps, ThreadExitKeeps
  <2>2. CASE \E th \in Threads, d \in Device : SetDevice(th, d) \/ CreateTensor(th, d)
    BY <2>2, SetDeviceKeeps, CreateTensorKeeps
  <2>3. CASE \E s \in storages : Destroy(s)
    BY <2>3, DestroyKeeps
  <2>4. CASE UNCHANGED contextVars
    BY <2>4 DEF contextVars, ContextInv, RuntimesInv, ContextTypes, CurrentAlive, MapAlive,
                ActiveOnly, StartOnly, Stored, DeviceType
  <2> QED
    BY <2>1, <2>2, <2>3, <2>4 DEF ContextNext
<1> QED
  BY <1>1, <1>2, PTL DEF ContextSpec

\* Whatever threads do, a thread has one active runtime, its current one, and
\* none without a context (Context::setDevice, Context::Context, ~Context).
THEOREM ActiveIsCurrentAlways == ContextSpec => []ActiveIsCurrent
<1>1. ContextInv => ActiveIsCurrent
  <2> SUFFICES ASSUME ContextInv, NEW th \in Threads
               PROVE  {i \in Made(th) : runtimes[i].is_active}
                        = IF current[th] = 0 THEN {} ELSE {current[th]}
    BY DEF ActiveIsCurrent
  <2>1. \A i \in DOMAIN runtimes : i # 0
    BY DEF ContextInv, RuntimesInv, ContextTypes
  <2>2. \A i \in Made(th) : runtimes[i].is_active => current[th] = i /\ i # 0
    BY <2>1 DEF Made, ContextInv, RuntimesInv, ActiveOnly
  <2>3. current[th] # 0 => current[th] \in Made(th) /\ runtimes[current[th]].is_active
    BY DEF Made, ContextInv, RuntimesInv, CurrentAlive
  <2> QED
    BY <2>2, <2>3
<1> QED
  BY <1>1, ContextInvAlways, PTL

\* The runtime of the device a thread started on is made once, whatever the
\* thread switches to, and no storage whose runtime is still there lies on
\* another device than it was asked for (Context::setDevice, Tensor::create).
THEOREM StartKeptAlways == ContextSpec => []StartKept
<1>1. ContextInv => StartKept
  <2> SUFFICES ASSUME ContextInv
               PROVE  StartKept
    OBVIOUS
  <2>1. ASSUME NEW th \in Threads, current[th] # 0
        PROVE  Cardinality({i \in Made(th) : ~runtimes[i].deleted
                                             /\ runtimes[i].device = FirstDevice}) = 1
    <3>1. PICK m : m = map[th][FirstDevice]
      OBVIOUS
    <3>2. m \in Made(th) /\ ~runtimes[m].deleted /\ runtimes[m].device = FirstDevice
      BY <2>1, <3>1, FirstDeviceIsDevice
         DEF Made, ContextInv, RuntimesInv, StartOnly, MapAlive
    <3>3. \A i \in Made(th) : ~runtimes[i].deleted /\ runtimes[i].device = FirstDevice => i = m
      BY <3>1 DEF Made, ContextInv, RuntimesInv, StartOnly
    <3>4. {i \in Made(th) : ~runtimes[i].deleted /\ runtimes[i].device = FirstDevice} = {m}
      BY <3>2, <3>3
    <3> QED
      BY <3>4, FS_Singleton
  <2>2. \A s \in storages : ~runtimes[s.runtime].deleted => DeviceType(s) = s.asked
    BY DEF ContextInv, Stored
  <2> QED
    BY <2>1, <2>2 DEF StartKept
<1> QED
  BY <1>1, ContextInvAlways, PTL

-----------------------------------------------------------------------------
\* The sampler.

\* A position of one of the largest logits of the row at work.
Leading(i) == i \in DOMAIN Logit /\ \A j \in DOMAIN Logit : Logit[i] >= Logit[j]

\* The positions a thread goes through.
Share(tid) == {i \in DOMAIN Logit : (i - 1) % BlockDim = tid}

\* What a power of 2 has in common with its halves.
NoOddDivisor(n) == \A a, b \in 1 .. n : a * b = n => a = 1 \/ a % 2 = 0

SamplerTypes ==
  /\ batch \in Batches /\ row \in 0 .. Len(batch.rows)
  /\ tokens \in Seq(Nat) /\ Len(tokens) = row
  /\ stride \in 0 .. Idle /\ arrived \in SUBSET Lane /\ held \in [Lane -> Nat]
  /\ \A i \in DOMAIN tokens : tokens[i] \in DOMAIN batch.rows[i].logits

\* The block is at work only on a row of an argmax.
Working == stride # Idle =>
  /\ batch.op = "argmax" /\ row < Len(batch.rows)
  /\ stride <= BlockDim
  /\ \A tid \in Lane : held[tid] \in 0 .. Len(Logit)

Scanned == stride = BlockDim =>
  \A tid \in arrived : held[tid] = FirstBest(Share(tid))

\* A largest logit stays in reach of thread 0: some thread of the lower half
\* holds one, or the thread that will take it has not been there.
Reducing == stride \in 1 .. BlockDim - 1 =>
  /\ 2 * stride <= BlockDim /\ NoOddDivisor(stride)
  /\ \E lane \in 0 .. 2 * stride - 1 :
       Leading(held[lane]) /\ (lane >= stride => lane - stride \notin arrived)

Reduced == stride = 0 => Leading(held[0])

SamplerInv == SamplerTypes /\ Working /\ Scanned /\ Reducing /\ Reduced /\ ChosenIsAllowed

-----------------------------------------------------------------------------
\* Which of two logits comes first: a larger one, then the earlier one.
Earlier(s, i, j) == s[i] > s[j] \/ (s[i] = s[j] /\ i < j)
Before(s, i)     == {j \in DOMAIN s : Earlier(s, j, i)}
Place(s, i)      == Cardinality(Before(s, i))

LEMMA LogitsAre ==
  ASSUME NEW s \in Seq(Int)
  PROVE  /\ Len(s) \in Nat /\ DOMAIN s = 1 .. Len(s) /\ IsFiniteSet(DOMAIN s)
         /\ Cardinality(DOMAIN s) = Len(s)
         /\ \A i \in DOMAIN s : i \in Nat /\ s[i] \in Int
<1>1. Len(s) \in Nat /\ DOMAIN s = 1 .. Len(s)
  OBVIOUS
<1>2. \A i \in DOMAIN s : i \in Nat /\ s[i] \in Int
  OBVIOUS
<1>3. IsFiniteSet(1 .. Len(s)) /\ Cardinality(1 .. Len(s)) = Len(s)
  <2>1. 1 \in Int /\ Len(s) \in Int
    BY <1>1
  <2>2. /\ IsFiniteSet(1 .. Len(s))
        /\ Cardinality(1 .. Len(s)) = IF 1 > Len(s) THEN 0 ELSE Len(s) - 1 + 1
    BY <2>1, FS_Interval
  <2>3. QED
    BY <1>1, <2>2
<1>4. QED
  BY <1>1, <1>2, <1>3

\* Who comes earlier has the smaller place; places are below the length.
LEMMA EarlierPlace ==
  ASSUME NEW s \in Seq(Int), NEW i \in DOMAIN s
  PROVE  /\ Place(s, i) \in 0 .. Len(s) - 1
         /\ \A j \in DOMAIN s : Earlier(s, j, i) => Place(s, j) < Place(s, i)
<1>1. /\ Len(s) \in Nat /\ IsFiniteSet(DOMAIN s) /\ Cardinality(DOMAIN s) = Len(s)
      /\ \A j \in DOMAIN s : j \in Nat /\ s[j] \in Int
  BY LogitsAre
<1>2. IsFiniteSet(DOMAIN s \ {i}) /\ Cardinality(DOMAIN s \ {i}) = Len(s) - 1
  BY <1>1, FS_RemoveElement
<1>3. Before(s, i) \in SUBSET (DOMAIN s \ {i})
  BY <1>1 DEF Before, Earlier
<1>4. IsFiniteSet(Before(s, i)) /\ Place(s, i) \in Nat /\ Place(s, i) <= Len(s) - 1
  BY <1>2, <1>3, FS_Subset, FS_CardinalityType DEF Place
<1>5. ASSUME NEW j \in DOMAIN s, Earlier(s, j, i) PROVE Place(s, j) < Place(s, i)
  <2>1. Before(s, j) \in SUBSET Before(s, i)
    BY <1>1, <1>5 DEF Before, Earlier
  <2>2. j \in Before(s, i) /\ j \notin Before(s, j)
    BY <1>1, <1>5 DEF Before, Earlier
  <2>3. /\ Place(s, j) <= Place(s, i) /\ Place(s, i) # Place(s, j)
        /\ Place(s, j) \in Nat
    BY <1>4, <2>1, <2>2, FS_Subset, FS_CardinalityType DEF Place
  <2>4. QED
    BY <1>4, <2>3
<1>6. QED
  BY <1>1, <1>4, <1>5

\* Two positions do not share a place.
LEMMA PlacesDiffer ==
  ASSUME NEW s \in Seq(Int), NEW i \in DOMAIN s, NEW j \in DOMAIN s,
         Place(s, i) <= Place(s, j)
  PROVE  ~Earlier(s, j, i)
<1>1. Place(s, i) \in Nat /\ Place(s, j) \in Nat
  BY EarlierPlace
<1>2. Earlier(s, j, i) => Place(s, j) < Place(s, i)
  BY EarlierPlace
<1>3. QED
  BY <1>1, <1>2

\* Among any positions there is a first of the largest logits.
LEMMA LargestExists ==
  ASSUME NEW s \in Seq(Int), NEW places \in SUBSET (DOMAIN s), places # {}
  PROVE  \E i \in places : \A j \in places : s[i] > s[j] \/ (s[i] = s[j] /\ i <= j)
<1> DEFINE Taken == {Place(s, i) : i \in places}
<1>1. \A i \in DOMAIN s : i \in Nat /\ s[i] \in Int
  BY LogitsAre
<1>2. Taken \in SUBSET Nat /\ Taken # {}
  <2>1. \A i \in places : Place(s, i) \in Nat
    BY EarlierPlace
  <2>2. QED
    BY <2>1
<1>3. Min(Taken) \in Taken /\ \A k \in Taken : Min(Taken) <= k
  <2> HIDE DEF Taken
  <2>1. QED
    BY <1>2, MinOfNats
<1>4. PICK i \in places : Place(s, i) = Min(Taken)
  BY <1>3
<1>5. ASSUME NEW j \in places
      PROVE  s[i] > s[j] \/ (s[i] = s[j] /\ i <= j)
  <2>1. Place(s, i) <= Place(s, j)
    BY <1>3, <1>4
  <2>2. i \in DOMAIN s /\ j \in DOMAIN s
    OBVIOUS
  <2>3. ~Earlier(s, j, i)
    BY <2>1, <2>2, PlacesDiffer
  <2>4. QED
    BY <1>1, <2>2, <2>3 DEF Earlier
<1>6. QED
  BY <1>5

LEMMA FirstBestIs ==
  ASSUME Logit \in Seq(Int), NEW places \in SUBSET (DOMAIN Logit), places # {}
  PROVE  /\ FirstBest(places) \in places
         /\ \A j \in places : Logit[FirstBest(places)] >= Logit[j]
<1> DEFINE Wins(i) == \A j \in places :
                        Logit[i] > Logit[j] \/ (Logit[i] = Logit[j] /\ i <= j)
<1>1. \A i \in DOMAIN Logit : i \in Nat /\ Logit[i] \in Int
  BY LogitsAre
<1>2. \E i \in places : Wins(i)
  BY LargestExists
<1>3. FirstBest(places) = CHOOSE k \in places : Wins(k)
  BY Zenon DEF FirstBest
<1>4. FirstBest(places) \in places /\ Wins(FirstBest(places))
  <2> HIDE DEF Wins
  <2>1. QED
    BY <1>2, <1>3
<1>5. /\ FirstBest(places) \in places
      /\ \A j \in places : \/ Logit[FirstBest(places)] > Logit[j]
                            \/ /\ Logit[FirstBest(places)] = Logit[j]
                               /\ FirstBest(places) <= j
  BY <1>4, Zenon
<1>6. QED
  BY ONLY <1>1, <1>5

\* The largest logit of a row is one of them.
LEMMA BestIs ==
  ASSUME NEW r, r.logits \in Seq(Int) \ {<< >>}
  PROVE  /\ Best(r) \in Int
         /\ \E i \in DOMAIN r.logits : r.logits[i] = Best(r)
         /\ \A i \in DOMAIN r.logits : r.logits[i] <= Best(r)
<1>1. PICK s : s = r.logits
  OBVIOUS
<1>2. /\ s \in Seq(Int) /\ DOMAIN s # {} /\ DOMAIN s \in SUBSET (DOMAIN s)
      /\ \A i \in DOMAIN s : s[i] \in Int
  <2>1. s \in Seq(Int) /\ s # << >>
    BY <1>1
  <2>2. Len(s) \in Nat \ {0}
    BY <2>1
  <2>3. DOMAIN s = 1 .. Len(s) /\ \A i \in DOMAIN s : s[i] \in Int
    BY <2>1
  <2>4. 1 \in DOMAIN s
    BY <2>2, <2>3
  <2>5. QED
    BY <2>1, <2>3, <2>4
<1>3. PICK i \in DOMAIN s : \A j \in DOMAIN s : s[i] > s[j] \/ (s[i] = s[j] /\ i <= j)
  BY <1>2, LargestExists
<1>4. s[i] \in ToSet(s) /\ \A y \in ToSet(s) : s[i] >= y
  <2>1. \A j \in DOMAIN s : s[i] >= s[j]
    BY <1>2, <1>3
  <2>2. QED
    BY <2>1 DEF ToSet
<1>5. Best(r) \in ToSet(s) /\ \A y \in ToSet(s) : Best(r) >= y
  <2>1. Best(r) = CHOOSE x \in ToSet(s) : \A y \in ToSet(s) : x >= y
    BY <1>1, Zenon DEF Best, Max
  <2>2. QED
    BY <1>4, <2>1
<1>6. QED
  BY <1>1, <1>2, <1>5 DEF ToSet

-----------------------------------------------------------------------------
\* Numbers compare as they do elsewhere.
LEMMA BelowOfInts ==
  ASSUME NEW a \in Int, NEW b \in Int
  PROVE  Below(a, b) <=> a < b
  BY SamplerAssumption DEF Below

\* An order of n positions.
Ordering(o, n) ==
  /\ o \in [1 .. n -> 1 .. n]
  /\ \A i, j \in 1 .. n : o[i] = o[j] => i = j
  /\ \A x \in 1 .. n : \E i \in 1 .. n : o[i] = x

\* An order of the sort goes through every position once.
LEMMA SortIsOrdering ==
  ASSUME NEW n \in Nat, NEW s, DOMAIN s = 1 .. n, NEW o \in Descending(s)
  PROVE  Ordering(o, n)
<1>1. IsFiniteSet(1 .. n)
  BY 1 \in Int, n \in Int, FS_Interval
<1>2. o \in [1 .. n -> 1 .. n] /\ \A i, j \in 1 .. n : o[i] = o[j] => i = j
  BY DEF Descending, IsInjective
<1>3. o \in Injection(1 .. n, 1 .. n)
  BY <1>2 DEF Injection, IsInjective
<1>4. o \in Surjection(1 .. n, 1 .. n)
  BY <1>1, <1>3, FS_Injection
<1>5. QED
  BY <1>2, <1>4 DEF Surjection, Ordering

\* No later position has something larger.
LEMMA SortedOrder ==
  ASSUME NEW n \in Nat, NEW s \in [1 .. n -> Int], NEW o \in Descending(s)
  PROVE  /\ Ordering(o, n)
         /\ \A i, j \in 1 .. n : i <= j => s[o[i]] >= s[o[j]]
<1>1. Ordering(o, n) /\ Len(s) = n
  BY SortIsOrdering
<1>2. o \in [1 .. n -> 1 .. n]
  BY <1>1 DEF Ordering
<1>3. \A k \in 1 .. n : s[o[k]] \in Int
  BY <1>2
<1>4. ASSUME NEW i \in 1 .. n PROVE \A j \in 1 .. n : i <= j => s[o[i]] >= s[o[j]]
  <2> DEFINE Bad == {j \in 1 .. n : i <= j /\ ~ (s[o[i]] >= s[o[j]])}
  <2>1. SUFFICES ASSUME Bad # {} PROVE FALSE
    OBVIOUS
  <2>2. Bad \in SUBSET Nat
    OBVIOUS
  <2>3. PICK j \in Bad : \A k \in Bad : j <= k
    <3> HIDE DEF Bad
    <3>1. QED
      BY <2>1, <2>2, MinOfNats
  <2>4. j \in 1 .. n /\ i <= j /\ ~ (s[o[i]] >= s[o[j]])
    BY <2>3
  <2>5. j # i
    BY <1>3, <2>4
  <2>6. j - 1 \in 1 .. n /\ i <= j - 1 /\ j - 1 \notin Bad
    <3>1. j - 1 \in 1 .. n /\ i <= j - 1 /\ ~ (j <= j - 1)
      BY <2>4, <2>5
    <3>2. QED
      BY <2>3, <3>1
  <2>7. s[o[i]] >= s[o[j - 1]]
    BY <2>6
  <2>8. s[o[i]] \in Int /\ s[o[j]] \in Int /\ s[o[j - 1]] \in Int
    BY <1>3, <2>4, <2>6
  <2>9. ~ (s[o[j - 1]] < s[o[j]])
    <3>1. j - 1 \in 1 .. Len(s) - 1 /\ (j - 1) + 1 = j
      BY <1>1, <2>4, <2>6
    <3>2. ~Below(s[o[j - 1]], s[o[(j - 1) + 1]])
      BY <3>1 DEF Descending
    <3>3. ~Below(s[o[j - 1]], s[o[j]])
      BY <3>1, <3>2
    <3>4. QED
      BY <2>8, <3>3, BelowOfInts
  <2>10. PICK a \in Int, b \in Int, c \in Int : a = s[o[i]] /\ b = s[o[j - 1]] /\ c = s[o[j]]
    BY <2>8
  <2>11. a >= b /\ ~ (b < c)
    BY <2>7, <2>9, <2>10, Zenon
  <2>12. a >= c
    BY ONLY <2>11, a \in Int, b \in Int, c \in Int
  <2>13. QED
    BY <2>4, <2>10, <2>12
<1>5. QED
  BY <1>1, <1>4

\* The first i positions of an order, and what they weigh.
FrontOf(o, i) == {o[j] : j \in 1 .. i}
FrontMass(w, o, i) == SumFunctionOnSet(w, FrontOf(o, i))

\* One position more adds its weight.
LEMMA FrontMassGrows ==
  ASSUME NEW n \in Nat, NEW w \in [1 .. n -> Nat], NEW o, Ordering(o, n), NEW i \in 1 .. n
  PROVE  /\ FrontMass(w, o, i) = FrontMass(w, o, i - 1) + w[o[i]]
         /\ FrontMass(w, o, i) \in Nat /\ FrontMass(w, o, i - 1) \in Nat
<1>1. /\ o \in [1 .. n -> 1 .. n]
      /\ \A k, j \in 1 .. n : o[k] = o[j] => k = j
  BY DEF Ordering
<1>2. IsFiniteSet(1 .. n)
  BY 1 \in Int, n \in Int, FS_Interval
<1>3. /\ FrontOf(o, i) \in SUBSET (1 .. n) /\ o[i] \in FrontOf(o, i) /\ o[i] \in 1 .. n
      /\ FrontOf(o, i) \ {o[i]} = FrontOf(o, i - 1)
  <2>1. \A j \in 1 .. i : j \in 1 .. n
    OBVIOUS
  <2>2. FrontOf(o, i) \in SUBSET (1 .. n) /\ o[i] \in FrontOf(o, i) /\ o[i] \in 1 .. n
    BY <1>1, <2>1 DEF FrontOf
  <2>3. \A j \in 1 .. i : j # i <=> j \in 1 .. i - 1
    OBVIOUS
  <2>4. \A j \in 1 .. i - 1 : j \in 1 .. i
    OBVIOUS
  <2>5. FrontOf(o, i) \ {o[i]} \subseteq FrontOf(o, i - 1)
    <3>1. ASSUME NEW x \in FrontOf(o, i), x # o[i] PROVE x \in FrontOf(o, i - 1)
      <4>1. PICK j \in 1 .. i : x = o[j]
        BY DEF FrontOf
      <4>2. j \in 1 .. i - 1
        BY <2>3, <3>1, <4>1
      <4>3. QED
        BY <4>1, <4>2 DEF FrontOf
    <3>2. QED
      BY <3>1
  <2>6. FrontOf(o, i - 1) \subseteq FrontOf(o, i) \ {o[i]}
    <3>1. ASSUME NEW x \in FrontOf(o, i - 1) PROVE x \in FrontOf(o, i) /\ x # o[i]
      <4>1. PICK j \in 1 .. i - 1 : x = o[j]
        BY DEF FrontOf
      <4>2. j \in 1 .. i /\ j # i /\ j \in 1 .. n
        BY <2>1, <2>3, <2>4, <4>1
      <4>3. QED
        BY <1>1, <4>1, <4>2 DEF FrontOf
    <3>2. QED
      BY <3>1
  <2>7. QED
    BY <2>2, <2>5, <2>6
<1>4. IsFiniteSet(FrontOf(o, i)) /\ IsFiniteSet(FrontOf(o, i - 1))
      /\ FrontOf(o, i - 1) \in SUBSET (1 .. n)
  <2>1. FrontOf(o, i - 1) \in SUBSET (1 .. n)
    BY <1>3
  <2>2. QED
    BY <1>2, <1>3, <2>1, FS_Subset
<1>5. \A x \in 1 .. n : w[x] \in Nat
  OBVIOUS
<1>6. SumFunctionOnSet(w, FrontOf(o, i))
        = w[o[i]] + SumFunctionOnSet(w, FrontOf(o, i) \ {o[i]})
  <2>1. \A x \in FrontOf(o, i) : w[x] \in Nat
    BY <1>3, <1>5
  <2>2. QED
    BY <1>3, <1>4, <2>1, SumSplits
<1>7. FrontMass(w, o, i) \in Nat /\ FrontMass(w, o, i - 1) \in Nat
  <2>1. /\ \A x \in FrontOf(o, i) : w[x] \in Nat
        /\ \A x \in FrontOf(o, i - 1) : w[x] \in Nat
    BY <1>3, <1>4, <1>5
  <2>2. QED
    BY <1>4, <2>1, SumOfNats DEF FrontMass
<1>8. FrontMass(w, o, i) = w[o[i]] + FrontMass(w, o, i - 1)
  BY <1>3, <1>6 DEF FrontMass
<1>9. w[o[i]] \in Nat
  BY <1>3, <1>5
<1>10. QED
  BY <1>7, <1>8, <1>9

\* The mass of a front, as a running sum makes it.
LEMMA PlusOfNats ==
  ASSUME NEW a \in Nat, NEW b \in Nat
  PROVE  Plus(a, b) = a + b
  BY SamplerAssumption DEF Plus

LEMMA FrontMassStep ==
  ASSUME NEW n \in Nat, NEW w \in [1 .. n -> Nat], NEW o, Ordering(o, n), NEW i \in 1 .. n
  PROVE  FrontMass(w, o, i) =
           IF i = 1 THEN w[o[1]] ELSE Plus(FrontMass(w, o, i - 1), w[o[i]])
<1>1. o \in [1 .. n -> 1 .. n]
  BY DEF Ordering
<1>2. /\ FrontMass(w, o, i) = FrontMass(w, o, i - 1) + w[o[i]]
      /\ FrontMass(w, o, i) \in Nat /\ FrontMass(w, o, i - 1) \in Nat
  BY FrontMassGrows
<1>3. w[o[i]] \in Nat
  BY <1>1
<1>4. CASE i = 1
  <2>1. FrontOf(o, 0) = {}
    BY DEF FrontOf
  <2>2. FrontMass(w, o, 0) = 0
    BY <2>1, SumOfNone DEF FrontMass
  <2>3. QED
    BY <1>2, <1>3, <1>4, <2>2
<1>5. CASE i # 1
  BY <1>2, <1>3, <1>5, PlusOfNats
<1>6. QED
  BY <1>4, <1>5

\* The masses of the fronts of an order.
Masses(w, o, n) == [i \in 1 .. n |-> FrontMass(w, o, i)]

\* Sums that go on from one another as the masses do are the masses.
LEMMA MassesOnly ==
  ASSUME NEW n \in Nat, NEW w, NEW o, NEW f,
         \A i \in 1 .. n : (i # 1 => f[i - 1] = FrontMass(w, o, i - 1))
                             => f[i] = FrontMass(w, o, i)
  PROVE  [i \in 1 .. n |-> f[i]] = Masses(w, o, n)
<1> DEFINE Bad == {i \in 1 .. n : f[i] # FrontMass(w, o, i)}
<1>1. ASSUME Bad # {} PROVE FALSE
  <2>1. PICK i \in Bad : \A k \in Bad : i <= k
    <3>1. Bad \in SUBSET Nat
      OBVIOUS
    <3> HIDE DEF Bad
    <3>2. QED
      BY <1>1, <3>1, MinOfNats
  <2>2. i \in 1 .. n /\ f[i] # FrontMass(w, o, i)
    BY <2>1
  <2>3. i # 1 => i - 1 \in 1 .. n /\ i - 1 \notin Bad
    <3>1. i # 1 => i - 1 \in 1 .. n /\ ~ (i <= i - 1)
      BY <2>2
    <3>2. QED
      BY <2>1, <3>1
  <2>4. i # 1 => f[i - 1] = FrontMass(w, o, i - 1)
    BY <2>3
  <2>5. QED
    BY <2>2, <2>4
<1>2. \A i \in 1 .. n : f[i] = FrontMass(w, o, i)
  BY <1>1
<1>3. [i \in 1 .. n |-> f[i]] = [i \in 1 .. n |-> FrontMass(w, o, i)]
  BY <1>2
<1>4. QED
  BY <1>3 DEF Masses

\* The running sums on the CPU are the masses, if the largest weighs 1.
LEMMA CpuSumsAreMasses ==
  ASSUME NEW n \in Nat, NEW w \in [1 .. n -> Nat], NEW o, Ordering(o, n),
         n # 0 => w[o[1]] = Exp[0]
  PROVE  CpuSums(w, o) = Masses(w, o, n)
<1> DEFINE step(f, i) == IF i = 1 THEN Exp[0] ELSE Plus(f[i - 1], w[o[i]])
           P(f) == f = [i \in DOMAIN o |-> step(f, i)]
           m == Masses(w, o, n)
<1>1. DOMAIN o = 1 .. n
  BY DEF Ordering
<1>2. CpuSums(w, o) = CHOOSE f : P(f)
  BY Zenon DEF CpuSums
<1>3. \A i \in 1 .. n : FrontMass(w, o, i) =
        IF i = 1 THEN Exp[0] ELSE Plus(FrontMass(w, o, i - 1), w[o[i]])
  <2>1. ASSUME NEW i \in 1 .. n
        PROVE  FrontMass(w, o, i) =
                 IF i = 1 THEN w[o[1]] ELSE Plus(FrontMass(w, o, i - 1), w[o[i]])
    BY FrontMassStep
  <2>2. \A i \in 1 .. n : n # 0
    OBVIOUS
  <2>3. QED
    BY <2>1, <2>2
<1>4. P(m)
  <2>1. /\ m = [i \in 1 .. n |-> m[i]]
        /\ \A i \in 1 .. n : m[i] = FrontMass(w, o, i)
    BY DEF Masses
  <2>2. \A i \in 1 .. n : i # 1 => i - 1 \in 1 .. n
    OBVIOUS
  <2> HIDE DEF m
  <2>3. \A i \in 1 .. n : m[i] = step(m, i)
    BY <1>3, <2>1, <2>2
  <2> HIDE DEF step
  <2>4. QED
    BY <1>1, <2>1, <2>3
<1>5. ASSUME NEW f, P(f) PROVE f = m
  <2>1. /\ f = [i \in 1 .. n |-> f[i]]
        /\ \A i \in 1 .. n : f[i] = step(f, i)
    <3> HIDE DEF step
    <3>1. QED
      BY <1>1, <1>5
  <2>2. \A i \in 1 .. n : (i # 1 => f[i - 1] = FrontMass(w, o, i - 1))
                            => f[i] = FrontMass(w, o, i)
    <3>1. ASSUME NEW i \in 1 .. n, i # 1 => f[i - 1] = FrontMass(w, o, i - 1)
          PROVE  f[i] = FrontMass(w, o, i)
      <4>1. f[i] = IF i = 1 THEN Exp[0] ELSE Plus(f[i - 1], w[o[i]])
        BY <2>1
      <4>2. FrontMass(w, o, i) = IF i = 1 THEN Exp[0]
                                 ELSE Plus(FrontMass(w, o, i - 1), w[o[i]])
        BY <1>3
      <4>3. QED
        BY ONLY <3>1, <4>1, <4>2
    <3>2. QED
      BY <3>1
  <2> HIDE DEF P, step, m
  <2>3. [i \in 1 .. n |-> f[i]] = Masses(w, o, n)
    BY <2>2, MassesOnly, Zenon
  <2>4. QED
    BY <2>1, <2>3 DEF m
<1> HIDE DEF P, m
<1>6. QED
  BY <1>2, <1>4, <1>5 DEF m

\* A front weighs no more than all positions, which are the last front.
LEMMA FrontOfAll ==
  ASSUME NEW n \in Nat, NEW w \in [1 .. n -> Nat], NEW o, Ordering(o, n), NEW i \in 1 .. n
  PROVE  /\ FrontMass(w, o, i) <= SumFunctionOnSet(w, 1 .. n)
         /\ FrontMass(w, o, n) = SumFunctionOnSet(w, 1 .. n)
<1>1. o \in [1 .. n -> 1 .. n] /\ \A x \in 1 .. n : \E j \in 1 .. n : o[j] = x
  BY DEF Ordering
<1>2. IsFiniteSet(1 .. n)
  BY 1 \in Int, n \in Int, FS_Interval
<1>3. FrontOf(o, i) \in SUBSET (1 .. n)
  <2>1. \A j \in 1 .. i : j \in 1 .. n
    OBVIOUS
  <2>2. QED
    BY <1>1, <2>1 DEF FrontOf
<1>4. FrontOf(o, n) = 1 .. n
  BY <1>1 DEF FrontOf
<1>5. \A x \in 1 .. n : w[x] \in Nat
  OBVIOUS
<1>6. SumFunctionOnSet(w, FrontOf(o, i)) <= SumFunctionOnSet(w, 1 .. n)
  BY <1>2, <1>3, <1>5, SumOfPart
<1>7. QED
  BY <1>4, <1>6 DEF FrontMass

\* The running sums on the GPU are the masses, if those are in range.
LEMMA GpuSumsAreMasses ==
  ASSUME NEW n \in Nat, NEW w \in [1 .. n -> Nat], NEW o, Ordering(o, n),
         SumFunctionOnSet(w, 1 .. n) <= MaxFloat
  PROVE  GpuSums(w, o) = Masses(w, o, n)
<1> DEFINE step(f, i) == IF i = 1 THEN InRange(w[o[1]]) ELSE InRange(Plus(f[i - 1], w[o[i]]))
           P(f) == f = [i \in DOMAIN o |-> step(f, i)]
           m == Masses(w, o, n)
<1>1. DOMAIN o = 1 .. n
  BY DEF Ordering
<1>2. GpuSums(w, o) = CHOOSE f : P(f)
  BY Zenon DEF GpuSums
<1>3. \A i \in 1 .. n : FrontMass(w, o, i) =
        IF i = 1 THEN InRange(w[o[1]]) ELSE InRange(Plus(FrontMass(w, o, i - 1), w[o[i]]))
  <2>1. ASSUME NEW i \in 1 .. n
        PROVE  FrontMass(w, o, i) =
                 IF i = 1 THEN InRange(w[o[1]]) ELSE InRange(Plus(FrontMass(w, o, i - 1), w[o[i]]))
    <3>1. FrontMass(w, o, i) \in Nat
      BY FrontMassGrows
    <3>2. FrontMass(w, o, i) <= SumFunctionOnSet(w, 1 .. n)
      BY FrontOfAll
    <3>3. SumFunctionOnSet(w, 1 .. n) \in Nat /\ MaxFloat \in Nat
      <4>1. IsFiniteSet(1 .. n)
        BY 1 \in Int, n \in Int, FS_Interval
      <4>2. \A x \in 1 .. n : w[x] \in Nat
        OBVIOUS
      <4>3. QED
        BY <4>1, <4>2, SumOfNats, SamplerAssumption
    <3>4. InRange(FrontMass(w, o, i)) = FrontMass(w, o, i)
      BY <3>1, <3>2, <3>3 DEF InRange
    <3>5. FrontMass(w, o, i) =
            IF i = 1 THEN w[o[1]] ELSE Plus(FrontMass(w, o, i - 1), w[o[i]])
      BY FrontMassStep
    <3>6. QED
      BY <3>4, <3>5
  <2>2. QED
    BY <2>1
<1>4. P(m)
  <2>1. /\ m = [i \in 1 .. n |-> m[i]]
        /\ \A i \in 1 .. n : m[i] = FrontMass(w, o, i)
    BY DEF Masses
  <2>2. \A i \in 1 .. n : i # 1 => i - 1 \in 1 .. n
    OBVIOUS
  <2> HIDE DEF m
  <2>3. \A i \in 1 .. n : m[i] = step(m, i)
    BY <1>3, <2>1, <2>2
  <2> HIDE DEF step
  <2>4. QED
    BY <1>1, <2>1, <2>3
<1>5. ASSUME NEW f, P(f) PROVE f = m
  <2>1. /\ f = [i \in 1 .. n |-> f[i]]
        /\ \A i \in 1 .. n : f[i] = step(f, i)
    <3> HIDE DEF step
    <3>1. QED
      BY <1>1, <1>5
  <2>2. \A i \in 1 .. n : (i # 1 => f[i - 1] = FrontMass(w, o, i - 1))
                            => f[i] = FrontMass(w, o, i)
    BY <1>3, <2>1
  <2> HIDE DEF P, step, m
  <2>3. [i \in 1 .. n |-> f[i]] = Masses(w, o, n)
    BY <2>2, MassesOnly, Zenon
  <2>4. QED
    BY <2>1, <2>3 DEF m
<1> HIDE DEF P, m
<1>6. QED
  BY <1>2, <1>4, <1>5 DEF m

-----------------------------------------------------------------------------
\* Products of naturals.
LEMMA TimesGrows ==
  ASSUME NEW a \in Nat, NEW b \in Nat, NEW c \in Nat, NEW d \in Nat, a <= b, c <= d
  PROVE  a * c \in Nat /\ b * d \in Nat /\ a * c <= b * d
<1>1. a * c \in Nat /\ b * c \in Nat /\ b * d \in Nat
  OBVIOUS
<1>2. a * c <= b * c
  OBVIOUS
<1>3. b * c <= b * d
  OBVIOUS
<1>4. QED
  BY <1>1, <1>2, <1>3

\* The limit is what rand leaves of the smaller of two sums in steps of Grain.
LEMMA LimitBounds ==
  ASSUME NEW n \in Nat \ {0}, NEW sums \in [1 .. n -> Nat], NEW k \in 1 .. n,
         NEW p \in Nat, NEW rand \in 0 .. Grain
  PROVE  /\ Limit(sums, k, p, rand) \in Nat
         /\ Limit(sums, k, p, rand) <= sums[k] * (Grain * Grain)
         /\ \A i \in 1 .. n : sums[i] * (Grain * Grain) < Limit(sums, k, p, rand) =>
              sums[i] * Grain < sums[n] * p
<1>1. Grain \in Nat \ {0} /\ rand \in Nat /\ rand <= Grain
      /\ NotANumber \notin Nat /\ Infinite \notin Nat
  BY SamplerAssumption
<1>2. Len(sums) = n
  OBVIOUS
<1>3. PICK a \in Nat : a = sums[k] * Grain
  <2>1. sums[k] \in Nat
    OBVIOUS
  <2>2. QED
    BY <1>1, <2>1
<1>4. PICK b \in Nat : b = sums[n] * p
  <2>1. sums[n] \in Nat
    OBVIOUS
  <2>2. QED
    BY <2>1
<1>5. PICK c \in Nat : c = Smaller(a, b) /\ c <= a /\ c <= b
  BY <1>1 DEF Smaller, Below
<1>6. Limit(sums, k, p, rand) = c * rand
  <2>1. Times(sums[k], Grain) = a /\ Times(sums[Len(sums)], p) = b
    <3>1. sums[k] \in Nat /\ sums[n] \in Nat
      OBVIOUS
    <3>2. QED
      BY <1>1, <1>2, <1>3, <1>4, <3>1 DEF Times
  <2>2. Times(c, rand) = c * rand
    BY <1>1 DEF Times
  <2>3. QED
    BY <1>5, <2>1, <2>2 DEF Limit
<1>7. c * rand \in Nat /\ c * rand <= a * Grain
  BY <1>1, <1>5, TimesGrows
<1>8. a * Grain = sums[k] * (Grain * Grain)
  <2>1. sums[k] \in Nat
    OBVIOUS
  <2>2. PICK x \in Nat : x = sums[k]
    BY <2>1
  <2>3. (x * Grain) * Grain = x * (Grain * Grain)
    BY <1>1
  <2>4. QED
    BY <1>3, <2>2, <2>3
<1>9. ASSUME NEW i \in 1 .. n, sums[i] * (Grain * Grain) < c * rand
      PROVE  sums[i] * Grain < b
  <2>1. sums[i] \in Nat
    OBVIOUS
  <2>2. PICK x \in Nat : x = sums[i]
    BY <2>1
  <2>3. PICK y \in Nat : y = x * Grain
    BY <1>1
  <2>4. x * (Grain * Grain) = y * Grain
    <3>1. (x * Grain) * Grain = x * (Grain * Grain)
      BY <1>1
    <3>2. QED
      BY <2>3, <3>1
  <2>5. ASSUME ~ (y < b) PROVE FALSE
    <3>1. c <= y
      BY <1>5, <2>5
    <3>2. c * rand <= y * Grain /\ y * Grain \in Nat
      BY <1>1, <3>1, TimesGrows
    <3>3. y * Grain < c * rand
      BY <1>9, <2>2, <2>4
    <3> HIDE <2>4, <2>3
    <3>4. QED
      BY <1>7, <3>2, <3>3
  <2>6. QED
    BY <2>2, <2>3, <2>5
<1>10. QED
  BY <1>4, <1>6, <1>7, <1>8, <1>9

-----------------------------------------------------------------------------
\* A row of a call, and the exponents of its logits.
LEMMA RowIs ==
  ASSUME NEW r \in SampledRow, NEW n, n = Len(r.logits)
  PROVE  /\ r.logits \in Seq(Int) \ {<< >>} /\ r.logits \in [1 .. n -> Int]
         /\ n \in Nat \ {0} /\ DOMAIN r.logits = 1 .. n
         /\ r.inv_temp \in Nat /\ r.top_p \in Nat /\ r.top_k \in Int
         /\ Best(r) \in Int
<1>1. /\ r.logits \in Seq(Int) \ {<< >>}
      /\ r.inv_temp \in Nat /\ r.top_p \in Nat /\ r.top_k \in Int
  BY DEF SampledRow
<1>2. PICK s : s = r.logits
  OBVIOUS
<1>3. s \in Seq(Int) /\ s # << >> /\ n = Len(s)
  BY <1>1, <1>2
<1>4. s \in [1 .. n -> Int] /\ n \in Nat \ {0} /\ DOMAIN s = 1 .. n
  BY <1>3
<1>5. Best(r) \in Int
  BY <1>1, BestIs
<1>6. QED
  BY <1>1, <1>2, <1>4, <1>5

LEMMA ExponentGrows ==
  ASSUME NEW r \in SampledRow, NEW device, NEW x \in Int, NEW y \in Int, x < y
  PROVE  /\ Exponent(device, r, x) \in Int /\ Exponent(device, r, y) \in Int
         /\ Exponent(device, r, x) < Exponent(device, r, y)
<1>1. Best(r) \in Int /\ r.inv_temp \in Nat
  BY RowIs
<1>2. One \in Nat \ {0}
  BY SamplerAssumption
<1>3. PICK scale \in Nat \ {0} : scale = IF r.inv_temp = 0 THEN One ELSE r.inv_temp
  BY <1>1, <1>2
<1>4. PICK b \in Int : b = Best(r)
  BY <1>1
<1>5. \A v : Exponent(device, r, v) =
        IF device = "cpu" THEN (v - b) * scale ELSE v * scale - b * One
  BY <1>3, <1>4 DEF Exponent
<1>6. \A u, v \in Int : u < v => /\ u * scale \in Int /\ v * scale \in Int
                                 /\ u * scale < v * scale
  <2>1. ASSUME NEW u \in Int, NEW v \in Int, u < v
        PROVE  /\ u * scale \in Int /\ v * scale \in Int /\ u * scale < v * scale
    <3>1. PICK d \in Nat \ {0} : v = u + d
      <4>1. v - u \in Nat \ {0} /\ v = u + (v - u)
        BY <2>1
      <4>2. QED
        BY <4>1
    <3>2. v * scale = u * scale + d * scale
      BY <3>1
    <3>3. u * scale \in Int /\ d * scale \in Nat /\ d * scale # 0
      BY <3>1
    <3>4. QED
      BY <3>2, <3>3
  <2>2. QED
    BY <2>1
<1>7. CASE device = "cpu"
  <2>1. x - b \in Int /\ y - b \in Int /\ x - b < y - b
    BY <1>4
  <2>2. QED
    BY <1>5, <1>6, <1>7, <2>1
<1>8. CASE device # "cpu"
  <2>1. b * One \in Int
    BY <1>2, <1>4
  <2>2. x * scale \in Int /\ y * scale \in Int /\ x * scale < y * scale
    BY <1>6
  <2>3. x * scale - b * One < y * scale - b * One
    <3>1. PICK p \in Int, q \in Int, z \in Int : p = x * scale /\ q = y * scale /\ z = b * One
      BY <2>1, <2>2
    <3>2. p < q
      BY <2>2, <3>1
    <3>3. p - z < q - z
      BY ONLY <3>2, p \in Int, q \in Int, z \in Int
    <3>4. QED
      BY <3>1, <3>3
  <2>4. QED
    BY <1>5, <1>8, <2>1, <2>2, <2>3
<1>9. QED
  BY <1>7, <1>8

\* On the CPU no exponent is positive, and that of the largest logit is 0.
LEMMA CpuExponents ==
  ASSUME NEW r \in SampledRow, NEW i \in DOMAIN r.logits
  PROVE  /\ Exponent("cpu", r, r.logits[i]) <= 0
         /\ Exponent("cpu", r, r.logits[i]) \in Int
         /\ Exponent("cpu", r, Best(r)) = 0
<1>1. /\ Best(r) \in Int /\ r.inv_temp \in Nat /\ r.logits[i] \in Int
      /\ r.logits \in Seq(Int) \ {<< >>}
  <2>1. r.logits \in [1 .. Len(r.logits) -> Int] /\ DOMAIN r.logits = 1 .. Len(r.logits)
    BY RowIs
  <2>2. r.logits[i] \in Int
    BY <2>1
  <2>3. QED
    BY <2>2, RowIs
<1>2. r.logits[i] <= Best(r)
  BY <1>1, BestIs
<1>3. Exponent("cpu", r, Best(r)) = 0
  <2>1. PICK b \in Int : b = Best(r)
    BY <1>1
  <2>2. PICK scale \in Nat : scale = IF r.inv_temp = 0 THEN One ELSE r.inv_temp
    BY <1>1, SamplerAssumption
  <2>3. Exponent("cpu", r, b) = (b - b) * scale
    BY <2>1, <2>2 DEF Exponent
  <2>4. (b - b) * scale = 0
    OBVIOUS
  <2>5. QED
    BY <2>1, <2>3, <2>4
<1>4. CASE r.logits[i] = Best(r)
  BY <1>3, <1>4
<1>5. CASE r.logits[i] # Best(r)
  <2>1. r.logits[i] < Best(r)
    BY <1>1, <1>2, <1>5
  <2>2. /\ Exponent("cpu", r, r.logits[i]) \in Int
        /\ Exponent("cpu", r, r.logits[i]) < Exponent("cpu", r, Best(r))
    BY <1>1, <2>1, ExponentGrows
  <2>3. QED
    BY <1>3, <2>2
<1>6. QED
  BY <1>3, <1>4, <1>5

\* A row whose logits have a weight on a device.
Powers(device, r) ==
  \A i \in DOMAIN r.logits : Exponent(device, r, r.logits[i]) \in DOMAIN Exp

\* A row of a call is one the lemmas are about.
LEMMA RowOfCall ==
  ASSUME NEW b \in Batches, NEW i \in DOMAIN b.rows
  PROVE  /\ b.rows[i] \in SampledRow /\ Powers(b.device, b.rows[i])
         /\ b.op \in {"argmax", "sample"} /\ b.device \in {"cpu", "gpu"}
         /\ b.rows \in Seq(SampledRow)
<1>1. b \in SampleCall
  BY SamplerAssumption
<1>2. /\ b.rows \in Seq(SampledRow)
      /\ b.op \in {"argmax", "sample"} /\ b.device \in {"cpu", "gpu"}
  BY <1>1 DEF SampleCall
<1>3. b.rows[i] \in SampledRow /\ b.rows[i] \in ToSet(b.rows)
  BY <1>2 DEF ToSet
<1>4. \A x \in ToSet(b.rows[i].logits) : Exponent(b.device, b.rows[i], x) \in DOMAIN Exp
  BY <1>3, SamplerAssumption
<1>5. Powers(b.device, b.rows[i])
  BY <1>4 DEF Powers, ToSet
<1>6. QED
  BY <1>2, <1>3, <1>5

\* What is ahead of a position of the sorted logits is in front of it.
LEMMA AheadIsInFront ==
  ASSUME NEW r \in SampledRow, NEW n, n = Len(r.logits), NEW o \in Descending(r.logits),
         NEW i \in 1 .. n
  PROVE  Ahead(r, o[i]) \in SUBSET FrontOf(o, i - 1)
<1>1. PICK s : s = r.logits
  OBVIOUS
<1>2. /\ s \in [1 .. n -> Int] /\ n \in Nat /\ DOMAIN s = 1 .. n /\ o \in Descending(s)
  BY <1>1, RowIs
<1>3. Ordering(o, n) /\ \A j, k \in 1 .. n : j <= k => s[o[j]] >= s[o[k]]
  BY <1>2, SortedOrder
<1>4. o \in [1 .. n -> 1 .. n] /\ \A x \in 1 .. n : \E j \in 1 .. n : o[j] = x
  BY <1>3 DEF Ordering
<1>5. ASSUME NEW x \in Ahead(r, o[i]) PROVE x \in FrontOf(o, i - 1)
  <2>1. x \in 1 .. n /\ s[x] > s[o[i]]
    BY <1>1, <1>2 DEF Ahead
  <2>2. PICK j \in 1 .. n : o[j] = x
    BY <1>4, <2>1
  <2>3. ~ (i <= j)
    <3>1. s[o[i]] \in Int /\ s[x] \in Int
      BY <1>2, <1>4, <2>1
    <3>2. i <= j => s[o[i]] >= s[x]
      BY <1>3, <2>2
    <3>3. QED
      BY <2>1, <3>1, <3>2
  <2>4. j \in 1 .. i - 1
    BY <1>2, <2>3
  <2>5. QED
    BY <2>2, <2>4 DEF FrontOf
<1>6. QED
  BY <1>5

\* Where a larger logit is heavier, unless neither weighs anything, so is what
\* is ahead of a position of the sorted weights that weighs something.
LEMMA HeavierIsInFront ==
  ASSUME NEW r \in SampledRow, NEW n, n = Len(r.logits), NEW w \in [1 .. n -> Nat],
         \A x, y \in 1 .. n : r.logits[x] > r.logits[y] => w[x] > w[y] \/ w[y] = 0,
         NEW o \in Descending(w), NEW i \in 1 .. n, w[o[i]] # 0
  PROVE  Ahead(r, o[i]) \in SUBSET FrontOf(o, i - 1)
<1>1. n \in Nat /\ DOMAIN r.logits = 1 .. n
  BY RowIs
<1>2. Ordering(o, n) /\ \A j, k \in 1 .. n : j <= k => w[o[j]] >= w[o[k]]
  <2>1. w \in [1 .. n -> Int]
    OBVIOUS
  <2>2. QED
    BY <1>1, <2>1, SortedOrder
<1>3. o \in [1 .. n -> 1 .. n] /\ \A x \in 1 .. n : \E j \in 1 .. n : o[j] = x
  BY <1>2 DEF Ordering
<1>4. ASSUME NEW x \in Ahead(r, o[i]) PROVE x \in FrontOf(o, i - 1)
  <2>1. x \in 1 .. n /\ w[x] > w[o[i]]
    <3>1. x \in 1 .. n /\ r.logits[x] > r.logits[o[i]] /\ o[i] \in 1 .. n
      BY <1>1, <1>3 DEF Ahead
    <3>2. QED
      BY <3>1
  <2>2. PICK j \in 1 .. n : o[j] = x
    BY <1>3, <2>1
  <2>3. ~ (i <= j)
    <3>1. w[o[i]] \in Nat /\ w[x] \in Nat
      BY <1>3, <2>1
    <3>2. i <= j => w[o[i]] >= w[x]
      BY <1>2, <2>2
    <3>3. QED
      BY <2>1, <3>1, <3>2
  <2>4. j \in 1 .. i - 1
    BY <1>1, <2>3
  <2>5. QED
    BY <2>2, <2>4 DEF FrontOf
<1>5. QED
  BY <1>4

\* If anything weighs something, the first of the sorted weights does.
LEMMA HeaviestWeighs ==
  ASSUME NEW n \in Nat \ {0}, NEW w \in [1 .. n -> Nat], NEW o \in Descending(w),
         SumFunctionOnSet(w, 1 .. n) # 0
  PROVE  w[o[1]] # 0
<1>1. Ordering(o, n) /\ \A j, k \in 1 .. n : j <= k => w[o[j]] >= w[o[k]]
  <2>1. w \in [1 .. n -> Int]
    OBVIOUS
  <2>2. QED
    BY <2>1, SortedOrder
<1>2. o \in [1 .. n -> 1 .. n]
  BY <1>1 DEF Ordering
<1> DEFINE Some == {i \in 1 .. n : FrontMass(w, o, i) # 0}
<1>3. n \in Some
  <2>1. n \in 1 .. n
    OBVIOUS
  <2>2. FrontMass(w, o, n) = SumFunctionOnSet(w, 1 .. n)
    BY <1>1, <2>1, FrontOfAll
  <2>3. QED
    BY <2>1, <2>2
<1>4. PICK i \in Some : \A j \in Some : i <= j
  <2>1. Some \in SUBSET Nat /\ Some # {}
    BY <1>3
  <2> HIDE DEF Some
  <2>2. QED
    BY <2>1, MinOfNats
<1>5. i \in 1 .. n /\ FrontMass(w, o, i) # 0
  BY <1>4
<1>6. /\ FrontMass(w, o, i) = FrontMass(w, o, i - 1) + w[o[i]]
      /\ FrontMass(w, o, i - 1) \in Nat
  BY <1>1, <1>5, FrontMassGrows
<1>7. FrontMass(w, o, i - 1) = 0
  <2>1. CASE i = 1
    <3>1. FrontOf(o, i - 1) = {}
      BY <2>1 DEF FrontOf
    <3>2. QED
      BY <3>1, SumOfNone DEF FrontMass
  <2>2. CASE i # 1
    <3>1. i - 1 \in 1 .. n /\ ~ (i <= i - 1)
      BY <1>5, <2>2
    <3>2. i - 1 \notin Some
      BY <1>4, <3>1
    <3>3. QED
      BY <3>1, <3>2
  <2>3. QED
    BY <2>1, <2>2
<1>8. 1 \in 1 .. n /\ 1 <= i /\ w[o[i]] \in Nat /\ w[o[1]] \in Nat
  BY <1>2, <1>5
<1>9. w[o[i]] # 0
  BY <1>5, <1>6, <1>7, <1>8
<1>10. w[o[1]] >= w[o[i]]
  BY <1>1, <1>5, <1>8
<1>11. QED
  BY <1>8, <1>9, <1>10

\* A sum that is below the limit.
Short(sums, i, limit) == sums[i] * (Grain * Grain) < limit

\* The first sum to reach the limit is that of a token which top_k and top_p
\* leave, if what is ahead of the token is in front of it.
LEMMA FirstReachingLeft ==
  ASSUME NEW device, NEW r \in SampledRow, NEW n, n = Len(r.logits),
         NEW w \in [1 .. n -> Nat], w = Weights(device, r), NEW o, Ordering(o, n),
         NEW sums, sums = Masses(w, o, n), NEW rand \in 0 .. Grain,
         NEW k, k = Kept(r.top_k, n), NEW limit, limit = Limit(sums, k, r.top_p, rand),
         NEW i \in 1 .. k, i # 1 => Short(sums, i - 1, limit),
         Ahead(r, o[i]) \in SUBSET FrontOf(o, i - 1)
  PROVE  Left(device, r, o[i])
<1>1. /\ n \in Nat \ {0} /\ DOMAIN r.logits = 1 .. n
      /\ r.top_p \in Nat /\ r.top_k \in Int
  BY RowIs
<1>2. k \in 1 .. n
  BY <1>1 DEF Kept
<1>3. i \in 1 .. n /\ i <= k /\ i \in Nat /\ k \in Nat
  BY <1>1, <1>2
<1>4. o \in [1 .. n -> 1 .. n]
  BY DEF Ordering
<1>5. sums \in [1 .. n -> Nat] /\ \A j \in 1 .. n : sums[j] = FrontMass(w, o, j)
  <2>1. \A j \in 1 .. n : FrontMass(w, o, j) \in Nat
    BY <1>1, FrontMassGrows
  <2>2. QED
    BY <2>1 DEF Masses
<1>6. IsFiniteSet(1 .. n)
  BY <1>1, 1 \in Int, n \in Int, FS_Interval
<1>7. CASE i = 1
  <2>1. FrontOf(o, i - 1) = {}
    BY <1>7 DEF FrontOf
  <2>2. Ahead(r, o[i]) = {}
    BY <2>1
  <2>3. QED
    BY <2>2 DEF Left
<1>8. CASE i # 1
  <2> DEFINE front == FrontOf(o, i - 1)
  <2>1. i - 1 \in 1 .. n /\ i - 1 \in Nat /\ i - 1 < k
    BY <1>1, <1>3, <1>8
  <2>2. front \in SUBSET (1 .. n) /\ IsFiniteSet(front)
    <3>1. \A j \in 1 .. i - 1 : o[j] \in 1 .. n
      <4>1. \A j \in 1 .. i - 1 : j \in 1 .. n
        BY <1>1, <2>1
      <4>2. QED
        BY <1>4, <4>1
    <3>2. front \in SUBSET (1 .. n)
      BY <3>1 DEF FrontOf
    <3>3. QED
      BY <1>6, <3>2, FS_Subset
  <2>3. Cardinality(front) <= i - 1
    <3>1. IsFiniteSet(1 .. i - 1) /\ Cardinality(1 .. i - 1) = i - 1
      <4>1. 1 \in Int /\ i - 1 \in Int /\ ~ (1 > i - 1)
        BY <2>1
      <4>2. /\ IsFiniteSet(1 .. i - 1)
            /\ Cardinality(1 .. i - 1) = IF 1 > i - 1 THEN 0 ELSE (i - 1) - 1 + 1
        BY <4>1, FS_Interval
      <4>3. QED
        BY <2>1, <4>1, <4>2
    <3> DEFINE f == [j \in 1 .. i - 1 |-> o[j]]
    <3>2. f \in Surjection(1 .. i - 1, front)
      BY DEF Surjection, FrontOf
    <3> HIDE DEF f
    <3>3. QED
      BY <3>1, <3>2, FS_Surjection
  <2>4. Cardinality(Ahead(r, o[i])) < k
    <3>1. /\ Cardinality(Ahead(r, o[i])) <= Cardinality(front)
          /\ Cardinality(Ahead(r, o[i])) \in Nat /\ Cardinality(front) \in Nat
      BY <2>2, FS_Subset, FS_CardinalityType
    <3>2. QED
      BY <1>3, <2>1, <2>3, <3>1
  <2>5. Mass(device, r, Ahead(r, o[i])) <= sums[i - 1]
        /\ Mass(device, r, Ahead(r, o[i])) \in Nat
    <3>1. \A x \in front : w[x] \in Nat
      BY <2>2
    <3>2. SumFunctionOnSet(w, Ahead(r, o[i])) <= SumFunctionOnSet(w, front)
      BY <2>2, <3>1, SumOfPart
    <3>3. SumFunctionOnSet(w, Ahead(r, o[i])) \in Nat
      <4>1. IsFiniteSet(Ahead(r, o[i]))
        BY <2>2, FS_Subset
      <4>2. \A x \in Ahead(r, o[i]) : w[x] \in Nat
        BY <3>1
      <4>3. QED
        BY <4>1, <4>2, SumOfNats
    <3>4. sums[i - 1] = SumFunctionOnSet(w, front)
      BY <1>5, <2>1 DEF FrontMass
    <3>5. QED
      BY <3>2, <3>3, <3>4 DEF Mass
  <2>6. sums[n] = Mass(device, r, DOMAIN r.logits)
    <3>1. n \in 1 .. n /\ n \in Nat
      BY <1>1
    <3>2. FrontMass(w, o, n) = SumFunctionOnSet(w, 1 .. n)
      BY <3>1, FrontOfAll
    <3>3. QED
      BY <1>1, <1>5, <3>1, <3>2 DEF Mass
  <2>7. sums[i - 1] * Grain < sums[n] * r.top_p
    <3>1. sums[i - 1] * (Grain * Grain) < Limit(sums, k, r.top_p, rand)
      BY <1>8 DEF Short
    <3>2. QED
      BY <1>1, <1>2, <1>5, <2>1, <3>1, LimitBounds
  <2>8. Mass(device, r, Ahead(r, o[i])) * Grain < Mass(device, r, DOMAIN r.logits) * r.top_p
    <3>1. PICK a \in Nat : a = Mass(device, r, Ahead(r, o[i]))
      BY <2>5
    <3>2. PICK b \in Nat : b = sums[i - 1]
      BY <1>5, <2>1
    <3>3. Grain \in Nat
      BY SamplerAssumption
    <3>4. a <= b
      BY <2>5, <3>1, <3>2
    <3>5. PICK c \in Nat : c = sums[n] * r.top_p
      <4>1. sums[n] \in Nat
        BY <1>1, <1>5
      <4>2. QED
        BY <1>1, <4>1
    <3>6. b * Grain < c
      BY <2>7, <3>2, <3>5
    <3>7. a * Grain <= b * Grain /\ a * Grain \in Nat /\ b * Grain \in Nat
      <4>1. Grain <= Grain
        BY <3>3
      <4>2. QED
        BY <3>3, <3>4, <4>1, TimesGrows
    <3>8. a * Grain < c
      <4>1. PICK x \in Nat, y \in Nat : x = a * Grain /\ y = b * Grain
        BY <3>7
      <4>2. x <= y /\ y < c
        BY <3>6, <3>7, <4>1
      <4>3. x < c
        BY ONLY <4>2, x \in Nat, y \in Nat, c \in Nat
      <4>4. QED
        BY <4>1, <4>3
    <3>9. QED
      BY <2>6, <3>1, <3>5, <3>8
  <2>9. QED
    BY <2>4, <2>8 DEF Left
<1>9. QED
  BY <1>7, <1>8

-----------------------------------------------------------------------------
LEMMA FirstIs ==
  ASSUME NEW places \in SUBSET Nat, places # {}, NEW otherwise
  PROVE  /\ First(places, otherwise) \in places
         /\ \A j \in places : First(places, otherwise) <= j
<1>1. \E i \in places : \A j \in places : i <= j
  BY MinOfNats
<1>2. First(places, otherwise) = CHOOSE i \in places : \A j \in places : i <= j
  BY Zenon DEF First
<1>3. QED
  BY <1>1, <1>2

\* Sums of naturals reach the limit where no fewer steps are enough.
LEMMA ReachingIs ==
  ASSUME NEW n \in Nat, NEW sums \in [1 .. n -> Nat], NEW limit \in Nat, NEW j \in 1 .. n
  PROVE  LET reached == Times(sums[j], Grain * Grain) IN
         /\ sums[j] * (Grain * Grain) \in Nat
         /\ UpTo(limit, reached) <=> ~Short(sums, j, limit)
         /\ Below(reached, limit) <=> Short(sums, j, limit)
<1>1. /\ sums[j] \in Nat /\ Grain \in Nat
      /\ NotANumber \notin Int /\ Infinite \notin Int
  BY SamplerAssumption
<1>2. Grain * Grain \in Nat
  BY <1>1
<1>3. PICK x \in Nat : x = sums[j] * (Grain * Grain)
  BY <1>1, <1>2
<1>4. Times(sums[j], Grain * Grain) = x
  BY <1>1, <1>3 DEF Times
<1>5. Below(x, limit) <=> x < limit
  BY BelowOfInts
<1>6. UpTo(limit, x) <=> ~Below(x, limit)
  <2>1. NotANumber # limit /\ NotANumber # x
    BY <1>1
  <2>2. QED
    BY <2>1, Zenon DEF UpTo
<1>7. Short(sums, j, limit) <=> x < limit
  BY <1>3 DEF Short
<1>8. QED
  BY <1>3, <1>4, <1>5, <1>6, <1>7

\* The places up to m whose sums reach the limit.
Reached(sums, limit, m) == {j \in 1 .. m : ~Short(sums, j, limit)}

\* The last sum that top_k leaves reaches the limit; so the first place that
\* does is one of those, and what comes before it falls short.
LEMMA ReachingFirst ==
  ASSUME NEW n \in Nat, NEW sums \in [1 .. n -> Nat], NEW k \in 1 .. n,
         NEW p \in Nat, NEW rand \in 0 .. Grain,
         NEW limit, limit = Limit(sums, k, p, rand),
         NEW m \in k .. n, NEW i, NEW otherwise,
         i = First(Reached(sums, limit, m), otherwise)
  PROVE  /\ i \in 1 .. k /\ i \in 1 .. n
         /\ ~Short(sums, i, limit)
         /\ i # 1 => Short(sums, i - 1, limit)
<1> DEFINE places == Reached(sums, limit, m)
<1>0. /\ places \in SUBSET (1 .. m)
      /\ \A j \in 1 .. m : j \in places <=> ~Short(sums, j, limit)
  BY DEF Reached
<1>1. limit \in Nat /\ limit <= sums[k] * (Grain * Grain)
  <2>1. n \in Nat \ {0}
    OBVIOUS
  <2>2. QED
    BY <2>1, LimitBounds
<1> HIDE DEF places
<1>2. k \in 1 .. m /\ k \in places
  <2>1. k \in 1 .. m
    OBVIOUS
  <2>2. PICK x \in Nat : x = sums[k] * (Grain * Grain)
    BY <1>1, ReachingIs
  <2>3. ~ (x < limit)
    BY ONLY <1>1, <2>2, x \in Nat
  <2>4. ~Short(sums, k, limit)
    BY <2>2, <2>3 DEF Short
  <2>5. QED
    BY <1>0, <2>1, <2>4
<1>3. i \in places /\ \A j \in places : i <= j
  <2>1. places \in SUBSET Nat
    BY <1>0
  <2>2. i = First(places, otherwise)
    BY DEF places
  <2>3. QED
    BY <1>2, <2>1, <2>2, FirstIs
<1>4. i \in 1 .. m /\ i <= k /\ i \in 1 .. k /\ i \in 1 .. n
  <2>1. i \in 1 .. m /\ i <= k
    BY <1>0, <1>2, <1>3
  <2>2. QED
    BY <2>1
<1>5. i # 1 => i - 1 \in 1 .. m /\ ~ (i <= i - 1)
  BY <1>4
<1>6. QED
  BY <1>0, <1>3, <1>4, <1>5

-----------------------------------------------------------------------------
\* The kernel's weights, if none is infinite: a larger logit is heavier, unless
\* neither weighs anything.
LEMMA GpuWeightsAre ==
  ASSUME NEW r \in SampledRow, Powers("gpu", r), NEW n, n = Len(r.logits),
         NEW w, w = Weights("gpu", r), Infinite \notin ToSet(w)
  PROVE  /\ w \in [1 .. n -> Nat]
         /\ \A x, y \in 1 .. n : r.logits[x] > r.logits[y] => w[x] > w[y] \/ w[y] = 0
<1>1. /\ r.logits \in [1 .. n -> Int] /\ DOMAIN r.logits = 1 .. n
  BY RowIs
<1>2. w = [i \in 1 .. n |-> Exp[Exponent("gpu", r, r.logits[i])]]
  BY <1>1 DEF Weights
<1>3. ASSUME NEW i \in 1 .. n PROVE w[i] \in Nat /\ w[i] = Exp[Exponent("gpu", r, r.logits[i])]
  <2>1. w[i] = Exp[Exponent("gpu", r, r.logits[i])] /\ i \in DOMAIN w
    BY <1>2
  <2>2. w[i] # Infinite
    BY <2>1 DEF ToSet
  <2>3. Exponent("gpu", r, r.logits[i]) \in DOMAIN Exp
    BY <1>1 DEF Powers
  <2>4. Exp[Exponent("gpu", r, r.logits[i])] \in Nat \cup {Infinite}
    BY <2>3, SamplerAssumption
  <2>5. QED
    BY <2>1, <2>2, <2>4
<1>4. w \in [1 .. n -> Nat]
  BY <1>2, <1>3
<1>5. ASSUME NEW x \in 1 .. n, NEW y \in 1 .. n, r.logits[x] > r.logits[y]
      PROVE  w[x] > w[y] \/ w[y] = 0
  <2>1. PICK e, f : e = Exponent("gpu", r, r.logits[y]) /\ f = Exponent("gpu", r, r.logits[x])
    OBVIOUS
  <2>2. e \in DOMAIN Exp /\ f \in DOMAIN Exp
    BY <1>1, <2>1 DEF Powers
  <2>3. e < f
    <3>1. r.logits[x] \in Int /\ r.logits[y] \in Int /\ r.logits[y] < r.logits[x]
      BY <1>1, <1>5
    <3>2. QED
      BY <2>1, <3>1, ExponentGrows
  <2>4. Below(Exp[e], Exp[f]) \/ (Exp[e] = Exp[f] /\ Exp[e] \in {0, Infinite})
    BY <2>2, <2>3, SamplerAssumption
  <2>5. w[y] = Exp[e] /\ w[x] = Exp[f] /\ w[y] \in Nat /\ w[x] \in Nat
    BY <1>3, <2>1
  <2>6. Infinite \notin Nat
    BY SamplerAssumption
  <2>7. Below(w[y], w[x]) => w[y] < w[x]
    BY <2>5, BelowOfInts
  <2>8. QED
    BY <2>4, <2>5, <2>6, <2>7
<1>6. QED
  BY <1>4, <1>5

\* A row whose weights the kernel cannot sum.
Unsummed(r) == \/ Infinite \in ToSet(Weights("gpu", r))
               \/ Mass("gpu", r, DOMAIN r.logits) \notin 1 .. MaxFloat

\* What the GPU samples is a token of the row, and left by top_k and top_p if
\* the weights can be summed.
LEMMA GpuSampleLeft ==
  ASSUME NEW r \in SampledRow, Powers("gpu", r), NEW rand \in 0 .. Grain,
         NEW n, n = Len(r.logits), NEW o \in Stable(Weights("gpu", r)),
         NEW sums, sums = GpuSums(Weights("gpu", r), o), NEW k, k = Kept(r.top_k, n),
         NEW limit, limit = Limit(sums, k, r.top_p, rand),
         NEW i, i = First(GpuReaching(sums, k, limit), k + 1),
         NEW at, at = IF i > n THEN n ELSE i
  PROVE  /\ o[at] \in DOMAIN r.logits
         /\ Left("gpu", r, o[at]) \/ Unsummed(r)
<1>1. /\ n \in Nat \ {0} /\ DOMAIN r.logits = 1 .. n
      /\ r.top_p \in Nat /\ r.top_k \in Int
  BY RowIs
<1>2. k \in 1 .. n /\ k \in Nat
  BY <1>1 DEF Kept
<1>3. PICK w : w = Weights("gpu", r)
  OBVIOUS
<1>4. DOMAIN w = 1 .. n /\ o \in Descending(w)
  BY <1>1, <1>3 DEF Weights, Stable
<1>5. Ordering(o, n) /\ o \in [1 .. n -> 1 .. n]
  <2>1. Ordering(o, n)
    BY <1>1, <1>4, SortIsOrdering
  <2>2. QED
    BY <2>1 DEF Ordering
<1>6. PICK places : places = GpuReaching(sums, k, limit)
  OBVIOUS
<1>7. places \in SUBSET (1 .. k) /\ i = First(places, k + 1)
  BY <1>6 DEF GpuReaching
<1>8. i \in 1 .. k + 1
  <2>1. CASE places = {}
    <3>1. First(places, k + 1) = k + 1
      BY <2>1 DEF First
    <3>2. QED
      BY <1>2, <1>7, <3>1
  <2>2. CASE places # {}
    <3>1. places \in SUBSET Nat
      BY <1>1, <1>2, <1>7
    <3>2. First(places, k + 1) \in places
      BY <2>2, <3>1, FirstIs
    <3>3. First(places, k + 1) \in 1 .. k
      BY <1>7, <3>2
    <3>4. QED
      BY <1>2, <1>7, <3>3
  <2>3. QED
    BY <2>1, <2>2
<1>9. at \in 1 .. n
  BY <1>1, <1>2, <1>8
<1>10. ASSUME ~Unsummed(r) PROVE Left("gpu", r, o[at])
  <2>1. /\ w \in [1 .. n -> Nat]
        /\ \A x, y \in 1 .. n : r.logits[x] > r.logits[y] => w[x] > w[y] \/ w[y] = 0
    BY <1>3, <1>10, GpuWeightsAre DEF Unsummed
  <2>2. SumFunctionOnSet(w, 1 .. n) \in 1 .. MaxFloat
    BY <1>1, <1>3, <1>10 DEF Unsummed, Mass
  <2>3. MaxFloat \in Nat
    BY SamplerAssumption
  <2>4. sums = Masses(w, o, n)
    <3>1. SumFunctionOnSet(w, 1 .. n) <= MaxFloat /\ n \in Nat
      BY <1>1, <2>2, <2>3
    <3>2. GpuSums(w, o) = Masses(w, o, n)
      BY ONLY <1>5, <2>1, <3>1, GpuSumsAreMasses
    <3>3. QED
      BY <1>3, <3>2
  <2>5. sums \in [1 .. n -> Nat] /\ \A j \in 1 .. n : sums[j] = FrontMass(w, o, j)
    <3>1. \A j \in 1 .. n : FrontMass(w, o, j) \in Nat
      BY <1>1, <1>5, <2>1, FrontMassGrows
    <3>2. QED
      BY <2>4, <3>1 DEF Masses
  <2>6. limit \in Nat
    BY <1>1, <1>2, <2>5, LimitBounds
  <2>7. places = Reached(sums, limit, k)
    <3>1. \A j \in 1 .. k : j \in 1 .. n
      BY <1>1, <1>2
    <3>2. \A j \in 1 .. k : Below(Times(sums[j], Grain * Grain), limit) <=> Short(sums, j, limit)
      BY <1>1, <2>5, <2>6, <3>1, ReachingIs
    <3>3. QED
      BY <1>6, <3>2, Zenon DEF GpuReaching, Reached
  <2>8. i \in 1 .. k /\ i \in 1 .. n /\ ~Short(sums, i, limit)
        /\ (i # 1 => Short(sums, i - 1, limit))
    <3>1. k \in k .. n /\ n \in Nat /\ r.top_p \in Nat
      BY <1>1, <1>2
    <3>2. limit = Limit(sums, k, r.top_p, rand) /\ rand \in 0 .. Grain
      OBVIOUS
    <3>3. i = First(Reached(sums, limit, k), k + 1)
      BY <1>7, <2>7
    <3>4. QED
      BY ONLY <1>2, <2>5, <3>1, <3>2, <3>3, ReachingFirst
  <2>9. at = i
    BY <1>1, <2>8
  <2>10. w[o[i]] # 0
    <3>1. CASE i = 1
      <4>1. SumFunctionOnSet(w, 1 .. n) # 0
        BY <2>2, <2>3
      <4>2. w[o[1]] # 0
        BY ONLY <1>1, <1>4, <2>1, <4>1, HeaviestWeighs
      <4>3. QED
        BY <3>1, <4>2
    <3>2. CASE i # 1
      <4>1. i - 1 \in 1 .. n
        BY <1>1, <2>8, <3>2
      <4>2. /\ FrontMass(w, o, i) = FrontMass(w, o, i - 1) + w[o[i]]
            /\ FrontMass(w, o, i - 1) \in Nat
        <5>1. n \in Nat /\ i \in 1 .. n
          BY <1>1, <2>8
        <5>2. QED
          BY ONLY <1>5, <2>1, <5>1, FrontMassGrows
      <4>3. sums[i] # sums[i - 1]
        BY <2>8, <3>2 DEF Short
      <4>4. FrontMass(w, o, i) # FrontMass(w, o, i - 1)
        BY <2>5, <2>8, <4>1, <4>3
      <4>5. QED
        BY <4>2, <4>4
    <3>3. QED
      BY <3>1, <3>2
  <2>11. Ahead(r, o[i]) \in SUBSET FrontOf(o, i - 1)
    <3>1. r \in SampledRow /\ n = Len(r.logits)
      OBVIOUS
    <3>2. QED
      BY ONLY <1>4, <2>1, <2>8, <2>10, <3>1, HeavierIsInFront
  <2>12. Left("gpu", r, o[i])
    <3>1. /\ r \in SampledRow /\ n = Len(r.logits) /\ w = Weights("gpu", r)
          /\ rand \in 0 .. Grain /\ k = Kept(r.top_k, n)
          /\ limit = Limit(sums, k, r.top_p, rand)
      BY <1>3
    <3>2. QED
      BY ONLY <1>5, <2>1, <2>4, <2>8, <2>11, <3>1, FirstReachingLeft
  <2>13. QED
    BY <2>9, <2>12
<1>11. o[at] \in DOMAIN r.logits
  BY <1>1, <1>5, <1>9
<1>12. QED
  BY <1>10, <1>11

\* The sort of the CPU begins with a largest logit.
LEMMA BestFirst ==
  ASSUME NEW r \in SampledRow, NEW o \in Descending(r.logits)
  PROVE  /\ Ordering(o, Len(r.logits)) /\ o[1] \in DOMAIN r.logits
         /\ r.logits[o[1]] = Best(r) /\ Ahead(r, o[1]) = {}
<1>1. PICK n, s : n = Len(r.logits) /\ s = r.logits
  OBVIOUS
<1>2. /\ s \in Seq(Int) \ {<< >>} /\ s \in [1 .. n -> Int] /\ n \in Nat \ {0}
      /\ DOMAIN s = 1 .. n /\ Best(r) \in Int
  BY <1>1, RowIs
<1>3. 1 \in 1 .. n /\ n \in Nat
  BY <1>2
<1>4. Ordering(o, n)
  BY <1>1, <1>2, SortIsOrdering
<1>5. o[1] \in 1 .. n
  BY <1>3, <1>4 DEF Ordering
<1>6. Ahead(r, o[1]) = {}
  <2>1. FrontOf(o, 1 - 1) = {}
    BY DEF FrontOf
  <2>2. Ahead(r, o[1]) \in SUBSET FrontOf(o, 1 - 1)
    BY <1>1, <1>3, AheadIsInFront
  <2>3. QED
    BY <2>1, <2>2
<1>7. s[o[1]] = Best(r)
  <2>1. \A i \in 1 .. n : ~ (s[i] > s[o[1]])
    BY <1>1, <1>2, <1>6 DEF Ahead
  <2>2. PICK i \in 1 .. n : s[i] = Best(r)
    BY <1>1, <1>2, BestIs
  <2>3. s[o[1]] <= Best(r)
    BY <1>1, <1>2, <1>5, BestIs
  <2>4. s[o[1]] \in Int
    BY <1>2, <1>5
  <2>5. ~ (Best(r) > s[o[1]])
    BY <2>1, <2>2
  <2>6. QED
    BY <1>2, <2>3, <2>4, <2>5
<1>8. QED
  BY <1>1, <1>2, <1>4, <1>5, <1>6, <1>7

\* What the CPU samples at a temperature other than 0 is left by top_k and
\* top_p.
LEMMA CpuSampleLeft ==
  ASSUME NEW r \in SampledRow, Powers("cpu", r), r.inv_temp # 0, NEW rand \in 0 .. Grain,
         NEW n, n = Len(r.logits), NEW o \in Descending(r.logits),
         NEW sums, sums = CpuSums(CpuWeights(r), o), NEW k, k = Kept(r.top_k, n),
         NEW limit, limit = Limit(sums, k, r.top_p, rand),
         NEW i, i = First(CpuReaching(sums, limit), n)
  PROVE  o[i] \in DOMAIN r.logits /\ Left("cpu", r, o[i])
<1>1. /\ n \in Nat \ {0} /\ DOMAIN r.logits = 1 .. n
      /\ r.top_p \in Nat /\ r.top_k \in Int
  BY RowIs
<1>2. k \in 1 .. n /\ k \in Nat /\ n \in Nat
  BY <1>1 DEF Kept
<1>3. /\ Ordering(o, n) /\ o[1] \in DOMAIN r.logits /\ r.logits[o[1]] = Best(r)
  BY BestFirst
<1>4. o \in [1 .. n -> 1 .. n]
  BY <1>3 DEF Ordering
<1>5. PICK w : w = Weights("cpu", r)
  OBVIOUS
<1>6. CpuWeights(r) = w /\ w = [j \in 1 .. n |-> Exp[Exponent("cpu", r, r.logits[j])]]
  BY <1>1, <1>5 DEF CpuWeights, Weights
<1>7. w \in [1 .. n -> Nat]
  <2>1. ASSUME NEW j \in 1 .. n PROVE Exp[Exponent("cpu", r, r.logits[j])] \in Nat
    <3>1. /\ Exponent("cpu", r, r.logits[j]) \in DOMAIN Exp
          /\ Exponent("cpu", r, r.logits[j]) <= 0
      BY <1>1, CpuExponents DEF Powers
    <3>2. QED
      BY <3>1, SamplerAssumption
  <2>2. QED
    BY <1>6, <2>1
<1>8. w[o[1]] = Exp[0]
  <2>1. Exponent("cpu", r, r.logits[o[1]]) = 0
    BY <1>3, CpuExponents
  <2>2. QED
    BY <1>1, <1>3, <1>6, <2>1
<1>9. sums = Masses(w, o, n)
  <2>1. CpuSums(w, o) = Masses(w, o, n)
    BY ONLY <1>2, <1>3, <1>7, <1>8, CpuSumsAreMasses
  <2>2. QED
    BY <1>6, <2>1
<1>10. sums \in [1 .. n -> Nat]
  <2>1. \A j \in 1 .. n : FrontMass(w, o, j) \in Nat
    BY <1>2, <1>3, <1>7, FrontMassGrows
  <2>2. QED
    BY <1>9, <2>1 DEF Masses
<1>11. limit \in Nat
  BY <1>1, <1>2, <1>10, LimitBounds
<1>12. CpuReaching(sums, limit) = Reached(sums, limit, n)
  <2>1. DOMAIN sums = 1 .. n
    BY <1>10
  <2>2. \A j \in 1 .. n : UpTo(limit, Times(sums[j], Grain * Grain)) <=> ~Short(sums, j, limit)
    BY <1>2, <1>10, <1>11, ReachingIs
  <2>3. QED
    BY <2>1, <2>2, Zenon DEF CpuReaching, Reached
<1>13. i \in 1 .. k /\ i \in 1 .. n /\ (i # 1 => Short(sums, i - 1, limit))
  <2>1. n \in k .. n /\ r.top_p \in Nat
    BY <1>1, <1>2
  <2>2. limit = Limit(sums, k, r.top_p, rand) /\ rand \in 0 .. Grain
    OBVIOUS
  <2>3. i = First(Reached(sums, limit, n), n)
    BY <1>12
  <2>4. QED
    BY ONLY <1>2, <1>10, <2>1, <2>2, <2>3, ReachingFirst
<1>14. Ahead(r, o[i]) \in SUBSET FrontOf(o, i - 1)
  BY <1>13, AheadIsInFront
<1>15. Left("cpu", r, o[i])
  <2>1. /\ r \in SampledRow /\ n = Len(r.logits) /\ rand \in 0 .. Grain
        /\ k = Kept(r.top_k, n) /\ limit = Limit(sums, k, r.top_p, rand)
    OBVIOUS
  <2>2. QED
    BY ONLY <1>3, <1>5, <1>7, <1>9, <1>13, <1>14, <2>1, FirstReachingLeft
<1>16. QED
  BY <1>1, <1>4, <1>13, <1>15

\* Two tokens of a row that nothing is ahead of.
Tie(r) == \E a, b \in DOMAIN r.logits : a # b /\ Ahead(r, a) = {} /\ Ahead(r, b) = {}

\* At temperature 0 the CPU takes the largest logit, unless two are.
LEMMA CpuColdLeft ==
  ASSUME NEW r \in SampledRow, Powers("cpu", r), r.inv_temp = 0, NEW rand \in 0 .. Grain,
         NEW n, n = Len(r.logits), NEW o \in Descending(r.logits),
         NEW sums, sums = CpuSums(CpuWeights(r), o), NEW k, k = Kept(r.top_k, n),
         NEW limit, limit = Limit(sums, k, r.top_p, rand),
         NEW i, i = First(CpuReaching(sums, limit), n)
  PROVE  o[i] \in DOMAIN r.logits /\ (Left("cpu", r, o[i]) \/ Tie(r))
<1> DEFINE w == CpuWeights(r)
           step(f, j) == IF j = 1 THEN Exp[0] ELSE Plus(f[j - 1], w[o[j]])
           P(f) == f = [j \in DOMAIN o |-> step(f, j)]
           c == Exp[0]
<1>1. /\ n \in Nat \ {0} /\ DOMAIN r.logits = 1 .. n /\ r.logits \in [1 .. n -> Int]
      /\ r.top_p \in Nat /\ r.top_k \in Int
  BY RowIs
<1>2. k \in 1 .. n /\ k \in Nat /\ n \in Nat /\ 1 \in 1 .. n
  BY <1>1 DEF Kept
<1>3. /\ Ordering(o, n) /\ o[1] \in DOMAIN r.logits
      /\ r.logits[o[1]] = Best(r) /\ Ahead(r, o[1]) = {}
  BY BestFirst
<1>4. /\ o \in [1 .. n -> 1 .. n] /\ DOMAIN o = 1 .. n
      /\ \A j, m \in 1 .. n : o[j] = o[m] => j = m
  BY <1>3 DEF Ordering
<1>5. \A j \in 1 .. n : w[o[j]] = IF r.logits[o[j]] = Best(r) THEN NotANumber ELSE 0
  BY <1>1, <1>4 DEF CpuWeights
<1>6. sums = CHOOSE f : P(f)
  BY Zenon DEF CpuSums
<1>7. c \in Nat /\ NotANumber \notin Nat /\ Infinite \notin Nat /\ Grain \in Nat
  <2>1. 0 \in DOMAIN Exp /\ 0 <= 0
    BY SamplerAssumption
  <2>2. QED
    BY <2>1, SamplerAssumption
<1> HIDE DEF w
<1>8. \A j \in 2 .. n : j \in 1 .. n /\ j # 1 /\ j - 1 \in 1 .. n
  BY <1>1
<1>9. CASE \E j \in 2 .. n : r.logits[o[j]] = Best(r)
  <2>1. PICK j \in 2 .. n : r.logits[o[j]] = Best(r)
    BY <1>9
  <2>2. Tie(r)
    <3>1. o[j] \in DOMAIN r.logits /\ o[j] # o[1]
      BY <1>1, <1>2, <1>4, <1>8
    <3>2. Ahead(r, o[j]) = {}
      BY <1>3, <2>1 DEF Ahead
    <3>3. QED
      BY <1>3, <3>1, <3>2 DEF Tie
  <2>3. w[o[2]] = NotANumber
    <3>1. 2 \in 1 .. n /\ 2 <= j /\ j \in 1 .. n
      BY <1>1
    <3>2. o[2] \in 1 .. n /\ r.logits[o[2]] \in Int /\ r.logits[o[1]] \in Int
      BY <1>1, <1>2, <1>4, <3>1
    <3>3. \A p, q \in 1 .. n : p <= q => r.logits[o[p]] >= r.logits[o[q]]
      BY <1>1, <1>2, SortedOrder
    <3>4. r.logits[o[1]] >= r.logits[o[2]] /\ r.logits[o[2]] >= r.logits[o[j]]
      BY <1>2, <3>1, <3>3
    <3>5. r.logits[o[2]] = Best(r)
      BY <1>3, <2>1, <3>2, <3>4
    <3>6. QED
      BY <1>5, <3>1, <3>5
  <2> DEFINE f == [m \in DOMAIN o |-> IF m = 1 THEN c ELSE NotANumber]
  <2>4. ASSUME NEW m \in DOMAIN o PROVE f[m] = step(f, m)
    <3>1. CASE m = 1
      BY <3>1
    <3>2. CASE m = 2
      <4>1. step(f, m) = Plus(f[m - 1], NotANumber)
        BY <2>3, <3>2
      <4>2. step(f, m) = NotANumber
        BY <4>1 DEF Plus
      <4>3. QED
        BY <3>2, <4>2
    <3>3. CASE m # 1 /\ m # 2
      <4>1. m - 1 \in DOMAIN o /\ m - 1 # 1
        BY ONLY <1>1, <1>4, <3>3, m \in DOMAIN o
      <4>2. f[m - 1] = NotANumber
        BY <4>1
      <4> HIDE DEF f
      <4>3. step(f, m) = NotANumber
        BY <3>3, <4>2 DEF Plus
      <4>4. f[m] = NotANumber
        BY <3>3 DEF f
      <4>5. QED
        BY <4>3, <4>4
    <3>4. QED
      BY <3>1, <3>2, <3>3
  <2>5. P(f)
    <3>1. f = [m \in DOMAIN o |-> f[m]]
      OBVIOUS
    <3> HIDE DEF f, step
    <3>2. QED
      BY <2>4, <3>1
  <2>6. P(sums)
    <3> HIDE DEF P, f
    <3>1. QED
      BY <1>6, <2>5
  <2>7. DOMAIN sums = 1 .. n
    <3>1. DOMAIN sums = DOMAIN o
      <4> HIDE DEF step
      <4>1. QED
        BY <2>6
    <3>2. QED
      BY <1>4, <3>1
  <2>8. i \in 1 .. n
    <3>1. PICK places : places = CpuReaching(sums, limit)
      OBVIOUS
    <3>2. places \in SUBSET (1 .. n) /\ i = First(places, n)
      BY <2>7, <3>1 DEF CpuReaching
    <3>3. CASE places = {}
      <4>1. First(places, n) = n
        BY <3>3 DEF First
      <4>2. QED
        BY <1>1, <3>2, <4>1
    <3>4. CASE places # {}
      <4>1. places \in SUBSET Nat
        BY <3>2
      <4>2. First(places, n) \in places
        BY <3>4, <4>1, FirstIs
      <4>3. QED
        BY <3>2, <4>2
    <3>5. QED
      BY <3>3, <3>4
  <2>9. QED
    BY <1>1, <1>4, <2>2, <2>8
<1>10. CASE ~ \E j \in 2 .. n : r.logits[o[j]] = Best(r)
  <2>1. \A j \in 1 .. n : j # 1 => w[o[j]] = 0
    <3>1. \A j \in 1 .. n : j # 1 => j \in 2 .. n
      BY <1>1
    <3>2. QED
      BY <1>5, <1>10, <3>1
  <2>2. Plus(c, 0) = c
    <3> HIDE DEF c
    <3>1. c \in Nat /\ 0 \in Nat
      BY <1>7
    <3>2. Plus(c, 0) = c + 0
      BY ONLY <3>1, PlusOfNats
    <3>3. QED
      BY <3>1, <3>2
  <2> DEFINE f == [j \in DOMAIN o |-> c]
  <2>3. ASSUME NEW m \in DOMAIN o PROVE f[m] = step(f, m)
    <3>1. CASE m = 1
      BY <3>1
    <3>2. CASE m # 1
      <4>1. m \in 1 .. n /\ m - 1 \in DOMAIN o
        BY <1>1, <1>4, <3>2
      <4>2. f[m - 1] = c /\ f[m] = c
        BY <4>1
      <4> HIDE DEF f, c
      <4>3. step(f, m) = c
        BY <2>1, <2>2, <3>2, <4>1, <4>2
      <4>4. QED
        BY <4>2, <4>3
    <3>3. QED
      BY <3>1, <3>2
  <2>4. P(f)
    <3>1. f = [m \in DOMAIN o |-> f[m]]
      OBVIOUS
    <3> HIDE DEF f, step
    <3>2. QED
      BY <2>3, <3>1
  <2>5. P(sums)
    <3> HIDE DEF P, f
    <3>1. QED
      BY <1>6, <2>4
  <2>6. /\ DOMAIN sums = 1 .. n /\ sums = [j \in DOMAIN sums |-> sums[j]]
        /\ \A j \in 1 .. n : sums[j] = step(sums, j)
    <3> HIDE DEF step
    <3>1. QED
      BY <1>4, <2>5
  <2> DEFINE Bad == {j \in 1 .. n : sums[j] # c}
  <2>7. ASSUME Bad # {} PROVE FALSE
    <3>1. PICK j \in Bad : \A m \in Bad : j <= m
      <4>1. Bad \in SUBSET Nat
        BY <1>1
      <4> HIDE DEF Bad
      <4>2. QED
        BY <2>7, <4>1, MinOfNats
    <3>2. j \in 1 .. n /\ sums[j] # c
      BY <3>1
    <3>3. j # 1
      BY <2>6, <3>2
    <3>4. j - 1 \in 1 .. n /\ ~ (j <= j - 1)
      BY <1>1, <3>2, <3>3
    <3>5. sums[j - 1] = c
      BY <3>1, <3>4
    <3>6. sums[j] = Plus(sums[j - 1], w[o[j]])
      BY <2>6, <3>2, <3>3
    <3> HIDE DEF c, Bad
    <3>7. QED
      BY <2>1, <2>2, <3>2, <3>3, <3>5, <3>6
  <2>8. \A j \in 1 .. n : sums[j] = c
    BY <2>7
  <2>9. sums \in [1 .. n -> Nat]
    <3> HIDE DEF c
    <3>1. QED
      BY <1>7, <2>6, <2>8
  <2>10. limit \in Nat /\ limit <= sums[1] * (Grain * Grain)
    <3>1. limit \in Nat /\ limit <= sums[k] * (Grain * Grain)
      BY <1>1, <1>2, <2>9, LimitBounds
    <3>2. sums[k] = sums[1]
      BY <1>2, <2>8
    <3>3. QED
      BY <3>1, <3>2
  <2>11. 1 \in CpuReaching(sums, limit)
    <3>1. PICK x \in Nat : x = sums[1] * (Grain * Grain)
      BY <1>2, <2>9, <2>10, ReachingIs
    <3>2. ~ (x < limit)
      BY ONLY <2>10, <3>1, x \in Nat
    <3>3. ~Short(sums, 1, limit)
      BY <3>1, <3>2 DEF Short
    <3>4. UpTo(limit, Times(sums[1], Grain * Grain))
      BY <1>2, <2>9, <2>10, <3>3, ReachingIs
    <3>5. QED
      BY <1>2, <2>6, <3>4 DEF CpuReaching
  <2>12. i = 1
    <3>1. PICK places : places = CpuReaching(sums, limit)
      OBVIOUS
    <3>2. places \in SUBSET (1 .. n) /\ i = First(places, n) /\ 1 \in places
      BY <2>6, <2>11, <3>1 DEF CpuReaching
    <3>3. places \in SUBSET Nat
      BY <3>2
    <3>4. First(places, n) \in places /\ First(places, n) <= 1
      BY <3>2, <3>3, FirstIs
    <3>5. QED
      BY <1>1, <3>2, <3>4
  <2>13. QED
    BY <1>3, <2>12 DEF Left
<1>11. QED
  BY <1>9, <1>10

-----------------------------------------------------------------------------
\* Half of a number without odd divisors is a number without odd divisors.
LEMMA Halved ==
  ASSUME NEW m \in Nat \ {0}, NoOddDivisor(m), m # 1
  PROVE  /\ m \div 2 \in Nat \ {0} /\ 2 * (m \div 2) = m
         /\ NoOddDivisor(m \div 2)
<1>1. m % 2 = 0
  <2>1. m \in 1 .. m /\ 1 \in 1 .. m /\ m * 1 = m
    OBVIOUS
  <2>2. QED
    BY <2>1 DEF NoOddDivisor
<1>2. PICK h \in Nat \ {0} : h = m \div 2 /\ 2 * h = m
  BY <1>1
<1>3. ASSUME NEW a \in 1 .. h, NEW b \in 1 .. h, a * b = h PROVE a = 1 \/ a % 2 = 0
  <2>1. a \in 1 .. m /\ 2 * b \in 1 .. m /\ a \in Nat /\ b \in Nat
    BY <1>2
  <2>2. a * (2 * b) = 2 * (a * b)
    BY <2>1
  <2>3. a * (2 * b) = m
    BY <1>2, <1>3, <2>2
  <2>4. QED
    BY <2>1, <2>3 DEF NoOddDivisor
<1>4. NoOddDivisor(h)
  BY <1>3 DEF NoOddDivisor
<1>5. QED
  BY <1>2, <1>4

LEMMA BlockDimIs ==
  /\ BlockDim \in Nat \ {0} /\ NoOddDivisor(BlockDim)
  /\ Lane = 0 .. BlockDim - 1 /\ Idle = 2 * BlockDim /\ 0 \in Lane
<1>1. BlockDim \in Nat \ {0}
  BY SamplerAssumption
<1>2. NoOddDivisor(BlockDim)
  BY SamplerAssumption DEF NoOddDivisor
<1>3. QED
  BY <1>1, <1>2 DEF Lane, Idle

\* The row at work has logits.
LEMMA RowAtWork ==
  ASSUME SamplerInv, row < Len(batch.rows)
  PROVE  /\ row \in Nat /\ row + 1 \in DOMAIN batch.rows
         /\ Now \in SampledRow /\ Powers(batch.device, Now) /\ Logit = Now.logits
         /\ Logit \in Seq(Int) /\ Len(Logit) \in Nat \ {0} /\ DOMAIN Logit = 1 .. Len(Logit)
         /\ \A i \in DOMAIN Logit : Logit[i] \in Int
<1>1. batch \in Batches /\ row \in 0 .. Len(batch.rows)
  BY DEF SamplerInv, SamplerTypes
<1>2. batch \in SampleCall
  BY <1>1, SamplerAssumption
<1>3. batch.rows \in Seq(SampledRow)
  BY <1>2 DEF SampleCall
<1>4. row \in Nat /\ row + 1 \in DOMAIN batch.rows
  BY <1>1, <1>3
<1>5. Now \in SampledRow /\ Powers(batch.device, Now)
  BY <1>1, <1>4, RowOfCall DEF Now
<1>6. Logit = Now.logits
  BY DEF Logit
<1>7. /\ Logit \in Seq(Int) /\ Len(Logit) \in Nat \ {0} /\ DOMAIN Logit = 1 .. Len(Logit)
      /\ Logit \in [1 .. Len(Logit) -> Int]
  BY <1>5, <1>6, RowIs
<1>8. \A i \in DOMAIN Logit : Logit[i] \in Int
  BY <1>7
<1>9. QED
  BY <1>4, <1>5, <1>6, <1>7, <1>8

\* A row is done with a token that may be chosen.
LEMMA PickedKeeps ==
  ASSUME SamplerInv, row < Len(batch.rows), NEW t \in DOMAIN Logit, Picked(t),
         \/ IF batch.op = "argmax" THEN Ahead(Now, t) = {} ELSE Left(batch.device, Now, t)
         \/ batch.op = "sample" /\ batch.device = "cpu" /\ Now.inv_temp = 0 /\ Tie(Now)
         \/ batch.op = "sample" /\ batch.device = "gpu" /\ Unsummed(Now)
  PROVE  SamplerInv'
<1>1. /\ row \in Nat /\ row + 1 \in DOMAIN batch.rows /\ Logit = Now.logits
      /\ DOMAIN Logit = 1 .. Len(Logit)
  BY RowAtWork
<1>2. /\ batch \in Batches /\ row \in 0 .. Len(batch.rows)
      /\ tokens \in Seq(Nat) /\ Len(tokens) = row
      /\ stride \in 0 .. Idle /\ arrived \in SUBSET Lane /\ held \in [Lane -> Nat]
      /\ \A i \in DOMAIN tokens : tokens[i] \in DOMAIN batch.rows[i].logits
      /\ ChosenIsAllowed
  BY DEF SamplerInv, SamplerTypes
<1>3. /\ row' = row + 1 /\ tokens' = Append(tokens, t)
      /\ stride' = Idle /\ batch' = batch /\ arrived' = arrived /\ held' = held
  BY DEF Picked
<1>4. BlockDim \in Nat \ {0} /\ Idle = 2 * BlockDim
  BY BlockDimIs
<1>5. /\ tokens' \in Seq(Nat) /\ Len(tokens') = row'
      /\ \A i \in DOMAIN tokens' : i = row + 1 \/ i \in DOMAIN tokens
      /\ \A i \in DOMAIN tokens : tokens'[i] = tokens[i]
      /\ tokens'[row + 1] = t
  <2>1. t \in Nat
    BY <1>1
  <2> HIDE <1>1
  <2>2. QED
    BY <1>2, <1>3, <2>1
<1>6. SamplerTypes'
  <2>1. row' \in 0 .. Len(batch'.rows)
    <3>1. Len(batch.rows) \in Nat
      <4>1. batch \in SampleCall
        BY <1>2, SamplerAssumption
      <4>2. batch.rows \in Seq(SampledRow)
        BY <4>1 DEF SampleCall
      <4>3. QED
        BY <4>2
    <3>2. QED
      BY <1>1, <1>3, <3>1
  <2>2. \A i \in DOMAIN tokens' : tokens'[i] \in DOMAIN batch'.rows[i].logits
    BY <1>2, <1>3, <1>5 DEF Logit, Now
  <2>3. stride' \in 0 .. Idle
    BY <1>3, <1>4
  <2>4. QED
    BY <1>2, <1>3, <1>5, <2>1, <2>2, <2>3 DEF SamplerTypes, Idle, Lane
<1>7. Working' /\ Scanned' /\ Reducing' /\ Reduced'
  <2>1. stride' = Idle /\ Idle' = Idle /\ ~ (Idle = BlockDim) /\ ~ (Idle = 0)
        /\ ~ (Idle \in 1 .. BlockDim - 1)
    BY <1>3, <1>4 DEF Idle
  <2>2. QED
    BY <2>1 DEF Working, Scanned, Reducing, Reduced
<1>8. ChosenIsAllowed'
  <2>1. ASSUME NEW i \in DOMAIN tokens' PROVE OutOfRange(i)' \/ Undefined(i)' \/ Honoured(i)'
    <3>1. CASE i \in DOMAIN tokens
      <4>1. OutOfRange(i) \/ Undefined(i) \/ Honoured(i)
        BY <1>2, <3>1 DEF ChosenIsAllowed
      <4>2. tokens'[i] = tokens[i] /\ batch' = batch
        BY <1>3, <1>5, <3>1
      <4>3. OutOfRange(i)' <=> OutOfRange(i)
        BY <4>2, Zenon DEF OutOfRange
      <4>4. Undefined(i)' <=> Undefined(i)
        BY <4>2, Zenon DEF Undefined
      <4>5. Honoured(i)' <=> Honoured(i)
        BY <4>2, Zenon DEF Honoured
      <4>6. QED
        BY <4>1, <4>3, <4>4, <4>5
    <3>2. CASE i = row + 1
      <4>1. tokens'[i] = t /\ batch'.rows[i] = Now /\ batch' = batch
        BY <1>3, <1>5, <3>2 DEF Now
      <4>2. CASE IF batch.op = "argmax" THEN Ahead(Now, t) = {} ELSE Left(batch.device, Now, t)
        BY <4>1, <4>2, Zenon DEF Honoured
      <4>3. CASE batch.op = "sample" /\ batch.device = "cpu" /\ Now.inv_temp = 0 /\ Tie(Now)
        <5>1. /\ batch'.op = "sample" /\ batch'.device = "cpu" /\ batch'.rows[i].inv_temp = 0
              /\ Tie(batch'.rows[i])
          BY <4>1, <4>3
        <5>2. Undefined(i)'
          BY <5>1, Zenon DEF Undefined, Tie
        <5>3. QED
          BY <5>2
      <4>4. CASE batch.op = "sample" /\ batch.device = "gpu" /\ Unsummed(Now)
        <5>1. /\ batch'.op = "sample" /\ batch'.device = "gpu"
              /\ Unsummed(batch'.rows[i])
          BY <4>1, <4>4
        <5>2. OutOfRange(i)'
          BY <5>1, Zenon DEF OutOfRange, Unsummed
        <5>3. QED
          BY <5>2
      <4>5. QED
        BY <4>2, <4>3, <4>4
    <3>3. QED
      BY <1>5, <3>1, <3>2
  <2>2. QED
    BY <2>1 DEF ChosenIsAllowed
<1>9. QED
  BY <1>6, <1>7, <1>8 DEF SamplerInv

\* A largest logit has none ahead of it.
LEMMA LeadingIsLargest ==
  ASSUME NEW i, Leading(i), \A j \in DOMAIN Logit : Logit[j] \in Int
  PROVE  i \in DOMAIN Logit /\ Ahead(Now, i) = {}
<1>1. i \in DOMAIN Logit /\ \A j \in DOMAIN Logit : Logit[i] >= Logit[j]
  BY DEF Leading
<1>2. \A j \in DOMAIN Logit : ~ (Logit[j] > Logit[i])
  BY <1>1
<1>3. QED
  BY <1>1, <1>2 DEF Ahead, Logit

LEMMA SampleKeeps ==
  ASSUME SamplerInv, row < Len(batch.rows), Sample
  PROVE  SamplerInv'
<1> DEFINE n == Len(Logit)
           k == Kept(Now.top_k, n)
<1>1. /\ Now \in SampledRow /\ Powers(batch.device, Now) /\ Logit = Now.logits
      /\ DOMAIN Logit = 1 .. n /\ n \in Nat \ {0}
  BY RowAtWork
<1>2. Grain \in Nat \ {0}
  BY SamplerAssumption
<1>3. batch.op = "sample"
  BY DEF Sample
<1>4. CASE batch.device = "cpu" /\ CpuSample
  <2>1. PICK o \in Descending(Logit), rand \in 0 .. Grain - 1 :
          LET sums  == CpuSums(CpuWeights(Now), o)
              limit == Limit(sums, k, Now.top_p, rand)
          IN  Picked(o[First(CpuReaching(sums, limit), n)])
    BY <1>4, Zenon DEF CpuSample
  <2>2. PICK sums, limit, i : /\ sums = CpuSums(CpuWeights(Now), o)
                              /\ limit = Limit(sums, k, Now.top_p, rand)
                              /\ i = First(CpuReaching(sums, limit), n)
    OBVIOUS
  <2>3. Picked(o[i])
    BY <2>1, <2>2, Zenon
  <2>4. rand \in 0 .. Grain
    BY <1>2
  <2>5. /\ o[i] \in DOMAIN Logit
        /\ Left("cpu", Now, o[i]) \/ (Now.inv_temp = 0 /\ Tie(Now))
    <3>1. PICK r, m, kept : r = Now /\ m = n /\ kept = k
      OBVIOUS
    <3>2. /\ r \in SampledRow /\ Powers("cpu", r) /\ rand \in 0 .. Grain
          /\ m = Len(r.logits) /\ o \in Descending(r.logits)
          /\ sums = CpuSums(CpuWeights(r), o) /\ kept = Kept(r.top_k, m)
          /\ limit = Limit(sums, kept, r.top_p, rand)
          /\ i = First(CpuReaching(sums, limit), m)
      BY <1>1, <1>4, <2>2, <2>4, <3>1, Zenon
    <3>3. r.inv_temp # 0 => o[i] \in DOMAIN r.logits /\ Left("cpu", r, o[i])
      BY ONLY <3>2, CpuSampleLeft
    <3>4. r.inv_temp = 0 => o[i] \in DOMAIN r.logits /\ (Left("cpu", r, o[i]) \/ Tie(r))
      BY ONLY <3>2, CpuColdLeft
    <3>5. QED
      BY <1>1, <3>1, <3>3, <3>4, Zenon
  <2>6. QED
    BY <1>3, <1>4, <2>3, <2>5, PickedKeeps
<1>5. CASE batch.device = "gpu" /\ GpuSample
  <2>1. PICK o \in Stable(Weights("gpu", Now)), rand \in 0 .. Grain :
          LET sums  == GpuSums(Weights("gpu", Now), o)
              limit == Limit(sums, k, Now.top_p, rand)
              i     == First(GpuReaching(sums, k, limit), k + 1)
          IN  Picked(o[IF i > n THEN n ELSE i])
    BY <1>5, Zenon DEF GpuSample
  <2>2. PICK sums, limit, i, at : /\ sums = GpuSums(Weights("gpu", Now), o)
                                  /\ limit = Limit(sums, k, Now.top_p, rand)
                                  /\ i = First(GpuReaching(sums, k, limit), k + 1)
                                  /\ at = IF i > n THEN n ELSE i
    OBVIOUS
  <2>3. Picked(o[at])
    BY <2>1, <2>2, Zenon
  <2>4. o[at] \in DOMAIN Logit /\ (Left("gpu", Now, o[at]) \/ Unsummed(Now))
    <3>1. PICK r, m, kept : r = Now /\ m = n /\ kept = k
      OBVIOUS
    <3>2. /\ r \in SampledRow /\ Powers("gpu", r) /\ rand \in 0 .. Grain
          /\ m = Len(r.logits) /\ o \in Stable(Weights("gpu", r))
          /\ sums = GpuSums(Weights("gpu", r), o) /\ kept = Kept(r.top_k, m)
          /\ limit = Limit(sums, kept, r.top_p, rand)
          /\ i = First(GpuReaching(sums, kept, limit), kept + 1)
          /\ at = IF i > m THEN m ELSE i
      BY <1>1, <1>5, <2>2, <3>1, Zenon
    <3>3. o[at] \in DOMAIN r.logits /\ (Left("gpu", r, o[at]) \/ Unsummed(r))
      BY ONLY <3>2, GpuSampleLeft
    <3>4. QED
      BY <1>1, <3>1, <3>3, Zenon
  <2>5. QED
    BY <1>3, <1>5, <2>3, <2>4, PickedKeeps
<1>6. QED
  BY <1>4, <1>5 DEF Sample

-----------------------------------------------------------------------------
\* A step within a row leaves the row and the tokens chosen alone.
LEMMA SameRow ==
  ASSUME UNCHANGED <<batch, row, tokens>>
  PROVE  /\ Logit' = Logit /\ Lane' = Lane /\ Idle' = Idle
         /\ \A tid : FirstBest(Share(tid))' = FirstBest(Share(tid))
         /\ (ChosenIsAllowed => ChosenIsAllowed')
<1>1. Logit' = Logit
  BY DEF Logit, Now
<1>2. \A tid : FirstBest(Share(tid))' = FirstBest(Share(tid))
  <2>1. ASSUME NEW tid PROVE FirstBest(Share(tid))' = FirstBest(Share(tid))
    <3>1. Share(tid)' = Share(tid)
      BY <1>1 DEF Share
    <3> HIDE DEF Share
    <3>2. QED
      BY <1>1, <3>1 DEF FirstBest
  <2>2. QED
    BY <2>1
<1>3. ASSUME ChosenIsAllowed PROVE ChosenIsAllowed'
  <2>1. \A i : Honoured(i)' <=> Honoured(i)
    BY Zenon DEF Honoured
  <2>2. \A i : Undefined(i)' <=> Undefined(i)
    BY Zenon DEF Undefined
  <2>3. \A i : OutOfRange(i)' <=> OutOfRange(i)
    BY Zenon DEF OutOfRange
  <2>4. QED
    BY <1>3, <2>1, <2>2, <2>3, Zenon DEF ChosenIsAllowed
<1>4. QED
  BY <1>1, <1>2, <1>3 DEF Lane, Idle

\* The types within a row.
LEMMA TypesWithin ==
  ASSUME SamplerInv, UNCHANGED <<batch, row, tokens>>,
         stride' \in 0 .. Idle, arrived' \in SUBSET Lane, held' \in [Lane -> Nat]
  PROVE  SamplerTypes'
  BY SameRow, Zenon DEF SamplerInv, SamplerTypes

\* What a thread finds in its share is a position of the row, or 0.
LEMMA ShareHeld ==
  ASSUME SamplerInv, row < Len(batch.rows), NEW tid
  PROVE  /\ FirstBest(Share(tid)) \in 0 .. Len(Logit)
         /\ Share(tid) # {} => /\ FirstBest(Share(tid)) \in Share(tid)
                               /\ \A j \in Share(tid) :
                                    Logit[FirstBest(Share(tid))] >= Logit[j]
<1>1. /\ Logit \in Seq(Int) /\ DOMAIN Logit = 1 .. Len(Logit) /\ Len(Logit) \in Nat
  BY RowAtWork
<1>2. Share(tid) \in SUBSET (DOMAIN Logit)
  BY DEF Share
<1>3. CASE Share(tid) = {}
  BY <1>1, <1>3 DEF FirstBest
<1>4. CASE Share(tid) # {}
  <2>1. /\ FirstBest(Share(tid)) \in Share(tid)
        /\ \A j \in Share(tid) : Logit[FirstBest(Share(tid))] >= Logit[j]
    BY <1>1, <1>2, <1>4, FirstBestIs
  <2>2. \A i \in DOMAIN Logit : i \in 0 .. Len(Logit)
    BY <1>1
  <2>3. QED
    BY <1>2, <2>1, <2>2
<1>5. QED
  BY <1>3, <1>4

\* When every thread has been through its share, one of them holds a largest.
LEMMA SharesCover ==
  ASSUME SamplerInv, row < Len(batch.rows),
         \A tid \in Lane : held[tid] = FirstBest(Share(tid))
  PROVE  \E lane \in Lane : Leading(held[lane])
<1>1. /\ Logit \in Seq(Int) /\ DOMAIN Logit = 1 .. Len(Logit) /\ Len(Logit) \in Nat \ {0}
      /\ \A i \in DOMAIN Logit : Logit[i] \in Int
  BY RowAtWork
<1>2. BlockDim \in Nat \ {0} /\ Lane = 0 .. BlockDim - 1
  BY BlockDimIs
<1>3. PICK b \in DOMAIN Logit : \A j \in DOMAIN Logit : Logit[b] >= Logit[j]
  <2>1. DOMAIN Logit # {} /\ DOMAIN Logit \in SUBSET (DOMAIN Logit)
    BY <1>1
  <2>2. QED
    BY <1>1, <2>1, FirstBestIs
<1>4. PICK lane \in Lane : lane = (b - 1) % BlockDim
  <2>1. b - 1 \in Nat
    BY <1>1
  <2>2. (b - 1) % BlockDim \in 0 .. BlockDim - 1
    BY <1>2, <2>1
  <2>3. QED
    BY <1>2, <2>2
<1>5. b \in Share(lane)
  BY <1>4 DEF Share
<1>6. /\ held[lane] \in DOMAIN Logit /\ Logit[held[lane]] >= Logit[b]
  BY <1>5, ShareHeld DEF Share
<1>7. \A j \in DOMAIN Logit : Logit[held[lane]] >= Logit[j]
  <2>1. ASSUME NEW j \in DOMAIN Logit PROVE Logit[held[lane]] >= Logit[j]
    <3>1. /\ Logit[held[lane]] \in Int /\ Logit[b] \in Int /\ Logit[j] \in Int
          /\ Logit[b] >= Logit[j]
      BY <1>1, <1>3, <1>6
    <3>2. QED
      BY <1>6, <3>1
  <2>2. QED
    BY <2>1
<1>8. QED
  BY <1>6, <1>7 DEF Leading

LEMMA CpuArgmaxKeeps ==
  ASSUME SamplerInv, row < Len(batch.rows), batch.op = "argmax", CpuArgmax
  PROVE  SamplerInv'
<1> DEFINE t == FirstBest(DOMAIN Logit)
<1>0. /\ Logit \in Seq(Int) /\ Len(Logit) \in Nat \ {0} /\ DOMAIN Logit = 1 .. Len(Logit)
      /\ \A i \in DOMAIN Logit : Logit[i] \in Int
  BY RowAtWork
<1>1. /\ Logit \in Seq(Int) /\ DOMAIN Logit # {}
      /\ \A i \in DOMAIN Logit : Logit[i] \in Int
  <2> HIDE DEF t
  <2>1. 1 \in DOMAIN Logit
    BY ONLY <1>0
  <2>2. QED
    BY <1>0, <2>1
<1>2. t \in DOMAIN Logit /\ \A j \in DOMAIN Logit : Logit[t] >= Logit[j]
  BY <1>1, FirstBestIs
<1>3. Picked(t)
  BY Zenon DEF CpuArgmax
<1> HIDE DEF t
<1>4. Leading(t)
  BY <1>2 DEF Leading
<1>5. Ahead(Now, t) = {}
  BY <1>1, <1>4, LeadingIsLargest
<1>6. QED
  BY <1>2, <1>3, <1>5, PickedKeeps

LEMMA LaunchKeeps ==
  ASSUME SamplerInv, row < Len(batch.rows), batch.op = "argmax", batch.device = "gpu", Launch
  PROVE  SamplerInv'
<1>1. /\ BlockDim \in Nat \ {0} /\ Idle = 2 * BlockDim
      /\ Len(Logit) \in Nat
  BY BlockDimIs, RowAtWork
<1>2. /\ stride' = BlockDim /\ arrived' = {} /\ held' = [tid \in Lane |-> 0]
      /\ UNCHANGED <<batch, row, tokens>>
  BY DEF Launch
<1>3. stride' \in 0 .. Idle /\ held' \in [Lane -> Nat]
  BY <1>1, <1>2
<1>4. SamplerTypes'
  BY <1>2, <1>3, TypesWithin
<1>5. /\ Logit' = Logit /\ Lane' = Lane /\ ChosenIsAllowed'
  BY <1>2, SameRow DEF SamplerInv
<1>6. Working'
  <2>1. \A tid \in Lane : held'[tid] = 0
    BY <1>2
  <2>2. 0 \in 0 .. Len(Logit)
    BY <1>1
  <2>3. stride' <= BlockDim
    BY <1>1, <1>2
  <2>4. QED
    BY <1>2, <1>5, <2>1, <2>2, <2>3 DEF Working
<1>7. Scanned'
  BY <1>2 DEF Scanned
<1>8. Reducing' /\ Reduced'
  BY <1>1, <1>2 DEF Reducing, Reduced
<1>9. QED
  BY <1>4, <1>5, <1>6, <1>7, <1>8 DEF SamplerInv

LEMMA ScanKeeps ==
  ASSUME SamplerInv, row < Len(batch.rows), NEW tid \in Lane, Scan(tid)
  PROVE  SamplerInv'
<1>1. BlockDim \in Nat \ {0} /\ Idle = 2 * BlockDim /\ Len(Logit) \in Nat
  BY BlockDimIs, RowAtWork
<1>2. /\ stride = BlockDim /\ stride' = stride /\ arrived' = arrived \cup {tid}
      /\ held' = [held EXCEPT ![tid] = FirstBest(Share(tid))]
      /\ UNCHANGED <<batch, row, tokens>>
  BY Zenon DEF Scan, Share
<1>3. /\ stride \in 0 .. Idle /\ arrived \in SUBSET Lane /\ held \in [Lane -> Nat]
  BY DEF SamplerInv, SamplerTypes
<1>4. FirstBest(Share(tid)) \in 0 .. Len(Logit) /\ FirstBest(Share(tid)) \in Nat
  BY <1>1, ShareHeld
<1>5. /\ held' \in [Lane -> Nat] /\ held'[tid] = FirstBest(Share(tid))
      /\ \A lane \in Lane : lane # tid => held'[lane] = held[lane]
  BY <1>2, <1>3, <1>4
<1>6. SamplerTypes'
  <2>1. stride' \in 0 .. Idle /\ arrived' \in SUBSET Lane
    BY <1>2, <1>3
  <2>2. QED
    BY <1>2, <1>5, <2>1, TypesWithin
<1>7. /\ Logit' = Logit /\ Lane' = Lane /\ ChosenIsAllowed'
      /\ \A lane : FirstBest(Share(lane))' = FirstBest(Share(lane))
  BY <1>2, SameRow DEF SamplerInv
<1>8. stride # Idle
  BY <1>1, <1>2
<1>9. Working'
  <2>1. /\ stride <= BlockDim /\ batch.op = "argmax"
        /\ \A lane \in Lane : held[lane] \in 0 .. Len(Logit)
    BY <1>8 DEF SamplerInv, Working
  <2>2. \A lane \in Lane : held'[lane] \in 0 .. Len(Logit)
    BY <1>4, <1>5, <2>1
  <2>3. QED
    BY <1>2, <1>7, <2>1, <2>2 DEF Working
<1>10. Scanned'
  <2>1. \A lane \in arrived : held[lane] = FirstBest(Share(lane))
    BY <1>2 DEF SamplerInv, Scanned
  <2>2. \A lane \in arrived' : held'[lane] = FirstBest(Share(lane))'
    BY <1>2, <1>3, <1>5, <1>7, <2>1
  <2>3. QED
    BY <2>2 DEF Scanned
<1>11. Reducing' /\ Reduced'
  BY <1>1, <1>2 DEF Reducing, Reduced
<1>12. QED
  BY <1>6, <1>7, <1>9, <1>10, <1>11 DEF SamplerInv

\* A thread of the lower half takes what the thread of the upper half holds if
\* it is larger; a largest logit gets there, and stays.
LEMMA ReduceKeeps ==
  ASSUME SamplerInv, row < Len(batch.rows), NEW tid \in Lane, Reduce(tid)
  PROVE  SamplerInv'
<1>1. /\ BlockDim \in Nat \ {0} /\ Idle = 2 * BlockDim /\ Lane = 0 .. BlockDim - 1
      /\ Len(Logit) \in Nat /\ DOMAIN Logit = 1 .. Len(Logit)
      /\ \A i \in DOMAIN Logit : Logit[i] \in Int
  BY BlockDimIs, RowAtWork
<1>2. /\ stride \in 1 .. BlockDim - 1 /\ tid \notin arrived
      /\ stride' = stride /\ arrived' = arrived \cup {tid}
      /\ held' = IF tid < stride /\ Better(held[tid + stride], held[tid])
                 THEN [held EXCEPT ![tid] = held[tid + stride]] ELSE held
      /\ UNCHANGED <<batch, row, tokens>>
  BY DEF Reduce
<1>3. /\ stride \in 0 .. Idle /\ arrived \in SUBSET Lane /\ held \in [Lane -> Nat]
  BY DEF SamplerInv, SamplerTypes
<1>4. stride # Idle /\ stride # BlockDim /\ stride # 0
  BY <1>1, <1>2
<1>5. /\ stride <= BlockDim /\ batch.op = "argmax"
      /\ \A lane \in Lane : held[lane] \in 0 .. Len(Logit)
  BY <1>4 DEF SamplerInv, Working
<1>6. /\ 2 * stride <= BlockDim /\ NoOddDivisor(stride)
      /\ \E lane \in 0 .. 2 * stride - 1 :
           Leading(held[lane]) /\ (lane >= stride => lane - stride \notin arrived)
  BY <1>2 DEF SamplerInv, Reducing
<1>7. PICK lane \in 0 .. 2 * stride - 1 :
        Leading(held[lane]) /\ (lane >= stride => lane - stride \notin arrived)
  BY <1>6
<1>8. tid < stride => tid + stride \in Lane
  BY <1>1, <1>2, <1>6
<1>9. /\ held' \in [Lane -> Nat]
      /\ \A l \in Lane : l # tid => held'[l] = held[l]
      /\ held'[tid] = IF tid < stride /\ Better(held[tid + stride], held[tid])
                      THEN held[tid + stride] ELSE held[tid]
  <2>1. CASE tid < stride /\ Better(held[tid + stride], held[tid])
    <3>1. held' = [held EXCEPT ![tid] = held[tid + stride]]
      BY <1>2, <2>1
    <3>2. held[tid + stride] \in Nat
      BY <1>3, <1>8, <2>1
    <3> HIDE <1>2
    <3>3. QED
      BY <1>3, <2>1, <3>1, <3>2
  <2>2. CASE ~ (tid < stride /\ Better(held[tid + stride], held[tid]))
    BY <1>2, <1>3, <2>2
  <2>3. QED
    BY <2>1, <2>2
<1>10. SamplerTypes'
  <2>1. stride' \in 0 .. Idle /\ arrived' \in SUBSET Lane
    BY <1>2, <1>3
  <2>2. QED
    BY <1>2, <1>9, <2>1, TypesWithin
<1>11. /\ Logit' = Logit /\ Lane' = Lane /\ ChosenIsAllowed'
  BY <1>2, SameRow DEF SamplerInv
<1>12. Working'
  <2>1. \A l \in Lane : held'[l] \in 0 .. Len(Logit)
    BY <1>5, <1>8, <1>9
  <2>2. QED
    BY <1>2, <1>5, <1>11, <2>1 DEF Working
<1>13. Scanned' /\ Reduced'
  BY <1>2, <1>4 DEF Scanned, Reduced
<1>14. \A i : Leading(i)' <=> Leading(i)
  BY <1>11 DEF Leading
<1>15. lane \in Lane /\ lane \in Nat /\ stride \in Nat /\ tid \in Nat /\ stride + stride = 2 * stride
  BY <1>1, <1>2, <1>6
<1>16. \E l \in 0 .. 2 * stride - 1 :
         Leading(held'[l]) /\ (l >= stride => l - stride \notin arrived')
  <2>1. CASE tid = lane
    <3>1. ~ (lane >= stride /\ tid < stride)
      BY <1>15, <2>1
    <3>2. held'[lane] = held[lane]
      <4>1. ASSUME tid < stride PROVE ~ Better(held[tid + stride], held[tid])
        <5>1. held[tid] # 0 /\ \A j \in DOMAIN Logit : Logit[held[tid]] >= Logit[j]
          BY <1>1, <1>7, <2>1 DEF Leading
        <5>2. held[tid + stride] # 0 => held[tid + stride] \in DOMAIN Logit
          BY <1>1, <1>5, <1>8, <4>1
        <5>3. held[tid] \in DOMAIN Logit
          BY <1>7, <2>1 DEF Leading
        <5>4. held[tid + stride] # 0 =>
                ~ (Logit[held[tid + stride]] > Logit[held[tid]])
          BY <1>1, <5>1, <5>2, <5>3
        <5>5. QED
          BY <5>1, <5>4 DEF Better
      <4>2. QED
        BY <1>9, <2>1, <4>1
    <3>3. lane >= stride => lane - stride # tid
      BY <1>2, <1>15, <2>1
    <3>4. lane >= stride => lane - stride \notin arrived'
      BY <1>2, <1>7, <3>3
    <3>5. QED
      BY <1>7, <3>2, <3>4
  <2>2. CASE tid # lane /\ ~ (lane >= stride /\ lane - stride = tid)
    <3>1. held'[lane] = held[lane]
      BY <1>9, <1>15, <2>2
    <3>2. lane >= stride => lane - stride \notin arrived'
      BY <1>2, <1>7, <2>2
    <3>3. QED
      BY <1>7, <3>1, <3>2
  <2>3. CASE lane >= stride /\ lane - stride = tid
    <3>1. tid + stride = lane /\ tid < stride /\ tid \in 0 .. 2 * stride - 1
          /\ ~ (tid >= stride)
      BY <1>7, <1>15, <2>3
    <3>2. Leading(held[lane])
      BY <1>7
    <3>3. Leading(held'[tid])
      <4>1. CASE Better(held[lane], held[tid])
        BY <1>9, <3>1, <3>2, <4>1
      <4>2. CASE ~ Better(held[lane], held[tid])
        <5>1. held'[tid] = held[tid]
          BY <1>9, <3>1, <4>2
        <5>2. /\ held[lane] \in DOMAIN Logit
              /\ \A j \in DOMAIN Logit : Logit[held[lane]] >= Logit[j]
          BY <3>2 DEF Leading
        <5>3. held[lane] # 0
          BY <1>1, <5>2
        <5>4. held[tid] # 0 /\ ~ (Logit[held[lane]] > Logit[held[tid]])
          BY <4>2, <5>3 DEF Better
        <5>5. held[tid] \in DOMAIN Logit
          BY <1>1, <1>5, <5>4
        <5>6. \A j \in DOMAIN Logit : Logit[held[tid]] >= Logit[j]
          <6>1. ASSUME NEW j \in DOMAIN Logit PROVE Logit[held[tid]] >= Logit[j]
            <7>1. /\ Logit[held[lane]] \in Int /\ Logit[held[tid]] \in Int
                  /\ Logit[j] \in Int /\ Logit[held[lane]] >= Logit[j]
                  /\ ~ (Logit[held[lane]] > Logit[held[tid]])
              BY <1>1, <5>2, <5>4, <5>5
            <7>2. QED
              BY ONLY <7>1
          <6>2. QED
            BY <6>1
        <5>7. QED
          BY <5>1, <5>5, <5>6 DEF Leading
      <4>3. QED
        BY <4>1, <4>2
    <3>4. QED
      BY <3>1, <3>3
  <2>4. QED
    BY <2>1, <2>2, <2>3
<1>17. Reducing'
  <2>1. \E l \in 0 .. 2 * stride - 1 :
          Leading(held[l])' /\ (l >= stride => l - stride \notin arrived')
    BY <1>11, <1>16, Zenon DEF Leading
  <2>2. QED
    BY <1>2, <1>6, <2>1, Zenon DEF Reducing
<1>18. QED
  BY <1>10, <1>11, <1>12, <1>13, <1>17 DEF SamplerInv

\* The next step of the reduction begins with half the stride.
LEMMA SyncThreadsKeeps ==
  ASSUME SamplerInv, row < Len(batch.rows), SyncThreads
  PROVE  SamplerInv'
<1>1. /\ BlockDim \in Nat \ {0} /\ Idle = 2 * BlockDim /\ Lane = 0 .. BlockDim - 1
      /\ NoOddDivisor(BlockDim)
  BY BlockDimIs
<1>2. /\ stride \in 1 .. BlockDim /\ arrived = Lane
      /\ stride' = stride \div 2 /\ arrived' = {} /\ held' = held
      /\ UNCHANGED <<batch, row, tokens>>
  BY DEF SyncThreads
<1>3. /\ held \in [Lane -> Nat]
      /\ batch.op = "argmax" /\ \A tid \in Lane : held[tid] \in 0 .. Len(Logit)
  <2>1. stride # Idle
    BY <1>1, <1>2
  <2>2. QED
    BY <2>1 DEF SamplerInv, SamplerTypes, Working
<1>4. stride \in Nat \ {0} /\ stride' \in Nat /\ stride' < stride /\ stride' < BlockDim
  BY <1>1, <1>2
<1>5. /\ Logit' = Logit /\ Lane' = Lane /\ ChosenIsAllowed'
  BY <1>2, SameRow DEF SamplerInv
<1>6. SamplerTypes'
  <2>1. stride' \in 0 .. Idle /\ arrived' \in SUBSET Lane
    BY <1>1, <1>2, <1>4
  <2>2. QED
    BY <1>2, <1>3, <2>1, TypesWithin
<1>7. Working' /\ Scanned'
  <2>1. stride' <= BlockDim /\ stride' # BlockDim
    BY <1>1, <1>4
  <2>2. QED
    BY <1>2, <1>3, <1>5, <2>1 DEF Working, Scanned
<1>8. NoOddDivisor(stride) /\ \E lane \in 0 .. stride - 1 : Leading(held[lane])
  <2>1. CASE stride = BlockDim
    <3>1. \A tid \in Lane : held[tid] = FirstBest(Share(tid))
      BY <1>2, <2>1 DEF SamplerInv, Scanned
    <3>2. QED
      BY <1>1, <2>1, <3>1, SharesCover
  <2>2. CASE stride \in 1 .. BlockDim - 1
    <3>1. /\ 2 * stride <= BlockDim /\ NoOddDivisor(stride)
          /\ \E lane \in 0 .. 2 * stride - 1 :
               Leading(held[lane]) /\ (lane >= stride => lane - stride \notin arrived)
      BY <2>2 DEF SamplerInv, Reducing
    <3>2. PICK lane \in 0 .. 2 * stride - 1 :
            Leading(held[lane]) /\ (lane >= stride => lane - stride \notin arrived)
      BY <3>1
    <3>3. lane >= stride => lane - stride \in Lane
      BY <1>1, <1>4, <3>1
    <3>4. lane \in 0 .. stride - 1
      BY <1>2, <1>4, <3>2, <3>3
    <3>5. QED
      BY <3>1, <3>2, <3>4
  <2>3. QED
    BY <1>1, <1>2, <2>1, <2>2
<1>9. PICK lane \in 0 .. stride - 1 : Leading(held[lane])
  BY <1>8
<1>10. Leading(held[lane])'
  BY <1>2, <1>5, <1>9 DEF Leading
<1>11. CASE stride = 1
  <2>1. stride' = 0 /\ lane = 0
    BY <1>2, <1>4, <1>11
  <2>2. Reduced'
    BY <1>10, <2>1 DEF Reduced
  <2>3. Reducing'
    BY <2>1 DEF Reducing
  <2>4. QED
    BY <1>5, <1>6, <1>7, <2>2, <2>3 DEF SamplerInv
<1>12. CASE stride # 1
  <2>1. stride' \in Nat \ {0} /\ 2 * stride' = stride /\ NoOddDivisor(stride')
    BY <1>2, <1>4, <1>8, <1>12, Halved
  <2>2. 2 * stride' <= BlockDim /\ lane \in 0 .. 2 * stride' - 1
    BY <1>1, <1>2, <2>1
  <2>3. Reducing'
    <3>1. NoOddDivisor(stride)'
      BY <2>1 DEF NoOddDivisor
    <3>2. \A l : l \notin arrived'
      BY <1>2
    <3>3. BlockDim' = BlockDim
      OBVIOUS
    <3>4. QED
      BY <1>10, <2>2, <3>1, <3>2, Zenon DEF Reducing
  <2>4. Reduced'
    BY <2>1 DEF Reduced
  <2>5. QED
    BY <1>5, <1>6, <1>7, <2>3, <2>4 DEF SamplerInv
<1>13. QED
  BY <1>11, <1>12

LEMMA WriteKeeps ==
  ASSUME SamplerInv, row < Len(batch.rows), batch.op = "argmax", Write
  PROVE  SamplerInv'
<1>1. stride = 0 /\ Picked(held[0])
  BY DEF Write
<1>2. Leading(held[0])
  BY <1>1 DEF SamplerInv, Reduced
<1>3. held[0] \in DOMAIN Logit /\ Ahead(Now, held[0]) = {}
  BY <1>2, RowAtWork, LeadingIsLargest
<1>4. QED
  BY <1>1, <1>3, PickedKeeps

LEMMA SamplerInit_Inv ==
  ASSUME SamplerInit
  PROVE  SamplerInv
<1>1. /\ batch \in Batches /\ row = 0 /\ tokens = << >> /\ stride = Idle
      /\ arrived = {} /\ held = [tid \in Lane |-> 0]
  BY DEF SamplerInit
<1>2. BlockDim \in Nat \ {0} /\ Idle = 2 * BlockDim /\ Lane = 0 .. BlockDim - 1
  BY BlockDimIs
<1>3. SamplerTypes
  <2>1. row \in 0 .. Len(batch.rows)
    <3>1. batch \in SampleCall
      BY <1>1, SamplerAssumption
    <3>2. batch.rows \in Seq(SampledRow)
      BY <3>1 DEF SampleCall
    <3>3. QED
      BY <1>1, <3>2
  <2>2. QED
    BY <1>1, <1>2, <2>1 DEF SamplerTypes
<1>4. Working /\ Scanned /\ Reducing /\ Reduced
  BY <1>1, <1>2 DEF Working, Scanned, Reducing, Reduced
<1>5. ChosenIsAllowed
  BY <1>1 DEF ChosenIsAllowed
<1>6. QED
  BY <1>3, <1>4, <1>5 DEF SamplerInv

LEMMA SamplerInductive ==
  ASSUME SamplerInv, [SamplerNext]_samplerVars
  PROVE  SamplerInv'
<1>1. CASE UNCHANGED samplerVars
  <2>1. /\ UNCHANGED <<batch, row, tokens>> /\ stride' = stride /\ arrived' = arrived
        /\ held' = held
    BY <1>1 DEF samplerVars
  <2>2. SamplerTypes'
    BY <2>1, Zenon DEF SamplerInv, SamplerTypes, Idle, Lane
  <2>3. Working' /\ Scanned' /\ Reducing' /\ Reduced'
    BY <2>1, SameRow, Zenon DEF SamplerInv, Working, Scanned, Reducing, Reduced, Leading
  <2>4. QED
    BY <2>1, <2>2, <2>3, SameRow DEF SamplerInv
<1>2. CASE SamplerNext
  <2>1. row < Len(batch.rows) /\ (Argmax \/ Sample)
    BY <1>2 DEF SamplerNext
  <2>2. CASE Sample
    BY <2>1, <2>2, SampleKeeps
  <2>3. CASE Argmax
    <3>1. batch.op = "argmax"
      BY <2>3 DEF Argmax
    <3>2. CASE batch.device = "cpu" /\ CpuArgmax
      BY <2>1, <3>1, <3>2, CpuArgmaxKeeps
    <3>3. CASE batch.device = "gpu" /\ Launch
      BY <2>1, <3>1, <3>3, LaunchKeeps
    <3>4. CASE SyncThreads
      BY <2>1, <3>4, SyncThreadsKeeps
    <3>5. CASE Write
      BY <2>1, <3>1, <3>5, WriteKeeps
    <3>6. ASSUME NEW tid \in Lane, Scan(tid) PROVE SamplerInv'
      BY <2>1, <3>6, ScanKeeps
    <3>7. ASSUME NEW tid \in Lane, Reduce(tid) PROVE SamplerInv'
      BY <2>1, <3>7, ReduceKeeps
    <3>8. QED
      BY <2>3, <3>2, <3>3, <3>4, <3>5, <3>6, <3>7 DEF Argmax
  <2>4. QED
    BY <2>1, <2>2, <2>3
<1>3. QED
  BY <1>1, <1>2

\* Every token chosen is one its row allows: a largest logit by argmax, whatever
\* the order of the threads between two barriers, and one that top_k and top_p
\* leave by sampling; but for a temperature of 0 met by a tie on the CPU, and a
\* temperature that takes the weights of the kernel out of range.
THEOREM SamplerChooses == SamplerSpec => []ChosenIsAllowed
<1>1. SamplerInit => SamplerInv
  BY SamplerInit_Inv
<1>2. SamplerInv /\ [SamplerNext]_samplerVars => SamplerInv'
  BY SamplerInductive
<1>3. SamplerInv => ChosenIsAllowed
  BY DEF SamplerInv
<1>4. QED
  BY <1>1, <1>2, <1>3, PTL DEF SamplerSpec

-----------------------------------------------------------------------------
\* The dense session.

FoldStep(f, seq, s) == IF s = {} THEN 1 ELSE f[s \ {Max(s)}] * seq[Max(s)]

LEMMA NumelIs ==
  ASSUME NEW seq
  PROVE  Numel(seq) = (CHOOSE f : f = [s \in SUBSET (DOMAIN seq) |-> FoldStep(f, seq, s)])[DOMAIN seq]
  BY Zenon DEF Numel, FoldLeft, MapThenFoldSet, FoldStep

LEMMA NumelOfNone == Numel(<< >>) = 1
<1> DEFINE e == << >>
           P(f) == f = [s \in SUBSET (DOMAIN e) |-> FoldStep(f, e, s)]
           g == [s \in {{}} |-> 1]
<1>1. SUBSET (DOMAIN e) = {{}}
  OBVIOUS
<1>2. P(g)
  <2>1. \A s \in {{}} : FoldStep(g, e, s) = 1
    BY DEF FoldStep
  <2>2. QED
    BY <1>1, <2>1
<1>3. P(CHOOSE f : P(f))
  <2> HIDE DEF P, g
  <2>1. QED
    BY <1>2
<1>4. (CHOOSE f : P(f))[DOMAIN e] = 1
  <2> DEFINE f == CHOOSE f : P(f)
  <2> HIDE DEF f
  <2>1. f = [s \in SUBSET (DOMAIN e) |-> FoldStep(f, e, s)]
    BY <1>3 DEF f
  <2>2. f[{}] = FoldStep(f, e, {}) /\ DOMAIN e = {}
    BY <1>1, <2>1
  <2>3. QED
    BY <2>2 DEF FoldStep, f
<1>5. QED
  BY <1>4, NumelIs, Zenon

LEMMA NumelOfOne ==
  ASSUME NEW n \in Nat
  PROVE  Numel(<<n>>) = n
<1> DEFINE e == <<n>>
           P(f) == f = [s \in SUBSET (DOMAIN e) |-> FoldStep(f, e, s)]
           g == [s \in {{}, {1}} |-> IF s = {} THEN 1 ELSE n]
<1>1. DOMAIN e = {1} /\ SUBSET (DOMAIN e) = {{}, {1}}
  OBVIOUS
<1>2. Max({1}) = 1
  <2>1. {1} \in SUBSET Nat /\ {1} # {} /\ 1 \in Nat /\ \A x \in {1} : x <= 1
    OBVIOUS
  <2>2. Max({1}) \in {1}
    BY <2>1, MaxOfNats
  <2>3. QED
    BY <2>2
<1>3. P(g)
  <2>1. g[{}] = 1 /\ g[{1}] = n
    OBVIOUS
  <2>2. FoldStep(g, e, {}) = 1
    BY DEF FoldStep
  <2>3. FoldStep(g, e, {1}) = g[{}] * e[1]
    <3>1. {1} \ {1} = {} /\ {1} # {}
      OBVIOUS
    <3> HIDE DEF g, e
    <3>2. QED
      BY <1>2, <3>1 DEF FoldStep
  <2>4. \A s \in {{}, {1}} : FoldStep(g, e, s) = g[s]
    <3>1. 1 * n = n /\ e[1] = n
      OBVIOUS
    <3> HIDE DEF g, e
    <3>2. QED
      BY <2>1, <2>2, <2>3, <3>1
  <2>5. g = [s \in {{}, {1}} |-> g[s]]
    OBVIOUS
  <2> HIDE DEF g, e
  <2>6. QED
    BY <1>1, <2>4, <2>5
<1>4. P(CHOOSE f : P(f))
  <2> HIDE DEF P, g
  <2>1. QED
    BY <1>3
<1>5. (CHOOSE f : P(f))[DOMAIN e] = n
  <2> DEFINE f == CHOOSE f : P(f)
  <2> HIDE DEF f
  <2>1. f = [s \in SUBSET (DOMAIN e) |-> FoldStep(f, e, s)]
    BY <1>4 DEF f
  <2>2. f[{}] = FoldStep(f, e, {}) /\ f[{1}] = FoldStep(f, e, {1})
    <3> HIDE DEF e
    <3>1. QED
      BY <1>1, <2>1
  <2>3. f[{}] = 1
    BY <2>2 DEF FoldStep
  <2>4. f[{1}] = f[{}] * e[1]
    <3>1. {1} \ {1} = {} /\ {1} # {}
      OBVIOUS
    <3> HIDE DEF e
    <3>2. QED
      BY <1>2, <2>2, <3>1 DEF FoldStep
  <2>5. e[1] = n /\ 1 * n = n
    OBVIOUS
  <2>6. f[DOMAIN e] = n
    <3> HIDE DEF e
    <3>1. QED
      BY <1>1, <2>3, <2>4, <2>5
  <2>7. QED
    BY <2>6 DEF f
<1>6. QED
  BY <1>5, NumelIs, Zenon

\* What a layer makes of the rows x of the tokens s, and the rows after each
\* number of layers up to n.
HiddenStep(s, x) ==
  [i \in DOMAIN s |->
     <<x[i], {[q |-> <<x[i], i - 1>>, k |-> <<x[j], j - 1>>, v |-> x[j]] : j \in 1 .. i}>>]
IsHidden(h, s, n) == h = [l \in 0 .. n |-> IF l = 0 THEN s ELSE HiddenStep(s, h[l - 1])]
Rows(s) == CHOOSE h : IsHidden(h, s, Layers)

LEMMA HiddenExists ==
  ASSUME NEW s, NEW n \in Nat
  PROVE  \E h : IsHidden(h, s, n)
<1> DEFINE Bad == {k \in Nat : ~ \E h : IsHidden(h, s, k)}
<1>1. SUFFICES ASSUME Bad # {} PROVE FALSE
  OBVIOUS
<1>2. PICK k \in Bad : \A m \in Bad : k <= m
  <2>1. Min(Bad) \in Bad /\ \A m \in Bad : Min(Bad) <= m
    BY <1>1, MinOfNats
  <2>2. QED
    BY <2>1
<1>3. CASE k = 0
  <2> DEFINE g == [l \in 0 .. 0 |-> s]
  <2>1. IsHidden(g, s, 0)
    BY DEF IsHidden
  <2>2. QED
    BY <1>2, <1>3, <2>1
<1>4. CASE k > 0
  <2>1. k - 1 \in Nat /\ k - 1 \notin Bad /\ k \in Nat
    BY <1>2, <1>4
  <2>2. PICK f : IsHidden(f, s, k - 1)
    BY <2>1
  <2> DEFINE g == [l \in 0 .. k |-> IF l < k THEN f[l] ELSE HiddenStep(s, f[l - 1])]
             step(e, l) == IF l = 0 THEN s ELSE HiddenStep(s, e[l - 1])
  <2>3. ASSUME NEW l \in 0 .. k PROVE g[l] = step(g, l)
    <3>1. l # 0 => l - 1 \in 0 .. k /\ l - 1 < k
      BY <2>1
    <3>2. l # 0 => g[l - 1] = f[l - 1]
      BY <3>1
    <3>3. CASE l < k
      <4>1. l \in 0 .. k - 1
        BY <2>1, <3>3
      <4>2. f[l] = step(f, l)
        BY <2>2, <4>1 DEF IsHidden
      <4>3. g[l] = f[l]
        BY <3>3
      <4> HIDE DEF g
      <4>4. QED
        BY <3>2, <4>2, <4>3
    <3>4. CASE l = k
      <4>1. g[l] = HiddenStep(s, f[l - 1]) /\ l # 0
        BY <1>4, <2>1, <3>4
      <4> HIDE DEF g
      <4>2. QED
        BY <3>2, <4>1
    <3>5. QED
      BY <2>1, <3>3, <3>4
  <2>4. IsHidden(g, s, k)
    <3>1. g = [l \in 0 .. k |-> g[l]]
      OBVIOUS
    <3>2. [l \in 0 .. k |-> g[l]] = [l \in 0 .. k |-> step(g, l)]
      <4> HIDE DEF g, step
      <4>1. QED
        BY <2>3
    <3> HIDE DEF g
    <3>3. QED
      BY <3>1, <3>2, Zenon DEF IsHidden
  <2>5. QED
    BY <1>2, <2>4
<1>5. QED
  BY <1>2, <1>3, <1>4

\* The rows of a model without a cache, layer by layer.
LEMMA RowsAre ==
  ASSUME NEW s
  PROVE  /\ Rows(s)[0] = s
         /\ \A l \in 1 .. Layers : Rows(s)[l] = HiddenStep(s, Rows(s)[l - 1])
         /\ Remembered!Hidden(s) = Rows(s)[Layers]
<1>1. Layers \in Nat \ {0}
  BY ModelAssumption
<1>2. IsHidden(Rows(s), s, Layers)
  BY <1>1, HiddenExists, Zenon DEF Rows
<1>3. \A l \in 0 .. Layers :
        Rows(s)[l] = IF l = 0 THEN s ELSE HiddenStep(s, Rows(s)[l - 1])
  <2> HIDE DEF Rows
  <2>1. QED
    BY <1>2 DEF IsHidden
<1>4. \A l \in 1 .. Layers : l \in 0 .. Layers /\ l # 0
  BY <1>1
<1>5. 0 \in 0 .. Layers
  BY <1>1
<1>6. Remembered!Hidden(s) = Rows(s)[Layers]
  BY Zenon DEF Remembered!Hidden, Rows, IsHidden, HiddenStep
<1>7. QED
  BY <1>3, <1>4, <1>5, <1>6

\* A row does not depend on the rows after it.
LEMMA RowsOfPrefix ==
  ASSUME NEW S, NEW s \in Seq(S), NEW t \in Seq(S), Len(s) <= Len(t),
         \A i \in 1 .. Len(s) : s[i] = t[i]
  PROVE  \A l \in 0 .. Layers : \A i \in 1 .. Len(s) : Rows(s)[l][i] = Rows(t)[l][i]
<1> DEFINE Same(l) == \A i \in 1 .. Len(s) : Rows(s)[l][i] = Rows(t)[l][i]
           Bad == {l \in 0 .. Layers : ~Same(l)}
<1>1. SUFFICES ASSUME Bad # {} PROVE FALSE
  OBVIOUS
<1>2. Layers \in Nat \ {0}
  BY ModelAssumption
<1>3. PICK l \in Bad : \A m \in Bad : l <= m
  <2>1. Bad \in SUBSET Nat
    BY <1>2
  <2> HIDE DEF Bad
  <2>2. QED
    BY <1>1, <2>1, MinOfNats
<1>4. l \in 0 .. Layers /\ ~Same(l)
  BY <1>3
<1>5. CASE l = 0
  <2>1. Rows(s)[l] = s /\ Rows(t)[l] = t
    BY <1>5, RowsAre
  <2>2. QED
    BY <1>4, <2>1
<1>6. CASE l # 0
  <2>1. l \in 1 .. Layers /\ l - 1 \in 0 .. Layers /\ ~ (l <= l - 1)
    BY <1>2, <1>4, <1>6
  <2>2. Same(l - 1)
    BY <1>3, <2>1
  <2>3. PICK x, y : x = Rows(s)[l - 1] /\ y = Rows(t)[l - 1]
    OBVIOUS
  <2>4. Rows(s)[l] = HiddenStep(s, x) /\ Rows(t)[l] = HiddenStep(t, y)
    BY <2>1, <2>3, RowsAre
  <2>5. \A i \in 1 .. Len(s) : x[i] = y[i]
    BY <2>2, <2>3
  <2>6. ASSUME NEW i \in 1 .. Len(s) PROVE HiddenStep(s, x)[i] = HiddenStep(t, y)[i]
    <3>1. i \in DOMAIN s /\ i \in DOMAIN t /\ \A j \in 1 .. i : j \in 1 .. Len(s)
      OBVIOUS
    <3>2. \A j \in 1 .. i : x[j] = y[j]
      BY <2>5, <3>1
    <3>3. x[i] = y[i]
      BY <2>5
    <3>4. {[q |-> <<x[i], i - 1>>, k |-> <<x[j], j - 1>>, v |-> x[j]] : j \in 1 .. i}
            = {[q |-> <<y[i], i - 1>>, k |-> <<y[j], j - 1>>, v |-> y[j]] : j \in 1 .. i}
      BY ONLY <3>2, <3>3
    <3>5. QED
      BY <3>1, <3>3, <3>4 DEF HiddenStep
  <2>7. Same(l)
    BY <2>4, <2>6
  <2>8. QED
    BY <1>4, <2>7
<1>7. QED
  BY <1>5, <1>6

\* Attention with one cell a row: a row looks at the rows up to its own.
LEMMA OneCellAttention ==
  ASSUME NEW at \in Nat, NEW seq \in Nat, NEW q, NEW k, NEW v
  PROVE  CpuAttention([q_len |-> seq, kv_len |-> at + seq, nhead |-> 1, nkvh |-> 1], q, k, v)
           = [p \in 0 .. seq - 1 |->
                {[q |-> q[p], k |-> k[r], v |-> v[r]] : r \in 0 .. at + p}]
<1>1. PICK S : S = [q_len |-> seq, kv_len |-> at + seq, nhead |-> 1, nkvh |-> 1]
  OBVIOUS
<1>2. S.q_len = seq /\ S.kv_len = at + seq /\ S.nhead = 1 /\ S.nkvh = 1
  BY <1>1
<1> DEFINE past == S.kv_len - S.q_len
           Out(i, h) == {[q |-> q[i * S.nhead + h],
                          k |-> k[h \div (S.nhead \div S.nkvh) + r * S.nkvh],
                          v |-> v[h \div (S.nhead \div S.nkvh) + r * S.nkvh]] :
                           r \in 0 .. past + i}
           In(p) == {[q |-> q[p], k |-> k[r], v |-> v[r]] : r \in 0 .. at + p}
<1>3. CpuAttention(S, q, k, v)
        = [o \in 0 .. S.q_len * S.nhead - 1 |-> Out(o \div S.nhead, o % S.nhead)]
  BY Zenon DEF CpuAttention
<1>4. 0 .. S.q_len * S.nhead - 1 = 0 .. seq - 1
  BY <1>2
<1>5. ASSUME NEW p \in 0 .. seq - 1 PROVE Out(p \div S.nhead, p % S.nhead) = In(p)
  <2>1. p \in Nat /\ p \div 1 = p /\ p % 1 = 0 /\ 1 \div 1 = 1 /\ 0 \div 1 = 0
    OBVIOUS
  <2>2. p * 1 + 0 = p /\ past + p = at + p
    BY <1>2, <2>1
  <2>3. \A r \in 0 .. at + p : 0 + r * 1 = r
    BY <2>1
  <2>4. Out(p, 0) = {[q |-> q[p], k |-> k[0 + r * 1], v |-> v[0 + r * 1]] : r \in 0 .. at + p}
    <3>1. S.nhead \div S.nkvh = 1 /\ 0 \div (S.nhead \div S.nkvh) = 0
      BY <1>2, <2>1
    <3> HIDE DEF past
    <3>2. QED
      BY <1>2, <2>2, <3>1
  <2>5. Out(p, 0) = In(p)
    <3> HIDE DEF Out
    <3>1. QED
      BY <2>3, <2>4
  <2>6. p \div S.nhead = p /\ p % S.nhead = 0
    BY <1>2, <2>1
  <2> HIDE DEF Out, In
  <2>7. QED
    BY <2>5, <2>6
<1>6. [o \in 0 .. seq - 1 |-> Out(o \div S.nhead, o % S.nhead)] = [p \in 0 .. seq - 1 |-> In(p)]
  <2> HIDE DEF Out, In
  <2>1. QED
    BY <1>5
<1>7. CpuAttention(S, q, k, v) = [p \in 0 .. seq - 1 |-> In(p)]
  <2> HIDE DEF Out, In
  <2>1. QED
    BY <1>3, <1>4, <1>6
<1>8. QED
  BY <1>1, <1>7

\* A slice of a cache: from row a to row b.
LEMMA SliceOfCache ==
  ASSUME NEW a \in Nat, NEW b \in Nat, a <= b
  PROVE  /\ Slice(Cache, 1, a, b).offset = a
         /\ Numel(Slice(Cache, 1, a, b).shape) = b - a
<1>1. RowMajor(<<MaxSeq>>)[1] = 1
  <2>1. SubSeq(<<MaxSeq>>, 1 + 1, Len(<<MaxSeq>>)) = << >> /\ 1 \in DOMAIN <<MaxSeq>>
    OBVIOUS
  <2>2. QED
    BY <2>1, NumelOfNone DEF RowMajor
<1>2. PICK c : c = Cache
  OBVIOUS
<1>3. c = [shape |-> <<MaxSeq>>, strides |-> RowMajor(<<MaxSeq>>), offset |-> 0]
  BY <1>2 DEF Cache, Create
<1>4. Slice(c, 1, a, b) = [c EXCEPT !.shape[1] = b - a, !.offset = @ + a * c.strides[1]]
  BY DEF Slice
<1>5. Slice(c, 1, a, b).offset = 0 + a * c.strides[1]
  BY <1>3, <1>4
<1>6. Slice(c, 1, a, b).shape = <<b - a>>
  <2>1. Slice(c, 1, a, b).shape = [c.shape EXCEPT ![1] = b - a]
    BY <1>3, <1>4
  <2>2. c.shape = <<MaxSeq>>
    BY <1>3
  <2>3. \A m : [<<m>> EXCEPT ![1] = b - a] = <<b - a>>
    OBVIOUS
  <2>4. QED
    BY <2>1, <2>2, <2>3
<1>7. c.strides[1] = 1
  BY <1>1, <1>3
<1>8. Slice(c, 1, a, b).offset = a
  BY <1>5, <1>7
<1>9. Numel(<<b - a>>) = b - a
  <2>1. b - a \in Nat
    OBVIOUS
  <2>2. QED
    BY <2>1, NumelOfOne
<1>10. QED
  BY <1>2, <1>6, <1>8, <1>9

\* Loading a slice replaces its rows.
LEMMA LoadOfRows ==
  ASSUME NEW at \in Nat, NEW seq \in Nat, NEW mem, NEW src
  PROVE  Load(mem, Slice(Cache, 1, at, at + seq), src)
           = [a \in DOMAIN mem |-> IF a - at \in 0 .. seq - 1 THEN src[a - at] ELSE mem[a]]
<1>1. PICK t : t = Slice(Cache, 1, at, at + seq)
  OBVIOUS
<1>2. t.offset = at /\ Numel(t.shape) = seq
  <2>1. at + seq \in Nat /\ at <= at + seq /\ (at + seq) - at = seq
    OBVIOUS
  <2>2. QED
    BY <1>1, <2>1, SliceOfCache
<1>3. Load(mem, t, src) = [a \in DOMAIN mem |->
        IF a - t.offset \in 0 .. Numel(t.shape) - 1 THEN src[a - t.offset] ELSE mem[a]]
  BY DEF Load
<1>4. QED
  BY <1>1, <1>2, <1>3

\* A buffer for every layer.
Buffers(c) == c = [l \in 1 .. Layers |-> [r \in 0 .. MaxSeq - 1 |-> c[l][r]]]

\* The rows below n of a layer's buffers are those of the tokens s.
Follows(k, v, s, l, n) ==
  \A r \in 0 .. n - 1 : /\ k[l][r] = <<Rows(s)[l - 1][r + 1], r>>
                        /\ v[l][r] = Rows(s)[l - 1][r + 1]

\* The rows of s after l layers from at on.
RowsFrom(s, l, at, seq) == [p \in 0 .. seq - 1 |-> Rows(s)[l][at + p + 1]]

\* A layer over the rows from at on makes the rows of the model without a cache.
LEMMA LayerFollows ==
  ASSUME NEW S, NEW s \in Seq(S), NEW at \in Nat, NEW seq \in Nat, Len(s) = at + seq,
         at + seq <= MaxSeq, NEW l \in 1 .. Layers, NEW st,
         st.x = RowsFrom(s, l - 1, at, seq),
         Buffers(st.k), Buffers(st.v), Follows(st.k, st.v, s, l, at),
         NEW st2, st2 = Layer(at, seq, st, l)
  PROVE  /\ st2.x = RowsFrom(s, l, at, seq)
         /\ Buffers(st2.k) /\ Buffers(st2.v)
         /\ \A m \in 1 .. Layers : m # l => st2.k[m] = st.k[m] /\ st2.v[m] = st.v[m]
         /\ Follows(st2.k, st2.v, s, l, at + seq)
<1> DEFINE x == Rows(s)[l - 1]
           roped == [p \in 0 .. seq - 1 |-> <<st.x[p], Position(at, p)>>]
           slot  == Slice(Cache, 1, at, at + seq)
           full  == Slice(Cache, 1, 0, at + seq)
           k     == Load(st.k[l], slot, roped)
           v     == Load(st.v[l], slot, st.x)
           qq    == [q_len |-> seq, kv_len |-> at + seq, nhead |-> 1, nkvh |-> 1]
           kk    == [r \in 0 .. at + seq - 1 |-> k[full.offset + r]]
           vv    == [r \in 0 .. at + seq - 1 |-> v[full.offset + r]]
           attn  == CpuAttention(qq, roped, kk, vv)
<1>1. MaxSeq \in Nat \ {0} /\ Layers \in Nat \ {0}
  BY ModelAssumption
<1>2. st2 = [x |-> [p \in 0 .. seq - 1 |-> <<st.x[p], attn[p]>>],
             k |-> [st.k EXCEPT ![l] = k], v |-> [st.v EXCEPT ![l] = v]]
  BY Zenon DEF Layer
<1>3. \A p \in 0 .. seq - 1 : st.x[p] = x[at + p + 1] /\ roped[p] = <<x[at + p + 1], at + p>>
  <2> HIDE DEF x
  <2>1. \A p \in 0 .. seq - 1 : st.x[p] = x[at + p + 1]
    BY DEF x, RowsFrom
  <2>2. QED
    BY <2>1 DEF Position
<1>4. /\ st.k \in [1 .. Layers -> {st.k[m] : m \in 1 .. Layers}]
      /\ st.v \in [1 .. Layers -> {st.v[m] : m \in 1 .. Layers}]
      /\ \A m \in 1 .. Layers :
           /\ st.k[m] = [r \in 0 .. MaxSeq - 1 |-> st.k[m][r]]
           /\ st.v[m] = [r \in 0 .. MaxSeq - 1 |-> st.v[m][r]]
  BY DEF Buffers
<1>5. /\ k = [r \in 0 .. MaxSeq - 1 |-> IF r - at \in 0 .. seq - 1 THEN roped[r - at] ELSE st.k[l][r]]
      /\ v = [r \in 0 .. MaxSeq - 1 |-> IF r - at \in 0 .. seq - 1 THEN st.x[r - at] ELSE st.v[l][r]]
  <2>1. DOMAIN st.k[l] = 0 .. MaxSeq - 1 /\ DOMAIN st.v[l] = 0 .. MaxSeq - 1
    BY <1>4
  <2>2. /\ k = [r \in DOMAIN st.k[l] |->
                 IF r - at \in 0 .. seq - 1 THEN roped[r - at] ELSE st.k[l][r]]
        /\ v = [r \in DOMAIN st.v[l] |->
                 IF r - at \in 0 .. seq - 1 THEN st.x[r - at] ELSE st.v[l][r]]
    <3> HIDE DEF roped
    <3>1. \A mem, src : Load(mem, slot, src) =
            [a \in DOMAIN mem |-> IF a - at \in 0 .. seq - 1 THEN src[a - at] ELSE mem[a]]
      BY LoadOfRows
    <3>2. k = Load(st.k[l], slot, roped) /\ v = Load(st.v[l], slot, st.x)
      OBVIOUS
    <3> HIDE DEF slot, k, v
    <3>3. QED
      BY ONLY <3>1, <3>2
  <2> HIDE DEF roped, k, v
  <2>3. QED
    BY <2>1, <2>2
<1> HIDE DEF k, v
<1>6. \A r \in 0 .. at + seq - 1 : k[r] = <<x[r + 1], r>> /\ v[r] = x[r + 1]
  <2>1. ASSUME NEW r \in 0 .. at + seq - 1 PROVE k[r] = <<x[r + 1], r>> /\ v[r] = x[r + 1]
    <3>1. r \in 0 .. MaxSeq - 1
      BY <1>1
    <3>2. CASE r - at \in 0 .. seq - 1
      <4>1. k[r] = roped[r - at] /\ v[r] = st.x[r - at]
        <5> HIDE DEF roped
        <5>1. QED
          BY <1>5, <3>1, <3>2
      <4>2. at + (r - at) = r /\ at + (r - at) + 1 = r + 1
        OBVIOUS
      <4>3. /\ st.x[r - at] = x[at + (r - at) + 1]
            /\ roped[r - at] = <<x[at + (r - at) + 1], at + (r - at)>>
        <5> HIDE DEF roped, x
        <5>1. QED
          BY <1>3, <3>2
      <4> HIDE DEF roped, x
      <4>4. QED
        BY <4>1, <4>2, <4>3
    <3>3. CASE r - at \notin 0 .. seq - 1
      <4>1. r \in 0 .. at - 1
        BY <3>3
      <4>2. k[r] = st.k[l][r] /\ v[r] = st.v[l][r]
        BY <1>5, <3>1, <3>3
      <4>3. QED
        BY <4>1, <4>2 DEF Follows
    <3>4. QED
      BY <3>2, <3>3
  <2>2. QED
    BY <2>1
<1>7. full.offset = 0
  <2>1. 0 \in Nat /\ at + seq \in Nat /\ 0 <= at + seq
    OBVIOUS
  <2>2. QED
    BY ONLY <2>1, SliceOfCache
<1> HIDE DEF full
<1>8. \A r \in 0 .. at + seq - 1 : kk[r] = <<x[r + 1], r>> /\ vv[r] = x[r + 1]
  <2>1. \A r \in 0 .. at + seq - 1 : 0 + r = r
    OBVIOUS
  <2> HIDE DEF x
  <2>2. QED
    BY <1>6, <1>7, <2>1
<1>9. attn = [p \in 0 .. seq - 1 |->
                {[q |-> roped[p], k |-> kk[r], v |-> vv[r]] : r \in 0 .. at + p}]
  <2> HIDE DEF roped, kk, vv
  <2>1. \A q0, k0, v0 : CpuAttention(qq, q0, k0, v0) =
          [p \in 0 .. seq - 1 |->
             {[q |-> q0[p], k |-> k0[r], v |-> v0[r]] : r \in 0 .. at + p}]
    BY OneCellAttention
  <2> HIDE DEF qq
  <2>2. QED
    BY <2>1
<1> HIDE DEF attn, kk, vv, roped
<1>10. Rows(s)[l] = HiddenStep(s, x)
  BY RowsAre
<1>11. ASSUME NEW p \in 0 .. seq - 1
       PROVE  <<st.x[p], attn[p]>> = Rows(s)[l][at + p + 1]
  <2>1. at + p + 1 \in DOMAIN s /\ (at + p + 1) - 1 = at + p /\ at + p \in Nat
    OBVIOUS
  <2>2. Rows(s)[l][at + p + 1]
          = <<x[at + p + 1], {[q |-> <<x[at + p + 1], at + p>>, k |-> <<x[j], j - 1>>, v |-> x[j]] :
                                j \in 1 .. at + p + 1}>>
    <3> HIDE DEF x
    <3>1. QED
      BY <1>10, <2>1 DEF HiddenStep
  <2> DEFINE A == {[q |-> roped[p], k |-> kk[r], v |-> vv[r]] : r \in 0 .. at + p}
             B == {[q |-> <<x[at + p + 1], at + p>>, k |-> <<x[j], j - 1>>, v |-> x[j]] :
                                j \in 1 .. at + p + 1}
  <2>3. attn[p] = A
    BY <1>9
  <2>4. roped[p] = <<x[at + p + 1], at + p>> /\ st.x[p] = x[at + p + 1]
    BY <1>3
  <2>5. A = B
    <3>1. \A r \in 0 .. at + p : /\ r \in 0 .. at + seq - 1 /\ r + 1 \in 1 .. at + p + 1
                                 /\ (r + 1) - 1 = r
      OBVIOUS
    <3>2. \A j \in 1 .. at + p + 1 : j - 1 \in 0 .. at + p /\ (j - 1) + 1 = j
      OBVIOUS
    <3>3. \A r \in 0 .. at + p : kk[r] = <<x[r + 1], (r + 1) - 1>> /\ vv[r] = x[r + 1]
      <4> HIDE DEF x
      <4>1. QED
        BY <1>8, <3>1
    <3> HIDE DEF x
    <3>4. \A e \in A : e \in B
      <4>1. ASSUME NEW r \in 0 .. at + p
            PROVE  [q |-> roped[p], k |-> kk[r], v |-> vv[r]] \in B
        BY <2>4, <3>1, <3>3
      <4>2. QED
        BY <4>1
    <3>5. \A e \in B : e \in A
      <4>1. ASSUME NEW j \in 1 .. at + p + 1
            PROVE  [q |-> <<x[at + p + 1], at + p>>, k |-> <<x[j], j - 1>>, v |-> x[j]] \in A
        <5>1. j - 1 \in 0 .. at + p /\ kk[j - 1] = <<x[j], j - 1>> /\ vv[j - 1] = x[j]
          BY <3>2, <3>3
        <5>2. QED
          BY <2>4, <5>1
      <4>2. QED
        BY <4>1
    <3>6. QED
      BY <3>4, <3>5
  <2> HIDE DEF A, B, x
  <2>6. QED
    BY <2>2, <2>3, <2>4, <2>5 DEF B
<1>12. st2.x = RowsFrom(s, l, at, seq)
  <2>1. st2.x = [p \in 0 .. seq - 1 |-> <<st.x[p], attn[p]>>]
    BY <1>2
  <2>2. QED
    BY <1>11, <2>1 DEF RowsFrom
<1>13. st2.k = [st.k EXCEPT ![l] = k] /\ st2.v = [st.v EXCEPT ![l] = v]
  BY <1>2
<1>14. /\ DOMAIN st2.k = 1 .. Layers /\ DOMAIN st2.v = 1 .. Layers
       /\ st2.k[l] = k /\ st2.v[l] = v
       /\ \A m \in 1 .. Layers : m # l => st2.k[m] = st.k[m] /\ st2.v[m] = st.v[m]
       /\ st2.k = [m \in 1 .. Layers |-> st2.k[m]] /\ st2.v = [m \in 1 .. Layers |-> st2.v[m]]
  <2> HIDE <1>2
  <2>1. QED
    BY <1>4, <1>13
<1>15. Buffers(st2.k) /\ Buffers(st2.v)
  <2>1. k = [r \in 0 .. MaxSeq - 1 |-> k[r]] /\ v = [r \in 0 .. MaxSeq - 1 |-> v[r]]
    BY <1>5
  <2>2. \A m \in 1 .. Layers :
          /\ st2.k[m] = [r \in 0 .. MaxSeq - 1 |-> st2.k[m][r]]
          /\ st2.v[m] = [r \in 0 .. MaxSeq - 1 |-> st2.v[m][r]]
    <3>1. ASSUME NEW m \in 1 .. Layers, m = l
          PROVE  /\ st2.k[m] = [r \in 0 .. MaxSeq - 1 |-> st2.k[m][r]]
                 /\ st2.v[m] = [r \in 0 .. MaxSeq - 1 |-> st2.v[m][r]]
      <4>1. st2.k[m] = k /\ st2.v[m] = v
        BY <1>14, <3>1
      <4>2. QED
        BY ONLY <2>1, <4>1
    <3>2. ASSUME NEW m \in 1 .. Layers, m # l
          PROVE  /\ st2.k[m] = [r \in 0 .. MaxSeq - 1 |-> st2.k[m][r]]
                 /\ st2.v[m] = [r \in 0 .. MaxSeq - 1 |-> st2.v[m][r]]
      <4>1. st2.k[m] = st.k[m] /\ st2.v[m] = st.v[m]
        BY <1>14, <3>2
      <4>2. /\ st.k[m] = [r \in 0 .. MaxSeq - 1 |-> st.k[m][r]]
            /\ st.v[m] = [r \in 0 .. MaxSeq - 1 |-> st.v[m][r]]
        BY <1>4
      <4>3. QED
        BY ONLY <4>1, <4>2
    <3>3. QED
      BY <3>1, <3>2
  <2> HIDE <1>2, <1>13
  <2>3. QED
    BY <1>14, <2>2, Zenon DEF Buffers
<1>16. Follows(st2.k, st2.v, s, l, at + seq)
  BY <1>6, <1>14 DEF Follows
<1>17. QED
  BY <1>12, <1>14, <1>15, <1>16

-----------------------------------------------------------------------------
\* The states between the layers of a forward.
RunStep(ids, at, k, v, st, l) ==
  IF l = 0 THEN [x |-> [p \in 0 .. Len(ids) - 1 |-> ids[p + 1]], k |-> k, v |-> v]
  ELSE Layer(at, Len(ids), st[l - 1], l)
IsRun(st, ids, at, k, v, n) == st = [l \in 0 .. n |-> RunStep(ids, at, k, v, st, l)]

LEMMA RunExists ==
  ASSUME NEW ids, NEW at, NEW k, NEW v, NEW n \in Nat
  PROVE  \E st : IsRun(st, ids, at, k, v, n)
<1> DEFINE Bad == {b \in Nat : ~ \E st : IsRun(st, ids, at, k, v, b)}
<1>1. SUFFICES ASSUME Bad # {} PROVE FALSE
  OBVIOUS
<1>2. PICK b \in Bad : \A m \in Bad : b <= m
  <2>1. Min(Bad) \in Bad /\ \A m \in Bad : Min(Bad) <= m
    BY <1>1, MinOfNats
  <2>2. QED
    BY <2>1
<1>3. CASE b = 0
  <2> DEFINE g == [l \in 0 .. 0 |-> [x |-> [p \in 0 .. Len(ids) - 1 |-> ids[p + 1]],
                                     k |-> k, v |-> v]]
  <2>1. \A l \in 0 .. 0 : RunStep(ids, at, k, v, g, l)
                            = [x |-> [p \in 0 .. Len(ids) - 1 |-> ids[p + 1]], k |-> k, v |-> v]
    BY DEF RunStep
  <2>2. IsRun(g, ids, at, k, v, 0)
    <3>1. [l \in 0 .. 0 |-> RunStep(ids, at, k, v, g, l)] = g
      <4>1. QED
        BY <2>1
    <3>2. QED
      BY <3>1 DEF IsRun
  <2>3. QED
    BY <1>2, <1>3, <2>2
<1>4. CASE b > 0
  <2>1. b - 1 \in Nat /\ b - 1 \notin Bad /\ b \in Nat
    BY <1>2, <1>4
  <2>2. PICK f : IsRun(f, ids, at, k, v, b - 1)
    BY <2>1
  <2> DEFINE g == [l \in 0 .. b |-> IF l < b THEN f[l] ELSE Layer(at, Len(ids), f[l - 1], l)]
  <2>3. ASSUME NEW l \in 0 .. b PROVE g[l] = RunStep(ids, at, k, v, g, l)
    <3>1. l # 0 => l - 1 \in 0 .. b /\ l - 1 < b
      BY <2>1
    <3>2. l # 0 => g[l - 1] = f[l - 1]
      BY <3>1
    <3>3. CASE l < b
      <4>1. l \in 0 .. b - 1
        BY <2>1, <3>3
      <4>2. f[l] = RunStep(ids, at, k, v, f, l)
        BY <2>2, <4>1 DEF IsRun
      <4>3. g[l] = f[l]
        BY <3>3
      <4> HIDE DEF g
      <4>4. QED
        BY <3>2, <4>2, <4>3 DEF RunStep
    <3>4. CASE l = b
      <4>1. g[l] = Layer(at, Len(ids), f[l - 1], l) /\ l # 0
        BY <1>4, <2>1, <3>4
      <4> HIDE DEF g
      <4>2. QED
        BY <3>2, <4>1 DEF RunStep
    <3>5. QED
      BY <2>1, <3>3, <3>4
  <2>4. IsRun(g, ids, at, k, v, b)
    <3>1. g = [l \in 0 .. b |-> g[l]]
      OBVIOUS
    <3>2. [l \in 0 .. b |-> g[l]] = [l \in 0 .. b |-> RunStep(ids, at, k, v, g, l)]
      <4> HIDE DEF g
      <4>1. QED
        BY <2>3
    <3> HIDE DEF g
    <3>3. QED
      BY <3>1, <3>2 DEF IsRun
  <2>5. QED
    BY <1>2, <2>4
<1>5. QED
  BY <1>2, <1>3, <1>4

\* What a forward has done after l layers.
RunUpTo(st, s, at, seq, l) ==
  /\ st.x = RowsFrom(s, l, at, seq)
  /\ Buffers(st.k) /\ Buffers(st.v)
  /\ \A m \in 1 .. Layers : Follows(st.k, st.v, s, m, IF m <= l THEN at + seq ELSE at)

\* A forward over tokens at the end of s, from caches that follow s up to them,
\* makes the rows of the model without a cache, and its caches follow s.
LEMMA RunFollows ==
  ASSUME NEW S, NEW s \in Seq(S), NEW ids, NEW at \in Nat, NEW seq \in Nat, seq = Len(ids),
         Len(s) = at + seq, at + seq <= MaxSeq,
         \A p \in 0 .. seq - 1 : s[at + p + 1] = ids[p + 1],
         NEW k, NEW v, Buffers(k), Buffers(v),
         \A l \in 1 .. Layers : Follows(k, v, s, l, at),
         NEW r, r = Run(ids, at, k, v)
  PROVE  RunUpTo(r, s, at, seq, Layers)
<1>1. Layers \in Nat \ {0}
  BY ModelAssumption
<1>2. PICK st : IsRun(st, ids, at, k, v, Layers) /\ r = st[Layers]
  <2> DEFINE st == CHOOSE st : IsRun(st, ids, at, k, v, Layers)
  <2>1. IsRun(st, ids, at, k, v, Layers)
    BY <1>1, RunExists, Zenon
  <2>2. r = st[Layers]
    BY Zenon DEF Run, IsRun, RunStep
  <2>3. QED
    BY <2>1, <2>2, Zenon
<1>3. /\ st[0] = [x |-> [p \in 0 .. seq - 1 |-> ids[p + 1]], k |-> k, v |-> v]
      /\ \A l \in 1 .. Layers : st[l] = Layer(at, seq, st[l - 1], l)
  <2>1. \A l \in 0 .. Layers : st[l] = RunStep(ids, at, k, v, st, l)
    BY <1>2 DEF IsRun
  <2>2. 0 \in 0 .. Layers /\ \A l \in 1 .. Layers : l \in 0 .. Layers /\ l # 0
    BY <1>1
  <2>3. QED
    BY <2>1, <2>2 DEF RunStep
<1> DEFINE Bad == {l \in 0 .. Layers : ~RunUpTo(st[l], s, at, seq, l)}
<1>4. ASSUME Bad # {} PROVE FALSE
  <2>1. PICK l \in Bad : \A m \in Bad : l <= m
    <3>1. Bad \in SUBSET Nat
      BY <1>1
    <3> HIDE DEF Bad
    <3>2. QED
      BY <1>4, <3>1, MinOfNats
  <2>2. l \in 0 .. Layers /\ ~RunUpTo(st[l], s, at, seq, l)
    BY <2>1
  <2>3. CASE l = 0
    <3>1. st[l].x = [p \in 0 .. seq - 1 |-> ids[p + 1]] /\ st[l].k = k /\ st[l].v = v
      <4>1. st[l] = [x |-> [p \in 0 .. seq - 1 |-> ids[p + 1]], k |-> k, v |-> v]
        BY <1>3, <2>3
      <4>2. QED
        BY ONLY <4>1
    <3>2. st[l].x = RowsFrom(s, l, at, seq)
      <4>1. Rows(s)[l] = s
        BY <2>3, RowsAre
      <4>2. QED
        BY <3>1, <4>1 DEF RowsFrom
    <3>3. \A m \in 1 .. Layers : ~ (m <= l)
      BY <1>1, <2>3
    <3>4. RunUpTo(st[l], s, at, seq, l)
      BY <3>1, <3>2, <3>3 DEF RunUpTo
    <3>5. QED
      BY <2>2, <3>4
  <2>4. CASE l # 0
    <3>1. l \in 1 .. Layers /\ l - 1 \in 0 .. Layers /\ ~ (l <= l - 1)
      BY <1>1, <2>2, <2>4
    <3>2. RunUpTo(st[l - 1], s, at, seq, l - 1)
      BY <2>1, <3>1
    <3>3. PICK a, b : a = st[l - 1] /\ b = st[l]
      OBVIOUS
    <3>4. /\ a.x = RowsFrom(s, l - 1, at, seq)
          /\ Buffers(a.k) /\ Buffers(a.v)
          /\ \A m \in 1 .. Layers :
               Follows(a.k, a.v, s, m, IF m <= l - 1 THEN at + seq ELSE at)
      BY <3>2, <3>3 DEF RunUpTo
    <3>5. b = Layer(at, seq, a, l)
      BY <1>3, <3>1, <3>3
    <3>6. Follows(a.k, a.v, s, l, at)
      BY <3>1, <3>4
    <3>7. /\ b.x = RowsFrom(s, l, at, seq)
          /\ Buffers(b.k) /\ Buffers(b.v)
          /\ \A m \in 1 .. Layers : m # l => b.k[m] = a.k[m] /\ b.v[m] = a.v[m]
          /\ Follows(b.k, b.v, s, l, at + seq)
      <4>1. /\ s \in Seq(S) /\ at \in Nat /\ seq \in Nat /\ Len(s) = at + seq
            /\ at + seq <= MaxSeq /\ l \in 1 .. Layers
            /\ a.x = RowsFrom(s, l - 1, at, seq)
            /\ Buffers(a.k) /\ Buffers(a.v) /\ Follows(a.k, a.v, s, l, at)
            /\ b = Layer(at, seq, a, l)
        BY <3>1, <3>4, <3>5, <3>6
      <4>2. QED
        BY ONLY <4>1, LayerFollows
    <3>8. \A m \in 1 .. Layers : Follows(b.k, b.v, s, m, IF m <= l THEN at + seq ELSE at)
      <4>1. ASSUME NEW m \in 1 .. Layers
            PROVE  Follows(b.k, b.v, s, m, IF m <= l THEN at + seq ELSE at)
        <5>1. CASE m = l
          BY <1>1, <3>7, <5>1
        <5>2. CASE m # l
          <6>1. b.k[m] = a.k[m] /\ b.v[m] = a.v[m]
            BY <3>7, <5>2
          <6>2. m <= l <=> m <= l - 1
            BY <1>1, <3>1, <5>2
          <6>3. Follows(a.k, a.v, s, m, IF m <= l THEN at + seq ELSE at)
            BY <3>4, <6>2
          <6>4. QED
            BY <6>1, <6>3 DEF Follows
        <5>3. QED
          BY <5>1, <5>2
      <4>2. QED
        BY <4>1
    <3>9. RunUpTo(b, s, at, seq, l)
      BY <3>7, <3>8 DEF RunUpTo
    <3>10. QED
      BY <2>2, <3>3, <3>9
  <2>5. QED
    BY <2>3, <2>4
<1>5. Layers \in 0 .. Layers
  BY <1>1
<1>6. QED
  BY <1>2, <1>4, <1>5

-----------------------------------------------------------------------------
\* What the session remembers.
Tokens == [i \in 1 .. pos |-> v_cache[1][i - 1]]

\* The rows of the caches up to pos are those of the model without a cache.
DenseInv ==
  /\ pos \in 0 .. MaxSeq /\ (~open => pos = 0)
  /\ Buffers(k_cache) /\ Buffers(v_cache)
  /\ \A l \in 1 .. Layers : Follows(k_cache, v_cache, Tokens, l, pos)

LEMMA FollowsPrefix ==
  ASSUME NEW S, NEW s \in Seq(S), NEW t \in Seq(S), Len(s) <= Len(t),
         \A i \in 1 .. Len(s) : s[i] = t[i], NEW n \in Nat, n <= Len(s),
         NEW k, NEW v, NEW l \in 1 .. Layers
  PROVE  Follows(k, v, s, l, n) <=> Follows(k, v, t, l, n)
<1>1. l - 1 \in 0 .. Layers
  BY ModelAssumption
<1>2. \A i \in 1 .. Len(s) : Rows(s)[l - 1][i] = Rows(t)[l - 1][i]
  <2>1. /\ s \in Seq(S) /\ t \in Seq(S) /\ Len(s) <= Len(t)
        /\ \A i \in 1 .. Len(s) : s[i] = t[i]
    OBVIOUS
  <2>2. \A m \in 0 .. Layers : \A i \in 1 .. Len(s) : Rows(s)[m][i] = Rows(t)[m][i]
    BY ONLY <2>1, RowsOfPrefix
  <2>3. QED
    BY <1>1, <2>2
<1>3. \A r \in 0 .. n - 1 : r + 1 \in 1 .. Len(s)
  OBVIOUS
<1>4. \A r \in 0 .. n - 1 : Rows(s)[l - 1][r + 1] = Rows(t)[l - 1][r + 1]
  BY <1>2, <1>3
<1>5. QED
  BY <1>4 DEF Follows

LEMMA ZeroBuffers == Buffers(ZeroCache)
<1>1. \A l \in 1 .. Layers : ZeroCache[l] = [r \in 0 .. MaxSeq - 1 |-> Zero]
  BY DEF ZeroCache
<1>2. \A l \in 1 .. Layers : ZeroCache[l] = [r \in 0 .. MaxSeq - 1 |-> ZeroCache[l][r]]
  BY <1>1
<1>3. ZeroCache = [l \in 1 .. Layers |-> ZeroCache[l]]
  BY DEF ZeroCache
<1>4. QED
  BY <1>2, <1>3, Zenon DEF Buffers

LEMMA FollowsNothing ==
  ASSUME NEW k, NEW v, NEW s, NEW l
  PROVE  Follows(k, v, s, l, 0)
  BY DEF Follows

\* The model without a cache over the tokens s ends in the last row.
LEMMA OutputIs ==
  ASSUME NEW s
  PROVE  Remembered!Output(s) = Rows(s)[Layers][Len(s)]
  BY RowsAre DEF Remembered!Output

LEMMA TokensAre ==
  ASSUME DenseInv
  PROVE  \E S : Tokens \in Seq(S) /\ Len(Tokens) = pos /\ pos \in Nat
<1>1. pos \in Nat
  BY ModelAssumption DEF DenseInv
<1>2. PICK S : S = {v_cache[1][i - 1] : i \in 1 .. pos}
  OBVIOUS
<1>3. Tokens \in [1 .. pos -> S]
  BY <1>2 DEF Tokens
<1>4. Tokens \in Seq(S) /\ Len(Tokens) = pos
  BY <1>1, <1>3
<1>5. QED
  BY <1>1, <1>4

LEMMA DenseInit_Inv ==
  ASSUME DenseInit
  PROVE  DenseInv /\ Remembered!Init
<1>1. /\ open = FALSE /\ pos = 0 /\ answer = Failed
      /\ k_cache = ZeroCache /\ v_cache = ZeroCache
  BY DEF DenseInit
<1>2. pos \in 0 .. MaxSeq
  BY <1>1, ModelAssumption
<1>3. DenseInv
  BY <1>1, <1>2, ZeroBuffers, FollowsNothing DEF DenseInv
<1>4. Tokens = << >>
  BY <1>1 DEF Tokens
<1>5. QED
  BY <1>1, <1>3, <1>4, Zenon DEF Remembered!Init, Tokens

\* An empty session, with the caches of a new one.
LEMMA EmptySession ==
  ASSUME pos' = 0, k_cache' = ZeroCache, v_cache' = ZeroCache
  PROVE  DenseInv' /\ Tokens' = << >>
<1>1. pos' \in 0 .. MaxSeq
  BY ModelAssumption
<1>2. Buffers(k_cache)' /\ Buffers(v_cache)'
  BY ZeroBuffers DEF Buffers
<1>3. \A l \in 1 .. Layers : Follows(k_cache, v_cache, Tokens, l, pos)'
  BY DEF Follows
<1>4. DenseInv'
  BY <1>1, <1>2, <1>3 DEF DenseInv
<1>5. Tokens' = << >>
  BY DEF Tokens
<1>6. QED
  BY <1>4, <1>5

LEMMA CreateFollows ==
  ASSUME CreateSession
  PROVE  DenseInv' /\ Remembered!Open
<1>1. /\ ~open /\ open' = TRUE /\ pos' = 0 /\ answer' = answer
      /\ k_cache' = ZeroCache /\ v_cache' = ZeroCache
  BY DEF CreateSession
<1>2. DenseInv' /\ Tokens' = << >>
  BY <1>1, EmptySession
<1>3. QED
  BY <1>1, <1>2, Zenon DEF Remembered!Open, Tokens

LEMMA DestroyFollows ==
  ASSUME DestroySession
  PROVE  DenseInv' /\ Remembered!Close
<1>1. /\ open /\ open' = FALSE /\ pos' = 0 /\ answer' = answer
      /\ k_cache' = ZeroCache /\ v_cache' = ZeroCache
  BY DEF DestroySession
<1>2. DenseInv' /\ Tokens' = << >>
  BY <1>1, EmptySession
<1>3. QED
  BY <1>1, <1>2, Zenon DEF Remembered!Close, Tokens

\* A rewind keeps the first len tokens, and their rows.
LEMMA RewindFollows ==
  ASSUME DenseInv, NEW len \in 0 .. MaxSeq, RewindSession(len)
  PROVE  DenseInv' /\ Remembered!Rewind
<1>1. /\ open /\ len <= pos /\ pos' = len
      /\ open' = open /\ k_cache' = k_cache /\ v_cache' = v_cache /\ answer' = answer
  BY DEF RewindSession
<1>2. PICK S : Tokens \in Seq(S) /\ Len(Tokens) = pos /\ pos \in Nat
  BY TokensAre
<1>3. len \in Nat /\ len \in 0 .. Len(Tokens)
  BY <1>1, <1>2, ModelAssumption
<1>4. PICK t : t = SubSeq(Tokens, 1, len)
  OBVIOUS
<1>5. /\ t \in Seq(S) /\ Len(t) = len /\ \A i \in 1 .. len : t[i] = Tokens[i]
  BY <1>2, <1>3, <1>4
<1>6. Tokens' = t
  <2>1. Tokens' = [i \in 1 .. len |-> v_cache[1][i - 1]]
    BY <1>1 DEF Tokens
  <2>2. \A i \in 1 .. len : t[i] = v_cache[1][i - 1]
    <3>1. \A i \in 1 .. len : i \in 1 .. pos
      BY <1>1, <1>2, <1>3
    <3>2. QED
      BY <1>5, <3>1 DEF Tokens
  <2>3. t = [i \in 1 .. len |-> t[i]]
    BY <1>3, <1>5
  <2>4. QED
    BY <2>1, <2>2, <2>3
<1>7. \A l \in 1 .. Layers : Follows(k_cache, v_cache, t, l, len)
  <2>1. ASSUME NEW l \in 1 .. Layers PROVE Follows(k_cache, v_cache, t, l, len)
    <3>1. Follows(k_cache, v_cache, Tokens, l, pos)
      BY DEF DenseInv
    <3>2. Follows(k_cache, v_cache, Tokens, l, len)
      <4>1. \A r \in 0 .. len - 1 : r \in 0 .. pos - 1
        BY <1>1, <1>2, <1>3
      <4>2. QED
        BY <3>1, <4>1 DEF Follows
    <3>3. Len(t) <= Len(Tokens) /\ len <= Len(t)
      BY <1>1, <1>2, <1>3, <1>5
    <3>4. QED
      BY <1>2, <1>3, <1>5, <3>2, <3>3, FollowsPrefix
  <2>2. QED
    BY <2>1
<1>8. DenseInv'
  <2>1. Buffers(k_cache)' /\ Buffers(v_cache)'
    BY <1>1 DEF DenseInv, Buffers
  <2>2. \A l \in 1 .. Layers : Follows(k_cache, v_cache, Tokens, l, pos)'
    BY <1>1, <1>6, <1>7 DEF Follows
  <2>3. QED
    BY <1>1, <2>1, <2>2 DEF DenseInv
<1>9. \E n \in 0 .. Len(Tokens) :
        open /\ Tokens' = SubSeq(Tokens, 1, n) /\ open' = open /\ answer' = answer
  BY <1>1, <1>3, <1>4, <1>6
<1>10. Remembered!Rewind
  BY <1>9, Zenon DEF Remembered!Rewind, Tokens
<1>11. QED
  BY <1>8, <1>10

\* What is fed is a sequence, with a last element.
LEMMA InputIs ==
  ASSUME NEW ids \in Inputs
  PROVE  /\ ids \in Seq(ToSet(ids)) /\ Len(ids) \in Nat \ {0}
         /\ \A p \in 0 .. Len(ids) - 1 : ids[p + 1] \in ToSet(ids)
<1>1. ids \in Seq(ToSet(ids)) /\ ids # << >>
  BY ModelAssumption
<1>2. QED
  BY <1>1

\* The answer of a forward over the tokens at the end of s is that of s.
LEMMA LastRowOutput ==
  ASSUME NEW S, NEW s \in Seq(S), NEW ids \in Inputs, NEW at \in Nat,
         Len(s) = at + Len(ids), NEW st, RunUpTo(st, s, at, Len(ids), Layers)
  PROVE  LastRow(st, ids) = Remembered!Output(s)
<1>1. Len(ids) \in Nat \ {0}
  BY InputIs
<1>2. st.x = RowsFrom(s, Layers, at, Len(ids))
  BY DEF RunUpTo
<1>3. /\ Len(ids) - 1 \in 0 .. Len(ids) - 1
      /\ at + (Len(ids) - 1) + 1 = Len(s)
  BY <1>1
<1>4. st.x[Len(ids) - 1] = Rows(s)[Layers][at + (Len(ids) - 1) + 1]
  BY <1>2, <1>3 DEF RowsFrom
<1>5. LastRow(st, ids) = Rows(s)[Layers][Len(s)]
  BY <1>3, <1>4 DEF LastRow
<1>6. QED
  BY <1>5, OutputIs

LEMMA FollowsValue ==
  ASSUME NEW k, NEW v, NEW s, NEW l, NEW n, Follows(k, v, s, l, n)
  PROVE  \A r \in 0 .. n - 1 : v[l][r] = Rows(s)[l - 1][r + 1]
BY DEF Follows

\* A forward runs the new tokens against the rows of those before.
LEMMA ForwardFollows ==
  ASSUME DenseInv, NEW ids \in Inputs, Forward(ids)
  PROVE  DenseInv' /\ Remembered!Forward
<1>1. PICK S0 : Tokens \in Seq(S0) /\ Len(Tokens) = pos /\ pos \in Nat
  BY TokensAre
<1>2. ids \in Seq(ToSet(ids)) /\ Len(ids) \in Nat \ {0}
  BY InputIs
<1>3. open /\ open' = open /\ MaxSeq \in Nat
  BY ModelAssumption DEF Forward
<1>4. CASE pos + Len(ids) > MaxSeq
  <2>1. answer' = Failed /\ k_cache' = k_cache /\ v_cache' = v_cache /\ pos' = pos
    BY <1>4 DEF Forward
  <2>2. Tokens' = Tokens
    BY <2>1 DEF Tokens
  <2>3. DenseInv'
    BY <1>3, <2>1, <2>2 DEF DenseInv, Buffers, Follows
  <2>4. Len(Tokens) + Len(ids) > MaxSeq
    BY <1>1, <1>4
  <2>5. Remembered!Forward
    BY <1>3, <2>1, <2>2, <2>4, Zenon DEF Remembered!Forward, Tokens
  <2>6. QED
    BY <2>3, <2>5
<1>5. CASE ~ (pos + Len(ids) > MaxSeq)
  <2>1. PICK st : st = Run(ids, pos, k_cache, v_cache)
    OBVIOUS
  <2>2. /\ k_cache' = st.k /\ v_cache' = st.v /\ answer' = LastRow(st, ids)
        /\ pos' = pos + Len(ids)
    BY <1>5, <2>1 DEF Forward
  <2>3. PICK s : s = Tokens \o ids
    OBVIOUS
  <2>4. PICK S : S = S0 \cup ToSet(ids)
    OBVIOUS
  <2>5. Tokens \in Seq(S) /\ ids \in Seq(S)
    BY <1>1, <1>2, <2>4
  <2>6. /\ s \in Seq(S) /\ Len(s) = pos + Len(ids)
        /\ \A i \in 1 .. pos : s[i] = Tokens[i]
        /\ \A p \in 0 .. Len(ids) - 1 : s[pos + p + 1] = ids[p + 1]
    <3>1. s \in Seq(S) /\ Len(s) = pos + Len(ids)
      <4>1. s \in Seq(S) /\ Len(s) = Len(Tokens) + Len(ids)
        BY ONLY <2>3, <2>5
      <4>2. QED
        BY <1>1, <4>1
    <3>2. \A i \in 1 .. pos : s[i] = Tokens[i]
      BY <1>1, <1>2, <2>3, <2>5
    <3>3. \A i \in 1 .. Len(ids) : s[pos + i] = ids[i]
      BY <1>1, <1>2, <2>3, <2>5
    <3>4. ASSUME NEW p \in 0 .. Len(ids) - 1 PROVE s[pos + p + 1] = ids[p + 1]
      <4>1. p + 1 \in 1 .. Len(ids) /\ pos + (p + 1) = pos + p + 1
        BY <1>1, <1>2
      <4>2. s[pos + (p + 1)] = ids[p + 1]
        BY <3>3, <4>1
      <4>3. QED
        BY <4>1, <4>2
    <3>5. QED
      BY <3>1, <3>2, <3>4
  <2>7. \A l \in 1 .. Layers : Follows(k_cache, v_cache, s, l, pos)
    <3>1. ASSUME NEW l \in 1 .. Layers PROVE Follows(k_cache, v_cache, s, l, pos)
      <4>1. Follows(k_cache, v_cache, Tokens, l, pos)
        BY DEF DenseInv
      <4>2. /\ Len(Tokens) <= Len(s) /\ pos <= Len(Tokens)
            /\ \A i \in 1 .. Len(Tokens) : Tokens[i] = s[i]
        BY <1>1, <1>2, <2>6
      <4>3. QED
        BY <1>1, <2>5, <2>6, <4>1, <4>2, FollowsPrefix
    <3>2. QED
      BY <3>1
  <2>8. RunUpTo(st, s, pos, Len(ids), Layers)
    <3>1. PICK seq \in Nat : seq = Len(ids)
      BY <1>2
    <3>2. /\ s \in Seq(S) /\ pos \in Nat /\ seq \in Nat /\ seq = Len(ids)
          /\ Len(s) = pos + seq /\ pos + seq <= MaxSeq
          /\ \A p \in 0 .. seq - 1 : s[pos + p + 1] = ids[p + 1]
          /\ Buffers(k_cache) /\ Buffers(v_cache)
          /\ \A l \in 1 .. Layers : Follows(k_cache, v_cache, s, l, pos)
          /\ st = Run(ids, pos, k_cache, v_cache)
      BY <1>1, <1>2, <1>3, <1>5, <2>1, <2>6, <2>7, <3>1 DEF DenseInv
    <3>3. RunUpTo(st, s, pos, seq, Layers)
      BY ONLY <3>2, RunFollows
    <3>4. QED
      BY <3>1, <3>3
  <2>9. answer' = Remembered!Output(s)
    <3>1. LastRow(st, ids) = Remembered!Output(s)
      BY <1>1, <2>6, <2>8, LastRowOutput
    <3>2. QED
      BY <2>2, <3>1
  <2>10. /\ Buffers(st.k) /\ Buffers(st.v)
         /\ \A l \in 1 .. Layers : Follows(st.k, st.v, s, l, pos + Len(ids))
    <3>1. /\ Buffers(st.k) /\ Buffers(st.v)
          /\ \A l \in 1 .. Layers :
               Follows(st.k, st.v, s, l, IF l <= Layers THEN pos + Len(ids) ELSE pos)
      BY <2>8 DEF RunUpTo
    <3>2. \A l \in 1 .. Layers : l <= Layers
      BY ModelAssumption
    <3>3. QED
      BY <3>1, <3>2
  <2>11. Tokens' = s
    <3>1. \A i \in 1 .. pos + Len(ids) : st.v[1][i - 1] = s[i]
      <4>1. 1 \in 1 .. Layers /\ 1 - 1 = 0
        BY ModelAssumption
      <4>2. \A r \in 0 .. (pos + Len(ids)) - 1 : st.v[1][r] = s[r + 1]
        <5>1. Follows(st.k, st.v, s, 1, pos + Len(ids))
          BY <2>10, <4>1
        <5>2. \A r \in 0 .. (pos + Len(ids)) - 1 : st.v[1][r] = Rows(s)[1 - 1][r + 1]
          BY <5>1, FollowsValue
        <5>3. Rows(s)[1 - 1] = s
          BY <2>6, <4>1, RowsAre
        <5>4. QED
          BY ONLY <5>2, <5>3
      <4>3. \A i \in 1 .. pos + Len(ids) : i - 1 \in 0 .. (pos + Len(ids)) - 1 /\ (i - 1) + 1 = i
        BY <1>1, <1>2
      <4>4. QED
        BY <4>2, <4>3
    <3>2. Tokens' = [i \in 1 .. pos + Len(ids) |-> st.v[1][i - 1]]
      BY <2>2 DEF Tokens
    <3>3. s = [i \in 1 .. pos + Len(ids) |-> s[i]]
      BY <1>1, <1>2, <2>6
    <3>4. QED
      BY <3>1, <3>2, <3>3
  <2>12. DenseInv'
    <3>1. Buffers(k_cache)' /\ Buffers(v_cache)'
      BY <2>2, <2>10 DEF Buffers
    <3>2. \A l \in 1 .. Layers : Follows(k_cache, v_cache, Tokens, l, pos)'
      BY <2>2, <2>10, <2>11 DEF Follows
    <3>3. pos' \in 0 .. MaxSeq
      BY <1>1, <1>2, <1>3, <1>5, <2>2
    <3>4. QED
      BY <1>3, <3>1, <3>2, <3>3 DEF DenseInv
  <2>13. ~ (Len(Tokens) + Len(ids) > MaxSeq) /\ Tokens' = Tokens \o ids
         /\ answer' = Remembered!Output(Tokens')
    BY <1>1, <1>5, <2>3, <2>9, <2>11
  <2>14. Remembered!Forward
    BY <1>3, <2>13, Zenon DEF Remembered!Forward, Tokens
  <2>15. QED
    BY <2>12, <2>14
<1>6. QED
  BY <1>4, <1>5

\* A forward in a session of its own leaves this one alone.
LEMMA InferFollows ==
  ASSUME DenseInv, NEW ids \in Inputs, Infer(ids)
  PROVE  DenseInv' /\ Remembered!Infer
<1>1. /\ answer' = IF Len(ids) > MaxSeq THEN Failed
                   ELSE LastRow(Run(ids, 0, ZeroCache, ZeroCache), ids)
      /\ open' = open /\ k_cache' = k_cache /\ v_cache' = v_cache /\ pos' = pos
  BY DEF Infer
<1>2. Tokens' = Tokens
  BY <1>1 DEF Tokens
<1>3. DenseInv'
  BY <1>1, <1>2 DEF DenseInv, Buffers, Follows
<1>4. ids \in Seq(ToSet(ids)) /\ Len(ids) \in Nat \ {0}
  BY InputIs
<1>5. answer' = IF Len(ids) > MaxSeq THEN Failed ELSE Remembered!Output(ids)
  <2>1. CASE Len(ids) > MaxSeq
    BY <1>1, <2>1
  <2>2. CASE ~ (Len(ids) > MaxSeq)
    <3>1. PICK st, s, z, S : /\ st = Run(ids, 0, ZeroCache, ZeroCache) /\ s = ids
                             /\ z = ZeroCache /\ S = ToSet(ids)
      OBVIOUS
    <3>2. PICK seq \in Nat : seq = Len(ids)
      BY <1>4
    <3>3. MaxSeq \in Nat
      BY ModelAssumption
    <3>4. /\ s \in Seq(S) /\ 0 \in Nat /\ seq = Len(ids)
          /\ Len(s) = 0 + seq /\ 0 + seq <= MaxSeq
          /\ \A p \in 0 .. seq - 1 : s[0 + p + 1] = ids[p + 1]
          /\ Buffers(z)
          /\ \A l \in 1 .. Layers : Follows(z, z, s, l, 0)
          /\ st = Run(ids, 0, z, z)
      <4>1. s \in Seq(S) /\ Len(s) = 0 + seq /\ 0 + seq <= MaxSeq
        BY <1>4, <2>2, <3>1, <3>2, <3>3
      <4>2. \A p \in 0 .. seq - 1 : s[0 + p + 1] = ids[p + 1]
        <5>1. \A p \in 0 .. seq - 1 : 0 + p + 1 = p + 1
          BY <3>2
        <5>2. QED
          BY <3>1, <5>1
      <4>3. Buffers(z) /\ \A l \in 1 .. Layers : Follows(z, z, s, l, 0)
        BY <3>1, ZeroBuffers, FollowsNothing
      <4>4. QED
        BY <3>1, <3>2, <4>1, <4>2, <4>3
    <3>5. RunUpTo(st, s, 0, seq, Layers)
      BY ONLY <3>2, <3>4, RunFollows
    <3>6. LastRow(st, ids) = Remembered!Output(s)
      BY <3>2, <3>4, <3>5, LastRowOutput
    <3>7. QED
      BY <1>1, <2>2, <3>1, <3>6
  <2>3. QED
    BY <2>1, <2>2
<1>6. Remembered!Infer
  BY <1>1, <1>2, <1>5, Zenon DEF Remembered!Infer, Tokens
<1>7. QED
  BY <1>3, <1>6

LEMMA DenseStep ==
  ASSUME DenseInv, [DenseNext]_denseVars
  PROVE  /\ DenseInv'
         /\ [Remembered!Open \/ Remembered!Close \/ Remembered!Forward
               \/ Remembered!Rewind \/ Remembered!Infer]_<<open, Tokens, answer>>
<1>1. CASE UNCHANGED denseVars
  <2>1. /\ open' = open /\ k_cache' = k_cache /\ v_cache' = v_cache
        /\ pos' = pos /\ answer' = answer
    BY <1>1 DEF denseVars
  <2>2. Tokens' = Tokens
    BY <2>1 DEF Tokens
  <2>3. DenseInv'
    BY <2>1, <2>2 DEF DenseInv, Buffers, Follows
  <2>4. QED
    BY <2>1, <2>2, <2>3
<1>2. CASE DenseNext
  <2>1. CASE CreateSession
    BY <2>1, CreateFollows
  <2>2. CASE DestroySession
    BY <2>2, DestroyFollows
  <2>3. ASSUME NEW len \in 0 .. MaxSeq, RewindSession(len)
        PROVE  DenseInv' /\ Remembered!Rewind
    BY <2>3, RewindFollows
  <2>4. ASSUME NEW ids \in Inputs, Forward(ids)
        PROVE  DenseInv' /\ Remembered!Forward
    BY <2>4, ForwardFollows
  <2>5. ASSUME NEW ids \in Inputs, Infer(ids)
        PROVE  DenseInv' /\ Remembered!Infer
    BY <2>5, InferFollows
  <2>6. QED
    BY <1>2, <2>1, <2>2, <2>3, <2>4, <2>5, Zenon DEF DenseNext
<1>3. QED
  BY <1>1, <1>2

\* The dense session answers every forward as a model without a cache would over
\* the tokens it remembers, for any number of layers and any sequence of
\* forwards, rewinds, sessions and inferences.
THEOREM DenseFollowsTokens == DenseSpec => ForwardFollowsTokens
<1>1. DenseInit => DenseInv /\ Remembered!Init
  BY DenseInit_Inv
<1>2. DenseInv /\ [DenseNext]_denseVars => DenseInv' /\
        [Remembered!Open \/ Remembered!Close \/ Remembered!Forward
           \/ Remembered!Rewind \/ Remembered!Infer]_<<open, Tokens, answer>>
  BY DenseStep
<1>3. QED
  BY <1>1, <1>2, PTL DEF DenseSpec, ForwardFollowsTokens, Remembered!Spec, Tokens
=============================================================================
