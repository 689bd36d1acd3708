----------------------------- MODULE Steer_proofs -----------------------------
(***************************************************************************)
(* Proofs about Steer, for any number of interfaces, cpus, lists, hashes   *)
(* and bpf objects.                                                        *)
(***************************************************************************)
EXTENDS Steer, TLAPS

-----------------------------------------------------------------------------
(* The inductive invariant *)

MapContents == [cpu_map : SUBSET Nat, cpus_available : [0 .. MaxCpus - 1 -> Nat],
                cpu_count : Nat]
Attachment == [obj : Objects \cup {NoObject}, mode : Modes]
LoaderRun == [iface : Ifaces \cup {NoObject}, mode : Modes, cpus : Seq(Nat),
              obj : Objects \cup {NoObject}, i : Nat]
Pinning == [MapNames -> Objects \cup {NoObject}]

History == [op : {"none", "unknown", "attach", "detach"},
            attached : [Ifaces -> Attachment], pins : Pinning, stuck : SUBSET MapNames]

\* The values of the loader's variables and of the kernel's objects.
SteerTypes ==
  /\ attached \in [Ifaces -> Attachment]
  /\ maps \in [Objects -> MapContents]
  /\ pins \in Pinning
  /\ pc \in {"none", "fill", "pin", "attach", "unpin", "unlink", "unlink_failed"}
  /\ run \in LoaderRun
  /\ status \in {"0", "1", "killed"}
  /\ before \in History

\* The first n entries of the dense list are cpus that exist and are in cpu_map.
Filled(o, n) ==
  /\ n <= MaxCpus
  /\ \A i \in 0 .. n - 1 :
       /\ maps[o].cpus_available[i] \in maps[o].cpu_map
       /\ maps[o].cpus_available[i] < Possible

\* A program that may run: its list was empty, or is all there.
Ready(o) ==
  maps[o].cpu_map = {} \/ (maps[o].cpu_count > 0 /\ Filled(o, maps[o].cpu_count))

NowAttached == {attached[f].obj : f \in Ifaces}

\* The object the loader works on is attached nowhere, and as far filled as the
\* loader has come.
LoadingInv ==
  pc \in {"fill", "pin", "attach", "unpin"} =>
    /\ run.iface \in Ifaces
    /\ run.obj \in Objects \ NowAttached
    /\ Len(run.cpus) <= MaxCpus /\ CpusExist(run.cpus)
    /\ pc = "fill" => /\ run.i <= Len(run.cpus)
                      /\ Filled(run.obj, run.i)
                      /\ run.i = 0 => maps[run.obj].cpu_map = {}
    /\ pc \in {"pin", "attach"} => Ready(run.obj)

\* The pins of this run are the first n; the others are as they were before it.
PinnedSince(n) ==
  /\ n \in 0 .. Len(Maps)
  /\ \A j \in 1 .. Len(Maps) :
       IF j <= n THEN before.pins[Maps[j]] = NoObject
       ELSE pins[Maps[j]] = before.pins[Maps[j]]

\* What an attach has changed so far, at each of its steps.
AttachingInv ==
  /\ pc \in {"fill", "pin", "attach", "unpin"} =>
       before.op = "attach" /\ attached = before.attached
  /\ pc = "fill" => PinnedSince(0)
  /\ pc \in {"pin", "unpin"} => PinnedSince(run.i)
  /\ pc = "attach" => PinnedSince(Len(Maps))

\* A pin that this detach has left: its unlink failed.
Stuck(m) == m \in before.stuck /\ pins[m] = before.pins[m]

\* What a detach has unlinked so far; it has pinned nothing.
DetachingInv ==
  pc \in {"unlink", "unlink_failed"} =>
    /\ before.op = "detach"
    /\ run.i \in 0 .. Len(Maps)
    /\ \A m \in MapNames : pins[m] \in {NoObject, before.pins[m]}
    /\ \A j \in 1 .. run.i : pins[Maps[j]] # NoObject => Stuck(Maps[j])

SteerInv ==
  /\ SteerTypes
  /\ \A o \in NowAttached \ {NoObject} : Ready(o)
  /\ LoadingInv /\ AttachingInv /\ DetachingInv
  /\ FailureLeavesNothing /\ DetachCleans

-----------------------------------------------------------------------------
(* Lemmas about the model's operators *)

\* The four maps have four names.
LEMMA MapsFacts ==
  /\ Len(Maps) = 4
  /\ DOMAIN Maps = 1 .. 4
  /\ \A j \in 1 .. 4 : Maps[j] \in MapNames
  /\ \A m \in MapNames : \E j \in 1 .. 4 : m = Maps[j]
  /\ \A i, j \in 1 .. 4 : Maps[i] = Maps[j] => i = j
  BY DEF Maps, MapNames

\* Maps as the kernel creates them.
LEMMA EmptyMapsType == EmptyMaps \in MapContents
  BY SteerAssumption DEF EmptyMaps, MapContents

\* A loader that is not running.
LEMMA IdleType == Idle \in LoaderRun
  BY DEF Idle, LoaderRun, Modes

\* A step that moves the loader's index.
LEMMA IndexMoves ==
  ASSUME run \in LoaderRun, NEW n \in Nat, run' = [run EXCEPT !.i = n]
  PROVE  /\ run'.i = n /\ run'.obj = run.obj /\ run'.cpus = run.cpus
         /\ run'.iface = run.iface /\ run' \in LoaderRun
  BY DEF LoaderRun

LEMMA IndexUp ==
  ASSUME run \in LoaderRun, run' = [run EXCEPT !.i = @ + 1]
  PROVE  /\ run'.i = run.i + 1 /\ run'.obj = run.obj /\ run'.cpus = run.cpus
         /\ run'.iface = run.iface /\ run' \in LoaderRun
  BY SMTT(60) DEF LoaderRun

LEMMA IndexDown ==
  ASSUME run \in LoaderRun, run.i > 0, run' = [run EXCEPT !.i = @ - 1]
  PROVE  /\ run'.i = run.i - 1 /\ run'.obj = run.obj /\ run'.cpus = run.cpus
         /\ run'.iface = run.iface /\ run' \in LoaderRun
  BY DEF LoaderRun

\* The order of the loader's steps.
LEMMA AfterFacts ==
  /\ After("load") = "fill" /\ After("fill") = "pin"
  /\ After("pin") = "attach" /\ After("attach") = "exit"
  BY DEF After

\* What is kept of the maps between two runs: those of the attached programs among
\* them, and none of a free object.
LEMMA KeptFacts ==
  ASSUME SteerTypes
  PROVE  /\ Kept \in [Objects -> MapContents]
         /\ \A o \in NowAttached \ {NoObject} : o \in Objects /\ Kept[o] = maps[o]
         /\ \A o \in Objects \ Alive : Kept[o] = EmptyMaps /\ o \notin NowAttached
  BY EmptyMapsType DEF SteerTypes, Kept, Alive, NowAttached, Attachment

\* Whether a program is ready depends on its own maps only.
LEMMA ReadyOwnMaps ==
  ASSUME NEW o, maps'[o] = maps[o]
  PROVE  /\ Ready(o)' <=> Ready(o)
         /\ \A n : Filled(o, n)' <=> Filled(o, n)
         /\ \A h : SteerTo(o, h)' = SteerTo(o, h)
  BY DEF Ready, Filled, SteerTo

\* A run that has pinned nothing yet leaves the pins of before.
LEMMA PinnedNone ==
  ASSUME SteerTypes, PinnedSince(0)
  PROVE  pins = before.pins
  <1>1. \A m \in MapNames : pins[m] = before.pins[m]
    BY MapsFacts DEF PinnedSince
  <1>2. QED
    BY <1>1 DEF SteerTypes, History, Pinning

-----------------------------------------------------------------------------
(* One lemma per action *)

\* Nothing is attached, pinned or loaded at the start.
LEMMA InitSteer == SInit => SteerInv
  <1> SUFFICES ASSUME SInit PROVE SteerInv
    OBVIOUS
  <1>1. SteerTypes
    BY EmptyMapsType, IdleType DEF SInit, SteerTypes, History, Attachment, Pinning,
       NotAttached, Modes
  <1>2. \A o \in NowAttached \ {NoObject} : Ready(o)
    BY DEF SInit, NowAttached, NotAttached
  <1>3. QED
    BY <1>1, <1>2 DEF SInit, SteerInv, LoadingInv, AttachingInv, DetachingInv,
       FailureLeavesNothing, DetachCleans

LEMMA UnchangedSteer == SteerInv /\ UNCHANGED svars => SteerInv'
  BY DEF svars, SteerInv, SteerTypes, NowAttached, Ready, Filled, LoadingInv, AttachingInv,
     PinnedSince, DetachingInv, Stuck, FailureLeavesNothing, DetachCleans, CpusExist

\* What a run finds when it begins.
LEMMA BeginFacts ==
  ASSUME SteerTypes, NEW op \in {"none", "unknown", "attach", "detach"}, Begin(op)
  PROVE  /\ maps' = Kept /\ UNCHANGED pins /\ before' \in History
         /\ before'.op = op /\ before'.attached = attached
         /\ before'.pins = pins /\ before'.stuck = {}
  BY DEF Begin, History, SteerTypes

\* An unknown interface: nothing has happened.
LEMMA UnknownInterfaceSteer ==
  ASSUME SteerInv, UnknownInterface
  PROVE  SteerInv'
  <1>1. SteerTypes
    BY DEF SteerInv
  <1>2. /\ maps' = Kept /\ UNCHANGED <<attached, pins>>
        /\ before'.op = "unknown" /\ before' \in History
    BY <1>1, BeginFacts DEF UnknownInterface
  <1>3. SteerTypes'
    BY <1>1, <1>2, KeptFacts, IdleType DEF SteerTypes, UnknownInterface, Exit
  <1>4. \A o \in (NowAttached \ {NoObject})' : Ready(o)'
    BY <1>1, <1>2, KeptFacts, ReadyOwnMaps DEF NowAttached, SteerInv
  <1>5. QED
    BY <1>2, <1>3, <1>4 DEF UnknownInterface, Exit, SteerInv, LoadingInv, AttachingInv,
       DetachingInv, FailureLeavesNothing, DetachCleans

\* The run starts with a free object, whose maps are empty, or is refused.
LEMMA StartAttachSteer ==
  ASSUME SteerInv, NEW iface \in Ifaces, NEW mode \in Modes, NEW cpus \in CpuLists,
         StartAttach(iface, mode, cpus)
  PROVE  SteerInv'
  <1> USE DEF SteerInv
  <1>1. /\ maps' = Kept /\ UNCHANGED <<attached, pins>>
        /\ before'.op = "attach" /\ before'.attached = attached /\ before'.pins = pins
        /\ before' \in History
    BY BeginFacts DEF StartAttach
  <1>2. /\ status' \in {"0", "1", "killed"}
        /\ pc' \in {"none", "fill"}
        /\ run' \in LoaderRun
    BY IdleType, SteerAssumption DEF StartAttach, Exit, After, SteerTypes, LoaderRun
  <1>3. SteerTypes'
    BY <1>1, <1>2, KeptFacts DEF SteerTypes
  <1>4. \A o \in (NowAttached \ {NoObject})' : Ready(o)'
    BY <1>1, KeptFacts, ReadyOwnMaps DEF NowAttached
  <1>5. PinnedSince(0)'
    BY <1>1, MapsFacts DEF PinnedSince
  <1>6. CASE Exit("1")
    BY <1>1, <1>3, <1>4, <1>6 DEF Exit, LoadingInv, AttachingInv, DetachingInv,
       FailureLeavesNothing, DetachCleans
  <1>7. CASE /\ CpusExist(cpus)
             /\ \E o \in Objects \ Alive :
                  run' = [iface |-> iface, mode |-> mode, cpus |-> cpus, obj |-> o, i |-> 0]
             /\ pc' = After("load")
    <2>1. PICK o \in Objects \ Alive :
            run' = [iface |-> iface, mode |-> mode, cpus |-> cpus, obj |-> o, i |-> 0]
      BY <1>7
    <2>2. pc' = "fill"
      BY <1>7, AfterFacts
    <2>3. LoadingInv'
      <3>1. o \in Objects /\ o \notin NowAttached' /\ maps'[o].cpu_map = {}
        BY <1>1, <2>1, KeptFacts DEF NowAttached, EmptyMaps
      <3>2. Filled(o, 0)'
        BY SteerAssumption DEF Filled
      <3>3. cpus \in Seq(Nat) /\ Len(cpus) <= MaxCpus
        BY SteerAssumption
      <3>4. CpusExist(cpus)'
        BY <1>7 DEF CpusExist
      <3>5. Len(cpus) \in Nat
        BY <3>3
      <3>6. QED
        BY <2>1, <2>2, <3>1, <3>2, <3>3, <3>4, <3>5 DEF LoadingInv, NowAttached
    <2>4. QED
      BY <1>1, <1>3, <1>4, <1>5, <2>2, <2>3 DEF AttachingInv, DetachingInv,
         FailureLeavesNothing, DetachCleans
  <1>8. QED
    BY <1>6, <1>7 DEF StartAttach

\* A step of the loader that ends the run with status "1" or "killed", with nothing
\* attached or pinned by it unless it was killed.
LEMMA ExitSteer ==
  ASSUME SteerInv, NEW s \in {"1", "killed"}, Exit(s),
         UNCHANGED <<attached, maps, pins, before>>,
         s = "1" => /\ before.op = "attach"
                    /\ attached = before.attached /\ pins = before.pins
  PROVE  SteerInv'
  <1>1. SteerTypes'
    BY IdleType DEF SteerInv, SteerTypes, Exit
  <1>2. \A o \in (NowAttached \ {NoObject})' : Ready(o)'
    BY ReadyOwnMaps DEF SteerInv, NowAttached
  <1>3. QED
    BY <1>1, <1>2 DEF Exit, SteerInv, LoadingInv, AttachingInv, DetachingInv,
       FailureLeavesNothing, DetachCleans

\* A step that leaves attached programs, the history and the status alone.
LEMMA LoadingStepSteer ==
  ASSUME SteerInv, UNCHANGED <<attached, before, status>>,
         pc' \in {"fill", "pin", "attach", "unpin"},
         maps' \in [Objects -> MapContents], pins' \in Pinning, run' \in LoaderRun,
         \A o \in NowAttached \ {NoObject} : maps'[o] = maps[o],
         LoadingInv', AttachingInv'
  PROVE  SteerInv'
  <1>1. SteerTypes'
    BY DEF SteerInv, SteerTypes
  <1>2. \A o \in (NowAttached \ {NoObject})' : Ready(o)'
    BY ReadyOwnMaps DEF SteerInv, NowAttached
  <1>3. QED
    BY <1>1, <1>2 DEF SteerInv, DetachingInv, FailureLeavesNothing, DetachCleans

\* One more cpu of the list is in both maps, or the run ends.
LEMMA FillSteer ==
  ASSUME SteerInv, Fill
  PROVE  SteerInv'
  <1> USE DEF SteerInv
  <1> DEFINE cpu == run.cpus[run.i + 1]
             old == maps[run.obj]
  <1>1. /\ pc = "fill" /\ run.i < Len(run.cpus) /\ UNCHANGED <<attached, pins, before>>
    BY DEF Fill
  <1>2. /\ run.obj \in Objects \ NowAttached
        /\ run.cpus \in Seq(Nat) /\ Len(run.cpus) <= MaxCpus /\ CpusExist(run.cpus)
        /\ run.i \in Nat /\ Filled(run.obj, run.i)
        /\ before.op = "attach" /\ attached = before.attached /\ PinnedSince(0)
        /\ run.iface \in Ifaces
    BY <1>1 DEF LoadingInv, AttachingInv, SteerTypes, LoaderRun
  <1>3. CASE Exit("1") /\ UNCHANGED maps
    BY <1>1, <1>2, <1>3, ExitSteer, PinnedNone, SMTT(60)
  <1>4. CASE /\ maps' = [maps EXCEPT
                  ![run.obj].cpu_map = @ \cup {cpu},
                  ![run.obj].cpus_available = [@ EXCEPT ![ListIndex(run.i)] = cpu]]
             /\ run' = [run EXCEPT !.i = @ + 1]
             /\ UNCHANGED <<pc, status>>
    <2>1. cpu \in Nat /\ cpu < Possible
      BY <1>1, <1>2, SMTT(60) DEF CpusExist
    <2>2. old \in MapContents /\ run.i \in 0 .. MaxCpus - 1
      BY <1>1, <1>2, SteerAssumption DEF SteerTypes
    <2>3. /\ maps'[run.obj].cpu_map = old.cpu_map \cup {cpu}
          /\ maps'[run.obj].cpus_available = [old.cpus_available EXCEPT ![run.i] = cpu]
          /\ maps'[run.obj] \in MapContents
          /\ maps' \in [Objects -> MapContents]
          /\ \A o \in Objects \ {run.obj} : maps'[o] = maps[o]
      BY <1>2, <1>4, <2>1, <2>2 DEF SteerTypes, MapContents, ListIndex
    <2>4. /\ run'.i = run.i + 1 /\ run'.obj = run.obj /\ run'.cpus = run.cpus
          /\ run'.iface = run.iface /\ run' \in LoaderRun
      BY <1>4, IndexUp DEF SteerTypes
    <2>5. Filled(run.obj, run.i)'
      <3>1. run.i + 1 <= MaxCpus
        BY <2>2, SteerAssumption
      <3>2. ASSUME NEW j \in 0 .. run.i
            PROVE  /\ maps'[run.obj].cpus_available[j] \in maps'[run.obj].cpu_map
                   /\ maps'[run.obj].cpus_available[j] < Possible
        <4>1. CASE j = run.i
          BY <2>1, <2>2, <2>3, <4>1 DEF MapContents
        <4>2. CASE j # run.i
          BY <1>2, <2>2, <2>3, <4>2 DEF MapContents, Filled
        <4>3. QED
          BY <4>1, <4>2
      <3>3. QED
        BY <1>2, <3>1, <3>2, <2>4 DEF Filled
    <2>6. LoadingInv'
      BY <1>1, <1>2, <1>4, <2>4, <2>5 DEF LoadingInv, NowAttached, CpusExist
    <2>7. AttachingInv'
      BY <1>1, <1>2, <1>4 DEF AttachingInv, PinnedSince
    <2>8. QED
      BY <1>1, <1>2, <1>4, <2>3, <2>4, <2>6, <2>7, LoadingStepSteer, KeptFacts DEF SteerTypes
  <1>5. QED
    BY <1>3, <1>4 DEF Fill

\* The count makes the program ready; the next step pins.
LEMMA FillCountSteer ==
  ASSUME SteerInv, FillCount
  PROVE  SteerInv'
  <1> USE DEF SteerInv
  <1>1. /\ pc = "fill" /\ run.i = Len(run.cpus) /\ UNCHANGED <<attached, pins, before>>
        /\ maps' = [maps EXCEPT ![run.obj].cpu_count = Len(run.cpus)]
        /\ Proceed("fill")
    BY DEF FillCount
  <1>2. /\ run.obj \in Objects \ NowAttached
        /\ run.cpus \in Seq(Nat) /\ Len(run.cpus) <= MaxCpus /\ CpusExist(run.cpus)
        /\ run.i \in Nat /\ Filled(run.obj, run.i)
        /\ run.i = 0 => maps[run.obj].cpu_map = {}
        /\ before.op = "attach" /\ attached = before.attached /\ PinnedSince(0)
        /\ run.iface \in Ifaces
    BY <1>1 DEF LoadingInv, AttachingInv, SteerTypes, LoaderRun
  <1>3. /\ pc' = "pin" /\ run' = [run EXCEPT !.i = 0] /\ UNCHANGED status
    BY <1>1, AfterFacts DEF Proceed
  <1>4. /\ run'.i = 0 /\ run'.obj = run.obj /\ run'.cpus = run.cpus
        /\ run'.iface = run.iface /\ run' \in LoaderRun
    BY <1>3, IndexMoves DEF SteerTypes
  <1>5. /\ maps' \in [Objects -> MapContents]
        /\ maps'[run.obj].cpu_count = run.i
        /\ maps'[run.obj].cpu_map = maps[run.obj].cpu_map
        /\ maps'[run.obj].cpus_available = maps[run.obj].cpus_available
        /\ \A o \in Objects \ {run.obj} : maps'[o] = maps[o]
    BY <1>1, <1>2 DEF SteerTypes, MapContents
  <1>6. Ready(run.obj)'
    BY <1>2, <1>4, <1>5 DEF Ready, Filled
  <1>7. LoadingInv'
    BY <1>1, <1>2, <1>3, <1>4, <1>6 DEF LoadingInv, NowAttached, CpusExist
  <1>8. AttachingInv'
    BY <1>1, <1>2, <1>3, <1>4 DEF AttachingInv, PinnedSince
  <1>9. QED
    BY <1>1, <1>2, <1>3, <1>4, <1>5, <1>7, <1>8, LoadingStepSteer, KeptFacts DEF SteerTypes

\* A path that is free is pinned, or the run turns back, or all four are pinned.
LEMMA PinSteer ==
  ASSUME SteerInv, Pin
  PROVE  SteerInv'
  <1> USE DEF SteerInv
  <1>1. pc = "pin" /\ UNCHANGED <<attached, maps, before>>
    BY DEF Pin
  <1>2. /\ run.obj \in Objects \ NowAttached
        /\ run.cpus \in Seq(Nat) /\ Len(run.cpus) <= MaxCpus /\ CpusExist(run.cpus)
        /\ run.i \in Nat /\ Ready(run.obj)
        /\ before.op = "attach" /\ attached = before.attached /\ PinnedSince(run.i)
        /\ run.iface \in Ifaces
    BY <1>1 DEF LoadingInv, AttachingInv, SteerTypes, LoaderRun
  <1>3. CASE /\ run.i < Len(Maps) /\ pins[Maps[run.i + 1]] = NoObject
             /\ pins' = [pins EXCEPT ![Maps[run.i + 1]] = run.obj]
             /\ run' = [run EXCEPT !.i = @ + 1]
             /\ UNCHANGED <<pc, status>>
    <2>1. /\ run'.i = run.i + 1 /\ run'.obj = run.obj /\ run'.cpus = run.cpus
          /\ run'.iface = run.iface /\ run' \in LoaderRun
      BY <1>3, IndexUp DEF SteerTypes
    <2>2. Maps[run.i + 1] \in MapNames /\ run.i + 1 \in 1 .. 4
      BY <1>2, <1>3, MapsFacts, SMTT(60)
    <2>3. pins' \in Pinning
      BY <1>2, <1>3, <2>2 DEF SteerTypes, Pinning
    <2>4. before.pins[Maps[run.i + 1]] = NoObject
      BY <1>2, <1>3, <2>2, MapsFacts DEF PinnedSince
    <2>5. PinnedSince(run.i)'
      <3>1. run'.i \in 0 .. Len(Maps)
        BY <2>1, <2>2, MapsFacts
      <3>2. ASSUME NEW j \in 1 .. Len(Maps)
            PROVE  IF j <= run'.i THEN before'.pins[Maps[j]] = NoObject
                   ELSE pins'[Maps[j]] = before'.pins[Maps[j]]
        <4>1. CASE j = run.i + 1
          BY <1>1, <2>1, <2>4, <4>1
        <4>2. CASE j # run.i + 1
          <5>1. pins'[Maps[j]] = pins[Maps[j]]
            BY <1>3, <2>2, <3>2, <4>2, MapsFacts DEF SteerTypes, Pinning
          <5>2. j <= run'.i <=> j <= run.i
            BY <1>2, <2>1, <4>2, MapsFacts
          <5>3. QED
            BY <1>1, <1>2, <5>1, <5>2 DEF PinnedSince
        <4>3. QED
          BY <4>1, <4>2
      <3>3. QED
        BY <3>1, <3>2 DEF PinnedSince
    <2>6. LoadingInv'
      BY <1>1, <1>2, <1>3, <2>1, ReadyOwnMaps DEF LoadingInv, NowAttached, CpusExist
    <2>7. AttachingInv'
      BY <1>1, <1>2, <1>3, <2>5 DEF AttachingInv
    <2>8. QED
      BY <1>1, <1>3, <2>1, <2>3, <2>6, <2>7, LoadingStepSteer DEF SteerTypes
  <1>4. CASE /\ pc' = "unpin" /\ UNCHANGED <<pins, run, status>>
    <2>1. LoadingInv'
      BY <1>1, <1>2, <1>4 DEF LoadingInv, NowAttached, CpusExist
    <2>2. AttachingInv'
      BY <1>1, <1>2, <1>4 DEF AttachingInv, PinnedSince
    <2>3. QED
      BY <1>1, <1>4, <2>1, <2>2, LoadingStepSteer DEF SteerTypes
  <1>5. CASE run.i = Len(Maps) /\ Proceed("pin") /\ UNCHANGED pins
    <2>1. pc' = "attach" /\ run' = [run EXCEPT !.i = 0] /\ UNCHANGED status
      BY <1>5, AfterFacts DEF Proceed
    <2>2. /\ run'.i = 0 /\ run'.obj = run.obj /\ run'.cpus = run.cpus
          /\ run'.iface = run.iface /\ run' \in LoaderRun
      BY <2>1, IndexMoves DEF SteerTypes
    <2>3. LoadingInv'
      BY <1>1, <1>2, <2>1, <2>2, ReadyOwnMaps DEF LoadingInv, NowAttached, CpusExist
    <2>4. AttachingInv'
      BY <1>1, <1>2, <1>5, <2>1, <2>2 DEF AttachingInv, PinnedSince
    <2>5. QED
      BY <1>1, <1>5, <2>1, <2>2, <2>3, <2>4, LoadingStepSteer DEF SteerTypes
  <1>6. QED
    BY <1>3, <1>4, <1>5 DEF Pin

\* A program that is attached was ready; a failed attach has all four pins to undo.
LEMMA AttachSteer ==
  ASSUME SteerInv, Attach
  PROVE  SteerInv'
  <1> USE DEF SteerInv
  <1>1. pc = "attach" /\ UNCHANGED <<maps, pins, before>>
    BY DEF Attach
  <1>2. /\ run.obj \in Objects \ NowAttached
        /\ run.cpus \in Seq(Nat) /\ Len(run.cpus) <= MaxCpus /\ CpusExist(run.cpus)
        /\ run.mode \in Modes /\ Ready(run.obj)
        /\ before.op = "attach" /\ attached = before.attached /\ PinnedSince(Len(Maps))
        /\ run.iface \in Ifaces
    BY <1>1 DEF LoadingInv, AttachingInv, SteerTypes, LoaderRun
  <1>3. CASE /\ attached' = [attached EXCEPT ![run.iface] = [obj |-> run.obj, mode |-> run.mode]]
             /\ Proceed("attach")
    <2>1. pc' = "none" /\ run' = Idle /\ status' = "0"
      BY <1>3, AfterFacts DEF Proceed, Exit
    <2>2. /\ attached' \in [Ifaces -> Attachment]
          /\ \A f \in Ifaces : attached'[f].obj \in {run.obj, attached[f].obj}
      BY <1>2, <1>3 DEF SteerTypes, Attachment
    <2>3. SteerTypes'
      BY <1>1, <2>1, <2>2, IdleType DEF SteerTypes
    <2>4. ASSUME NEW o \in (NowAttached \ {NoObject})'
          PROVE  Ready(o)'
      BY <1>1, <1>2, <2>2, ReadyOwnMaps DEF NowAttached
    <2>5. QED
      BY <1>1, <1>2, <2>1, <2>3, <2>4 DEF LoadingInv, AttachingInv, DetachingInv,
         FailureLeavesNothing, DetachCleans
  <1>4. CASE UnpinAfterAttach /\ UNCHANGED attached
    <2>1. pc' = "unpin" /\ run' = [run EXCEPT !.i = 4] /\ UNCHANGED status
      BY <1>4, MapsFacts DEF UnpinAfterAttach
    <2>2. /\ run'.i = 4 /\ run'.obj = run.obj /\ run'.cpus = run.cpus
          /\ run'.iface = run.iface /\ run' \in LoaderRun
      BY <2>1, IndexMoves DEF SteerTypes
    <2>3. LoadingInv'
      BY <1>1, <1>2, <1>4, <2>1, <2>2 DEF LoadingInv, NowAttached, CpusExist
    <2>4. AttachingInv'
      BY <1>1, <1>2, <1>4, <2>1, <2>2, MapsFacts DEF AttachingInv, PinnedSince
    <2>5. QED
      BY <1>1, <1>4, <2>1, <2>2, <2>3, <2>4, LoadingStepSteer DEF SteerTypes
  <1>5. QED
    BY <1>3, <1>4 DEF Attach

\* The last pin of this run goes back to what it was before, or none is left.
LEMMA UnpinSteer ==
  ASSUME SteerInv, Unpin
  PROVE  SteerInv'
  <1> USE DEF SteerInv
  <1>1. pc = "unpin" /\ UNCHANGED <<attached, maps, before>>
    BY DEF Unpin
  <1>2. /\ run.obj \in Objects \ NowAttached
        /\ run.cpus \in Seq(Nat) /\ Len(run.cpus) <= MaxCpus /\ CpusExist(run.cpus)
        /\ run.i \in Nat
        /\ before.op = "attach" /\ attached = before.attached /\ PinnedSince(run.i)
        /\ run.iface \in Ifaces
    BY <1>1 DEF LoadingInv, AttachingInv, SteerTypes, LoaderRun
  <1>3. CASE /\ run.i > 0
             /\ pins' = [pins EXCEPT ![Maps[run.i]] = NoObject]
             /\ run' = [run EXCEPT !.i = @ - 1]
             /\ UNCHANGED <<pc, status>>
    <2>1. /\ run'.i = run.i - 1 /\ run'.obj = run.obj /\ run'.cpus = run.cpus
          /\ run'.iface = run.iface /\ run' \in LoaderRun
      BY <1>3, IndexDown DEF SteerTypes
    <2>2. Maps[run.i] \in MapNames /\ run.i \in 1 .. 4
      BY <1>2, <1>3, MapsFacts DEF PinnedSince
    <2>3. pins' \in Pinning
      BY <1>3, <2>2 DEF SteerTypes, Pinning
    <2>4. before.pins[Maps[run.i]] = NoObject
      BY <1>2, <2>2, MapsFacts DEF PinnedSince
    <2>5. PinnedSince(run.i)'
      <3>1. run'.i \in 0 .. Len(Maps)
        BY <2>1, <2>2, MapsFacts
      <3>2. ASSUME NEW j \in 1 .. Len(Maps)
            PROVE  IF j <= run'.i THEN before'.pins[Maps[j]] = NoObject
                   ELSE pins'[Maps[j]] = before'.pins[Maps[j]]
        <4>1. CASE j = run.i
          <5>1. pins'[Maps[j]] = NoObject
            BY <1>3, <2>2, <4>1 DEF SteerTypes, Pinning
          <5>2. ~(j <= run'.i)
            BY <2>1, <2>2, <4>1
          <5>3. QED
            BY <1>1, <2>4, <4>1, <5>1, <5>2
        <4>2. CASE j # run.i
          <5>1. pins'[Maps[j]] = pins[Maps[j]]
            BY <1>3, <2>2, <3>2, <4>2, MapsFacts DEF SteerTypes, Pinning
          <5>2. j <= run'.i <=> j <= run.i
            BY <1>2, <2>1, <4>2, MapsFacts
          <5>3. QED
            BY <1>1, <1>2, <5>1, <5>2 DEF PinnedSince
        <4>3. QED
          BY <4>1, <4>2
      <3>3. QED
        BY <3>1, <3>2 DEF PinnedSince
    <2>6. LoadingInv'
      BY <1>1, <1>2, <1>3, <2>1 DEF LoadingInv, NowAttached, CpusExist
    <2>7. AttachingInv'
      BY <1>1, <1>2, <1>3, <2>5 DEF AttachingInv
    <2>8. QED
      BY <1>1, <1>3, <2>1, <2>3, <2>6, <2>7, LoadingStepSteer DEF SteerTypes
  <1>4. CASE run.i = 0 /\ Exit("1") /\ UNCHANGED pins
    <2>1. pins = before.pins
      BY <1>2, <1>4, PinnedNone
    <2>2. QED
      BY <1>1, <1>2, <1>4, <2>1, ExitSteer
  <1>5. QED
    BY <1>3, <1>4 DEF Unpin

\* A detach, successful or not, goes on to unlink.
LEMMA StartDetachSteer ==
  ASSUME SteerInv, NEW iface \in Ifaces, NEW mode \in Modes, StartDetach(iface, mode)
  PROVE  SteerInv'
  <1> USE DEF SteerInv
  <1>1. /\ maps' = Kept /\ UNCHANGED <<pins, status>>
        /\ before'.op = "detach" /\ before'.attached = attached /\ before'.pins = pins
        /\ run' = [Idle EXCEPT !.iface = iface, !.mode = mode]
        /\ pc' \in {"unlink", "unlink_failed"}
        /\ attached' \in {attached, [attached EXCEPT ![iface] = NotAttached]}
        /\ before' \in History
    BY BeginFacts DEF StartDetach
  <1>2. run' \in LoaderRun /\ run'.i = 0
    <2>1. run' = [iface |-> iface, mode |-> mode, cpus |-> <<>>, obj |-> NoObject, i |-> 0]
      BY <1>1 DEF Idle
    <2>2. QED
      BY <2>1 DEF LoaderRun
  <1>3. /\ attached' \in [Ifaces -> Attachment]
        /\ \A f \in Ifaces : attached'[f].obj \in {NoObject, attached[f].obj}
    BY <1>1, SMTT(60) DEF SteerTypes, Attachment, NotAttached, Modes
  <1>4. SteerTypes'
    BY <1>1, <1>2, <1>3, KeptFacts DEF SteerTypes
  <1>5. \A o \in (NowAttached \ {NoObject})' : Ready(o)'
    BY <1>1, <1>3, KeptFacts, ReadyOwnMaps DEF NowAttached
  <1>6. DetachingInv'
    BY <1>1, <1>2, MapsFacts DEF DetachingInv
  <1>7. QED
    BY <1>1, <1>4, <1>5, <1>6 DEF LoadingInv, AttachingInv, FailureLeavesNothing, DetachCleans

\* One more path is unlinked, or cannot be; the run ends after all four.
LEMMA UnlinkSteer ==
  ASSUME SteerInv, Unlink
  PROVE  SteerInv'
  <1> USE DEF SteerInv
  <1>1. pc \in {"unlink", "unlink_failed"} /\ UNCHANGED <<attached, maps>>
    BY DEF Unlink
  <1>2. /\ before.op = "detach" /\ run.i \in 0 .. Len(Maps)
        /\ \A m \in MapNames : pins[m] \in {NoObject, before.pins[m]}
        /\ \A j \in 1 .. run.i : pins[Maps[j]] # NoObject => Stuck(Maps[j])
    BY <1>1 DEF DetachingInv
  <1>3. \A o \in (NowAttached \ {NoObject})' : Ready(o)'
    BY <1>1, ReadyOwnMaps DEF NowAttached
  <1>4. CASE /\ run.i < Len(Maps)
             /\ \/ /\ pins' = [pins EXCEPT ![Maps[run.i + 1]] = NoObject]
                   /\ UNCHANGED before
                \/ /\ before' = [before EXCEPT !.stuck = @ \cup {Maps[run.i + 1]}]
                   /\ UNCHANGED pins
             /\ run' = [run EXCEPT !.i = @ + 1]
             /\ UNCHANGED <<pc, status>>
    <2>1. run'.i = run.i + 1 /\ run' \in LoaderRun
      BY <1>4, IndexUp DEF SteerTypes
    <2>2. Maps[run.i + 1] \in MapNames /\ run.i + 1 \in 1 .. 4
      BY <1>2, <1>4, MapsFacts
    <2>3. /\ pins' \in Pinning
          /\ \A m \in MapNames : pins'[m] \in {NoObject, pins[m]}
          /\ before' \in History
          /\ before'.op = before.op /\ before'.pins = before.pins
          /\ before.stuck \subseteq before'.stuck
      BY <1>4, <2>2 DEF SteerTypes, Pinning, History
    <2>4. pins'[Maps[run.i + 1]] = NoObject \/ Maps[run.i + 1] \in before'.stuck
      BY <1>4, <2>2 DEF SteerTypes, Pinning, History
    <2>5. \A m \in MapNames : pins'[m] \in {NoObject, before'.pins[m]}
      BY <1>2, <2>3
    <2>6. ASSUME NEW j \in 1 .. run.i + 1, pins'[Maps[j]] # NoObject
          PROVE  Stuck(Maps[j])'
      <3>1. Maps[j] \in MapNames
        BY <2>2, MapsFacts
      <3>2. CASE j = run.i + 1
        BY <2>4, <2>5, <2>6, <3>1, <3>2 DEF Stuck
      <3>3. CASE j # run.i + 1
        <4>1. j \in 1 .. run.i
          BY <1>2, <3>3
        <4>2. Stuck(Maps[j])
          BY <1>2, <2>3, <2>6, <3>1, <4>1
        <4>3. QED
          BY <2>3, <2>5, <2>6, <3>1, <4>2 DEF Stuck
      <3>4. QED
        BY <3>2, <3>3
    <2>7. DetachingInv'
      BY <1>1, <1>2, <1>4, <2>1, <2>2, <2>3, <2>5, <2>6, MapsFacts DEF DetachingInv
    <2>8. QED
      BY <1>1, <1>2, <1>3, <1>4, <2>1, <2>3, <2>7 DEF SteerTypes, LoadingInv, AttachingInv,
         FailureLeavesNothing, DetachCleans
  <1>5. CASE /\ ~Unlinking \/ run.i = Len(Maps)
             /\ Exit(IF pc = "unlink" THEN "0" ELSE "1")
             /\ UNCHANGED <<pins, before>>
    <2>1. \A m \in MapNames : pins[m] # NoObject => Stuck(m)
      BY <1>1, <1>2, <1>5, MapsFacts DEF Unlinking
    <2>2. SteerTypes'
      BY <1>1, <1>5, IdleType DEF SteerTypes, Exit
    <2>3. QED
      BY <1>1, <1>2, <1>3, <1>5, <2>1, <2>2 DEF Exit, LoadingInv, AttachingInv, DetachingInv,
         FailureLeavesNothing, DetachCleans, Stuck
  <1>6. QED
    BY <1>4, <1>5 DEF Unlink

\* Every step of the loader keeps the invariant.
LEMMA NextSteer == SteerInv /\ [SNext]_svars => SteerInv'
  <1> SUFFICES ASSUME SteerInv, [SNext]_svars PROVE SteerInv'
    OBVIOUS
  <1>1. CASE \E iface \in Ifaces, mode \in Modes, cpus \in CpuLists :
               StartAttach(iface, mode, cpus)
    BY <1>1, StartAttachSteer
  <1>0. CASE UnknownInterface
    BY <1>0, UnknownInterfaceSteer
  <1>2. CASE \E iface \in Ifaces, mode \in Modes : StartDetach(iface, mode)
    BY <1>2, StartDetachSteer
  <1>3. CASE LoaderStep
    BY <1>3, FillSteer, FillCountSteer, PinSteer, AttachSteer, UnpinSteer, UnlinkSteer
    DEF LoaderStep
  <1>4. CASE Kill
    BY <1>4, ExitSteer DEF Kill
  <1>5. CASE UNCHANGED svars
    BY <1>5, UnchangedSteer
  <1>6. QED
    BY <1>0, <1>1, <1>2, <1>3, <1>4, <1>5 DEF SNext

-----------------------------------------------------------------------------
(* Theorems *)

\* The invariant holds in every state of every sequence of loader runs.
THEOREM SteerInvariant == SSpec => []SteerInv
  BY InitSteer, NextSteer, PTL DEF SSpec

\* A program that may run sends every hash to a cpu of its list.
LEMMA ReadySteers ==
  ASSUME SteerTypes, NEW o \in Objects, Ready(o), maps[o].cpu_map # {}, NEW h \in Hashes
  PROVE  SteerTo(o, h) \in {"redirect"} \X (0 .. Possible - 1)
  <1> DEFINE n == maps[o].cpu_count
             k == h % n
  <1>1. n \in Nat /\ n > 0 /\ n <= MaxCpus /\ h \in Nat
    BY SteerAssumption DEF SteerTypes, MapContents, Ready, Filled
  <1>2. k \in 0 .. n - 1
    BY <1>1
  <1>3. /\ DOMAIN maps[o].cpus_available = 0 .. MaxCpus - 1
        /\ maps[o].cpus_available[k] \in Nat
    BY <1>1, <1>2, SteerAssumption DEF SteerTypes, MapContents
  <1>4. /\ maps[o].cpus_available[k] \in maps[o].cpu_map
        /\ maps[o].cpus_available[k] < Possible
    BY <1>2 DEF Ready, Filled
  <1>5. k \in 0 .. MaxCpus - 1
    BY <1>1, <1>2, SteerAssumption
  <1>6. SteerTo(o, h) = <<"redirect", maps[o].cpus_available[k]>>
    BY <1>1, <1>3, <1>4, <1>5 DEF SteerTo, CpuIndex
  <1>7. QED
    BY <1>3, <1>4, <1>6, SteerAssumption

\* An attached program steers every session to an existing cpu, whatever happened
\* to the runs of the loader (l2tp_steer.c: main).
THEOREM AttachedAlwaysSteers == SSpec => []AttachedSteers
  <1>1. SteerInv => AttachedSteers
    <2> SUFFICES ASSUME SteerInv, NEW f \in Ifaces, attached[f].obj # NoObject,
                        maps[attached[f].obj].cpu_map # {}, NEW h \in Hashes
                 PROVE  SteerTo(attached[f].obj, h) \in {"redirect"} \X (0 .. Possible - 1)
      BY DEF AttachedSteers
    <2>1. attached[f].obj \in Objects /\ Ready(attached[f].obj)
      BY DEF SteerInv, SteerTypes, Attachment, NowAttached
    <2>2. QED
      BY <2>1, ReadySteers DEF SteerInv
  <1>2. QED
    BY <1>1, SteerInvariant, PTL

\* A failed attach leaves attachments and pins as it found them.
THEOREM FailedAttachUndone == SSpec => []FailureLeavesNothing
  BY SteerInvariant, PTL DEF SteerInv

\* A detach that runs to its end leaves a pin only where its unlink failed
\* (l2tp_steer.c: detach).
THEOREM DetachUnpins == SSpec => []DetachCleans
  BY SteerInvariant, PTL DEF SteerInv

\* A step of the loader leaves the maps of an attached program alone.
LEMMA AttachedMapsKept ==
  ASSUME SteerInv, SNext
  PROVE  \A o \in NowAttached \ {NoObject} : maps'[o] = maps[o]
  <1>1. CASE maps' = Kept
    BY <1>1, KeptFacts DEF SteerInv
  <1>2. CASE UNCHANGED maps
    BY <1>2
  <1>3. CASE Fill \/ FillCount
    <2>1. run.obj \notin NowAttached
      BY <1>3 DEF Fill, FillCount, SteerInv, LoadingInv
    <2>2. \A o \in Objects \ {run.obj} : maps'[o] = maps[o]
      BY <1>3 DEF Fill, FillCount, SteerInv, SteerTypes
    <2>3. QED
      BY <2>1, <2>2, KeptFacts DEF SteerInv
  <1>4. QED
    BY <1>1, <1>2, <1>3 DEF SNext, LoaderStep, UnknownInterface, StartAttach, StartDetach, Begin, Pin, Attach, Unpin,
       Unlink, Kill

\* As long as a program stays attached, each session stays on its cpu.
THEOREM SteeringStable == SSpec => SessionOnOneCpu
  <1>1. SteerInv /\ [SNext]_svars =>
          [\A f \in Ifaces, h \in Hashes :
             attached[f].obj # NoObject /\ attached'[f] = attached[f] =>
               SteerTo(attached[f].obj, h)' = SteerTo(attached[f].obj, h)]_svars
    <2> SUFFICES ASSUME SteerInv, SNext, NEW f \in Ifaces, NEW h \in Hashes,
                        attached[f].obj # NoObject, attached'[f] = attached[f]
                 PROVE  SteerTo(attached[f].obj, h)' = SteerTo(attached[f].obj, h)
      OBVIOUS
    <2>1. maps'[attached[f].obj] = maps[attached[f].obj]
      BY AttachedMapsKept DEF NowAttached
    <2>2. QED
      BY <2>1 DEF SteerTo
  <1>2. QED
    BY <1>1, SteerInvariant, PTL DEF SSpec, SessionOnOneCpu
=============================================================================
