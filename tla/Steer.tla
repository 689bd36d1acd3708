-------------------------------- MODULE Steer ---------------------------------
(***************************************************************************)
(* The XDP steering program (xdp/l2tp_steer.bpf.c) and its loader          *)
(* (xdp/l2tp_steer.c).  The loader is a sequence of system calls, which    *)
(* may fail, and it may be killed between any two; the program runs on     *)
(* every packet meanwhile, so what it would do to a packet is defined in   *)
(* every state.  Which packets it steers is Decap's XdpVerdict; here a     *)
(* packet is the hash of its session.                                      *)
(*                                                                         *)
(* Two kinds of call whose result the loader ignores are taken not to      *)
(* fail: the updates of the array maps cpus_available and cpu_count, whose *)
(* index is in range of a map that is there, and removing a pin that the   *)
(* same run has made a moment before.  An ignored unlink of -d may fail.   *)
(*                                                                         *)
(* External: a bpf object lives while it is attached, pinned or held by    *)
(* the loader; pinning fails when the path exists; attaching replaces a    *)
(* program attached in the same mode and fails when there is one in the    *)
(* other mode; detaching in a mode in which nothing is attached does       *)
(* nothing, with or without an error.                                      *)
(***************************************************************************)
EXTENDS Naturals, Sequences, FiniteSets

CONSTANTS
  Ifaces,    \* interfaces
  CpuLists,  \* what parse_cpulist makes of -c arguments
  Possible,  \* libbpf_num_possible_cpus
  Hashes,    \* the mixed 32-bit hashes of (tid, sid)
  MaxCpus,   \* MAX_CPUS: 256
  Objects,   \* names of bpf objects: an object that is gone frees its name
  NoObject

Modes == {"native", "generic"}
Maps == <<"cpu_map", "cpus_available", "cpu_count", "stats">>
MapNames == {Maps[k] : k \in DOMAIN Maps}

ASSUME SteerAssumption ==
  /\ \A cpus \in CpuLists : cpus \in Seq(Nat) /\ Len(cpus) <= MaxCpus
  /\ MaxCpus \in Nat /\ Possible \in Nat
  /\ Hashes \subseteq Nat
  /\ NoObject \notin Objects

VARIABLES
  attached,  \* interface -> the object attached to it and its mode
  maps,      \* object -> contents of its maps
  pins,      \* map name -> the object whose map is pinned under PIN_DIR
  pc,        \* the loader's next system call, "none" when it is not running
  run,       \* the loader's arguments and locals
  status,    \* exit status of the last run, "killed" if it was
  before     \* history: the last run, attached and pins when it started, and
             \* the pins that an unlink of it failed to remove

svars == <<attached, maps, pins, pc, run, status, before>>

EmptyMaps == [cpu_map |-> {}, cpus_available |-> [i \in 0 .. MaxCpus - 1 |-> 0],
              cpu_count |-> 0]
NotAttached == [obj |-> NoObject, mode |-> "native"]
Idle == [iface |-> NoObject, mode |-> "native", cpus |-> <<>>,
         obj |-> NoObject, i |-> 0]

SInit ==
  /\ attached = [f \in Ifaces |-> NotAttached]
  /\ maps = [o \in Objects |-> EmptyMaps]
  /\ pins = [m \in MapNames |-> NoObject]
  /\ pc = "none" /\ run = Idle /\ status = "0"
  /\ before = [op |-> "none", attached |-> attached, pins |-> pins, stuck |-> {}]

Alive == {attached[f].obj : f \in Ifaces} \cup {pins[m] : m \in MapNames}
\* What the kernel keeps between two runs: nothing of an object that is gone.
Kept == [o \in Objects |-> IF o \in Alive THEN maps[o] ELSE EmptyMaps]

-----------------------------------------------------------------------------
(* The loader *)

\* The run is over: what it held is gone with it.
Exit(s) == pc' = "none" /\ run' = Idle /\ status' = s

\* Mutant: the program is attached before the maps are filled.
AttachFirst(step) ==
  CASE step = "load"    -> "attach"
    [] step = "attach"  -> "fill"
    [] step = "fill"    -> "pin"
    [] step = "pin"     -> "exit"
\* main: the order of its steps.
After(step) ==
  CASE step = "load"    -> "fill"
    [] step = "fill"    -> "pin"
    [] step = "pin"     -> "attach"
    [] step = "attach"  -> "exit"

Proceed(step) ==
  \/ After(step) = "exit" /\ Exit("0")
  \/ /\ After(step) # "exit"
     /\ pc' = After(step) /\ run' = [run EXCEPT !.i = 0]
     /\ UNCHANGED status

\* Every cpu of the list exists.
CpusExist(cpus) == \A i \in DOMAIN cpus : cpus[i] < Possible

\* A run starts.
Begin(op) ==
  /\ pc = "none"
  /\ before' = [op |-> op, attached |-> attached, pins |-> pins, stuck |-> {}]
  /\ maps' = Kept
  /\ UNCHANGED pins

\* if_nametoindex does not know the interface: neither attach nor -d begins.
UnknownInterface ==
  /\ Begin("unknown")
  /\ Exit("1")
  /\ UNCHANGED attached

\* -i iface -c list [-S]: the list is checked, the object opened and loaded.
StartAttach(iface, mode, cpus) ==
  /\ Begin("attach")
  /\ \/ Exit("1")
     \/ /\ CpusExist(cpus)
        /\ \E o \in Objects \ Alive :
             run' = [iface |-> iface, mode |-> mode, cpus |-> cpus, obj |-> o, i |-> 0]
        /\ pc' = After("load")
        /\ UNCHANGED status
  /\ UNCHANGED attached

\* Mutant: the dense list starts at 1.
ListFromOne(i) == i + 1
ListIndex(i) == i

\* One turn of the loop that fills cpu_map and cpus_available.  The kernel may
\* refuse any cpu; that it would refuse one that does not exist is not relied on.
Fill ==
  /\ pc = "fill" /\ run.i < Len(run.cpus)
  /\ \/ LET cpu == run.cpus[run.i + 1]
        IN /\ maps' = [maps EXCEPT
                ![run.obj].cpu_map = @ \cup {cpu},
                ![run.obj].cpus_available = [@ EXCEPT ![ListIndex(run.i)] = cpu]]
           /\ run' = [run EXCEPT !.i = @ + 1]
           /\ UNCHANGED <<pc, status>>
     \/ Exit("1") /\ UNCHANGED maps
  /\ UNCHANGED <<attached, pins, before>>

FillCount ==
  /\ pc = "fill" /\ run.i = Len(run.cpus)
  /\ maps' = [maps EXCEPT ![run.obj].cpu_count = Len(run.cpus)]
  /\ Proceed("fill")
  /\ UNCHANGED <<attached, pins, before>>

\* bpf_object__pin_maps: one map after the other; on a failure it unpins those
\* it has pinned.
Pin ==
  /\ pc = "pin"
  /\ \/ /\ run.i < Len(Maps) /\ pins[Maps[run.i + 1]] = NoObject
        /\ pins' = [pins EXCEPT ![Maps[run.i + 1]] = run.obj]
        /\ run' = [run EXCEPT !.i = @ + 1]
        /\ UNCHANGED <<pc, status>>
     \/ /\ run.i < Len(Maps)
        /\ pc' = "unpin"
        /\ UNCHANGED <<pins, run, status>>
     \/ /\ run.i = Len(Maps)
        /\ Proceed("pin")
        /\ UNCHANGED pins
  /\ UNCHANGED <<attached, maps, before>>

\* Mutant: a failed attach leaves the pins.
LeavePins == Exit("1")
UnpinAfterAttach ==
  pc' = "unpin" /\ run' = [run EXCEPT !.i = Len(Maps)] /\ UNCHANGED status

CanAttach == attached[run.iface].obj = NoObject \/ attached[run.iface].mode = run.mode
\* bpf_xdp_attach
Attach ==
  /\ pc = "attach"
  /\ \/ /\ CanAttach
        /\ attached' = [attached EXCEPT ![run.iface] = [obj |-> run.obj, mode |-> run.mode]]
        /\ Proceed("attach")
     \/ UnpinAfterAttach /\ UNCHANGED attached
  /\ UNCHANGED <<maps, pins, before>>

\* What this run has pinned is unpinned: pin_maps' error path, or unpin_maps.
Unpin ==
  /\ pc = "unpin"
  /\ \/ /\ run.i > 0
        /\ pins' = [pins EXCEPT ![Maps[run.i]] = NoObject]
        /\ run' = [run EXCEPT !.i = @ - 1]
        /\ UNCHANGED <<pc, status>>
     \/ /\ run.i = 0
        /\ Exit("1")
        /\ UNCHANGED pins
  /\ UNCHANGED <<attached, maps, before>>

\* -i iface -d [-S]: bpf_xdp_detach.
StartDetach(iface, mode) ==
  /\ Begin("detach")
  /\ \E failed \in BOOLEAN :
       /\ attached' = IF ~failed /\ attached[iface].mode = mode
                      THEN [attached EXCEPT ![iface] = NotAttached] ELSE attached
       /\ pc' = IF failed THEN "unlink_failed" ELSE "unlink"
  /\ run' = [Idle EXCEPT !.iface = iface, !.mode = mode]
  /\ UNCHANGED status

\* Mutant: nothing is unlinked when the detach failed.
UnlinkOnSuccess == pc = "unlink"
Unlinking == pc \in {"unlink", "unlink_failed"}

\* The four unlinks and the rmdir, whatever bpf_xdp_detach returned and whether or
\* not the unlinks before succeeded; the status is bpf_xdp_detach's.
Unlink ==
  /\ pc \in {"unlink", "unlink_failed"}
  /\ \/ /\ Unlinking /\ run.i < Len(Maps)
        /\ \/ /\ pins' = [pins EXCEPT ![Maps[run.i + 1]] = NoObject]
              /\ UNCHANGED before
           \/ /\ pins[Maps[run.i + 1]] # NoObject
              /\ before' = [before EXCEPT !.stuck = @ \cup {Maps[run.i + 1]}]
              /\ UNCHANGED pins
        /\ run' = [run EXCEPT !.i = @ + 1]
        /\ UNCHANGED <<pc, status>>
     \/ /\ ~Unlinking \/ run.i = Len(Maps)
        /\ Exit(IF pc = "unlink" THEN "0" ELSE "1")
        /\ UNCHANGED <<pins, before>>
  /\ UNCHANGED <<attached, maps>>

\* The loader is killed.
Kill ==
  /\ pc # "none"
  /\ Exit("killed")
  /\ UNCHANGED <<attached, maps, pins, before>>

LoaderStep == Fill \/ FillCount \/ Pin \/ Attach \/ Unpin \/ Unlink

SNext ==
  \/ UnknownInterface
  \/ \E iface \in Ifaces, mode \in Modes, cpus \in CpuLists :
       StartAttach(iface, mode, cpus)
  \/ \E iface \in Ifaces, mode \in Modes : StartDetach(iface, mode)
  \/ LoaderStep
  \/ Kill

SSpec == SInit /\ [][SNext]_svars

-----------------------------------------------------------------------------
(* The program *)

CpuIndex(h, n) == h % n

\* l2tp_steer on a data packet: the cpu it is redirected to, or "pass".
SteerTo(o, h) ==
  LET m == maps[o]
      n == m.cpu_count
  IN IF n # 0 /\ CpuIndex(h, n) \in DOMAIN m.cpus_available
        /\ m.cpus_available[CpuIndex(h, n)] \in m.cpu_map
     THEN <<"redirect", m.cpus_available[CpuIndex(h, n)]>> ELSE <<"pass">>

-----------------------------------------------------------------------------
(* Properties *)

\* A program that is attached steers every session to a cpu that exists, unless it
\* was given an empty list, however the runs of the loader ended: killed halfway,
\* refused by the kernel, or replaced by a later one.
AttachedSteers ==
  \A f \in Ifaces :
    LET o == attached[f].obj
    IN o # NoObject /\ maps[o].cpu_map # {} =>
         \A h \in Hashes : SteerTo(o, h) \in {"redirect"} \X (0 .. Possible - 1)

\* "same session -> same core" (l2tp_steer.bpf.c:175): as long as the same program
\* is attached, a session's packets go to one cpu; the loader never touches the maps
\* of a program that packets run through.
SessionOnOneCpu ==
  [][\A f \in Ifaces, h \in Hashes :
       attached[f].obj # NoObject /\ attached'[f] = attached[f] =>
         SteerTo(attached[f].obj, h)' = SteerTo(attached[f].obj, h)]_svars

\* An attach that fails changes nothing: the program attached before keeps running
\* with its maps pinned, and no pin of the failed run stays behind to make the next
\* one fail ("already attached? use -d first", l2tp_steer.c:230).
FailureLeavesNothing ==
  pc = "none" /\ before.op = "attach" /\ status = "1" =>
    attached = before.attached /\ pins = before.pins

\* "detach and unpin": -d on a known interface that runs to its end has tried to
\* remove every pin, also those a killed run left without a program and whatever
\* bpf_xdp_detach or an unlink before returned: a pin is left only if its own unlink
\* failed.  So after "already attached? use -d first" (l2tp_steer.c:230) one -d
\* clears the way, unless the file system refuses.
DetachCleans ==
  pc = "none" /\ before.op = "detach" /\ status # "killed" =>
    \A m \in MapNames : pins[m] # NoObject =>
      m \in before.stuck /\ pins[m] = before.pins[m]
=============================================================================
