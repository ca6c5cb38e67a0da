--------------------------- MODULE MountLifecycle ---------------------------
(***************************************************************************)
(* Loading, mounting, using, unmounting and unloading the two kernel       *)
(* modules: repfs with its ReportFS (rep.c), latfs with its LatencyFS      *)
(* (lat.c) and its /proc/lattester (proc.c).  Three pointers are shared by *)
(* all mounts and writes, and only unloading resets them: g_report_sbi in  *)
(* repfs, rep_sbi and global_sbi in latfs.  A superblock's private data is *)
(* named by the device it was mounted from, and told apart by the pointer: *)
(* the first two point to a report_sbi, the third to a latency_sbi.        *)
(*                                                                         *)
(* mount_bdev, kill_block_super, module reference counts and module_get    *)
(* are the kernel's; they are modelled from how the two modules use them.  *)
(*                                                                         *)
(* Bounds: MaxWrites commands are written between two loads of latfs, and  *)
(* MaxWorkers single-thread workers are created in a behaviour.            *)
(***************************************************************************)
EXTENDS Naturals, FiniteSets, Sequences

CONSTANTS
  Devices,
  Mounters,     \* processes that call mount()
  Client,       \* "script": the order of umount.sh, mount.sh and a subtest;
                \* "admin": any order
  MayFail,      \* whether a mount or a kmalloc may fail
  NewKernel,    \* LINUX_VERSION_CODE >= 4.17.6
  MaxWrites,
  MaxWorkers,
  NoSb          \* a null pointer

ASSUME ConstantsAssumption ==
  /\ IsFiniteSet(Devices) /\ IsFiniteSet(Mounters)
  /\ Client \in {"script", "admin"}
  /\ MayFail \in BOOLEAN /\ NewKernel \in BOOLEAN
  /\ MaxWrites \in Nat /\ MaxWorkers \in Nat
  /\ NoSb \notin Devices

VARIABLES
  repfs, latfs,  \* whether the module is loaded
  g_report_sbi,
  rep_sbi,
  global_sbi,
  mapped,        \* the private data, by file system and device, that has its virt_addr
  mounted,       \* what is mounted from each device
  mounter,       \* the state of each process inside mount()
  writer,        \* the state of the process inside proc_write
  leaked,        \* references to latfs that nobody returns
  writes,        \* commands since latfs was loaded
  workers,       \* single-thread workers, all of them still there
  oops,          \* whether the kernel has crashed
  step           \* the script's next command

vars == <<repfs, latfs, g_report_sbi, rep_sbi, global_sbi, mapped, mounted,
          mounter, writer, leaked, writes, workers, oops, step>>
modules == <<repfs, latfs>>
pointers == <<g_report_sbi, rep_sbi, global_sbi>>
writing == <<writer, leaked, writes, workers>>

Sb == Devices \cup {NoSb}
FileSystems == {"ReportFS", "LatencyFS"}
MountPc == {"idle", "check", "claim", "probe", "root"}

TypeOK ==
  /\ repfs \in BOOLEAN /\ latfs \in BOOLEAN
  /\ g_report_sbi \in Sb /\ rep_sbi \in Sb /\ global_sbi \in Sb
  /\ mapped \subseteq FileSystems \X Devices
  /\ mounted \in [Devices -> FileSystems \cup {"none"}]
  /\ mounter \in [Mounters -> [pc : MountPc, fs : FileSystems, dev : Sb]]
  /\ writer \in {"idle", "check", "running"}
  /\ leaked \in 0 .. MaxWrites /\ writes \in 0 .. MaxWrites
  /\ workers \in 0 .. MaxWorkers
  /\ oops \in BOOLEAN /\ step \in 1 .. 9

Init ==
  /\ repfs = FALSE /\ latfs = FALSE
  /\ g_report_sbi = NoSb /\ rep_sbi = NoSb /\ global_sbi = NoSb
  /\ mapped = {}
  /\ mounted = [d \in Devices |-> "none"]
  /\ mounter = [m \in Mounters |-> [pc |-> "idle", fs |-> "ReportFS", dev |-> NoSb]]
  /\ writer = "idle" /\ leaked = 0 /\ writes = 0 /\ workers = 0
  /\ oops = FALSE /\ step = 1
-----------------------------------------------------------------------------
\* Mutant: umount.sh leaves the modules loaded.
ScriptKeepsModules ==
  <<"insmod repfs", "insmod latfs", "mount ReportFS", "mount LatencyFS",
    "write", "umount LatencyFS", "umount ReportFS">>

\* mount.sh, a subtest that writes a command, umount.sh.
Script == <<"insmod repfs", "insmod latfs", "mount ReportFS", "mount LatencyFS",
            "write", "umount LatencyFS", "umount ReportFS", "rmmod latfs", "rmmod repfs">>

MountOf(fs) == IF fs = "ReportFS" THEN "mount ReportFS" ELSE "mount LatencyFS"
UmountOf(fs) == IF fs = "ReportFS" THEN "umount ReportFS" ELSE "umount LatencyFS"

\* A command of the script is only given when it is its turn; when it has
\* ended, well or not, the next one has (nothing checks a result).
Turn(op) == ~oops /\ (Client = "script" => Script[step] = op)
Advance == step' = IF Client = "script" THEN (step % Len(Script)) + 1 ELSE step

MountedAs(fs) == {d \in Devices : mounted[d] = fs}
Mounting(fs) == {m \in Mounters : mounter[m].pc # "idle" /\ mounter[m].fs = fs}

\* Mutant: proc_write does not take a reference.
LatRefsNoWriter ==
  Cardinality(MountedAs("LatencyFS")) + Cardinality(Mounting("LatencyFS")) + leaked

\* The reference counts of the modules; latfs uses a symbol of repfs.
LatRefs ==
  Cardinality(MountedAs("LatencyFS")) + Cardinality(Mounting("LatencyFS"))
    + leaked + (IF writer = "idle" THEN 0 ELSE 1)

\* Mutant: repfs exports nothing that latfs links to.
RepRefsUnlinked ==
  Cardinality(MountedAs("ReportFS")) + Cardinality(Mounting("ReportFS"))

RepRefs ==
  Cardinality(MountedAs("ReportFS")) + Cardinality(Mounting("ReportFS"))
    + (IF latfs THEN 1 ELSE 0)
-----------------------------------------------------------------------------
(***************************************************************************)
(* insmod and rmmod.                                                       *)
(***************************************************************************)
InsmodRep ==
  /\ Turn("insmod repfs") /\ Advance
  /\ repfs' = TRUE
  /\ UNCHANGED <<latfs, pointers, mapped, mounted, mounter, writing, oops>>

\* The search for a running instance never finds one: PTR_ERR of a valid
\* pointer is not 0.
InsmodLat ==
  /\ Turn("insmod latfs") /\ Advance
  /\ latfs' = (latfs \/ repfs)
  /\ UNCHANGED <<repfs, pointers, mapped, mounted, mounter, writing, oops>>

RmmodLat ==
  /\ Turn("rmmod latfs") /\ Advance
  /\ IF latfs /\ LatRefs = 0
     THEN /\ latfs' = FALSE
          /\ rep_sbi' = NoSb /\ global_sbi' = NoSb /\ writes' = 0
     ELSE UNCHANGED <<latfs, rep_sbi, global_sbi, writes>>
  /\ UNCHANGED <<repfs, g_report_sbi, mapped, mounted, mounter, writer, leaked, workers, oops>>

RmmodRep ==
  /\ Turn("rmmod repfs") /\ Advance
  /\ IF repfs /\ RepRefs = 0
     THEN repfs' = FALSE /\ g_report_sbi' = NoSb
     ELSE UNCHANGED <<repfs, g_report_sbi>>
  /\ UNCHANGED <<latfs, rep_sbi, global_sbi, mapped, mounted, mounter, writing, oops>>
-----------------------------------------------------------------------------
(***************************************************************************)
(* mount() and umount(): mount_bdev calls fill_super on a device nobody    *)
(* else has; when fill_super fails it destroys the superblock, and the     *)
(* private data stays behind.                                              *)
(***************************************************************************)
Loaded(fs) == IF fs = "ReportFS" THEN repfs ELSE latfs
Goes(m, pc) == mounter' = [mounter EXCEPT ![m].pc = pc]
In(m, fs, pc) == ~oops /\ mounter[m].pc = pc /\ mounter[m].fs = fs
Ends(m) == Goes(m, "idle") /\ Advance
Private(m) == <<mounter[m].fs, mounter[m].dev>>

Mount(m, fs, d) ==
  /\ Turn(MountOf(fs))
  /\ mounter[m].pc = "idle"
  /\ mounted[d] = "none" /\ \A n \in Mounters : mounter[n].pc = "idle" \/ mounter[n].dev # d
  /\ IF Loaded(fs)
     THEN mounter' = [mounter EXCEPT ![m] = [pc |-> "check", fs |-> fs, dev |-> d]]
          /\ step' = step
     ELSE mounter' = mounter /\ Advance
  /\ UNCHANGED <<modules, pointers, mapped, mounted, writing, oops>>

\* reportfs_fill_super: kzalloc, then "Another ReportFS already".
CheckReport(m) ==
  /\ In(m, "ReportFS", "check")
  /\ \/ (MayFail \/ g_report_sbi # NoSb) /\ Ends(m)
     \/ g_report_sbi = NoSb /\ Goes(m, "claim") /\ step' = step
  /\ UNCHANGED <<modules, pointers, mapped, mounted, writing, oops>>

\* The pointer is set before anything is known of the device.
ClaimReport(m) ==
  /\ In(m, "ReportFS", "claim")
  /\ g_report_sbi' = mounter[m].dev
  /\ mapped' = mapped \ {Private(m)}
  /\ Goes(m, "probe") /\ step' = step
  /\ UNCHANGED <<modules, rep_sbi, global_sbi, mounted, writing, oops>>

\* latencyfs_fill_super: "Already mounted", then "Mount ReportFS first".
CheckLatency(m) ==
  /\ In(m, "LatencyFS", "check")
  /\ IF rep_sbi # NoSb THEN Ends(m) ELSE Goes(m, "claim") /\ step' = step
  /\ UNCHANGED <<modules, pointers, mapped, mounted, writing, oops>>

\* Mutant: global_sbi is set with the other fields, before the last failure.
ClaimLatencyPublishes(m) ==
  /\ In(m, "LatencyFS", "claim")
  /\ rep_sbi' = g_report_sbi
  /\ IF g_report_sbi = NoSb
     THEN Ends(m) /\ UNCHANGED <<mapped, global_sbi>>
     ELSE /\ mapped' = mapped \ {Private(m)}
          /\ global_sbi' = mounter[m].dev
          /\ Goes(m, "probe") /\ step' = step
  /\ UNCHANGED <<modules, g_report_sbi, mounted, writing, oops>>

ClaimLatency(m) ==
  /\ In(m, "LatencyFS", "claim")
  /\ rep_sbi' = g_report_sbi
  /\ IF g_report_sbi = NoSb
     THEN Ends(m) /\ UNCHANGED mapped
     ELSE mapped' = mapped \ {Private(m)} /\ Goes(m, "probe") /\ step' = step
  /\ UNCHANGED <<modules, g_report_sbi, global_sbi, mounted, writing, oops>>

\* Both: bdev_dax_supported, fs_dax_get_by_host, dax_direct_access.
Probe(m) ==
  /\ ~oops /\ mounter[m].pc = "probe"
  /\ mapped' = mapped \cup {Private(m)}
  /\ Goes(m, "root") /\ step' = step
  /\ UNCHANGED <<modules, pointers, mounted, writing, oops>>

ProbeFails(m) ==
  /\ ~oops /\ mounter[m].pc = "probe" /\ MayFail
  /\ Ends(m)
  /\ UNCHANGED <<modules, pointers, mapped, mounted, writing, oops>>

\* "device does not support DAX": since 4.17.6 the value returned is 0, and
\* mount_bdev goes on to the root of a superblock that has none.
NoDax(m) ==
  /\ ~oops /\ mounter[m].pc = "probe" /\ MayFail /\ NewKernel
  /\ oops' = TRUE
  /\ UNCHANGED <<modules, pointers, mapped, mounted, mounter, writing, step>>

\* new_inode and d_make_root, of either file system.
RootFails(m) ==
  /\ ~oops /\ mounter[m].pc = "root" /\ MayFail
  /\ Ends(m)
  /\ UNCHANGED <<modules, pointers, mapped, mounted, writing, oops>>

ReportMounted(m) ==
  /\ In(m, "ReportFS", "root")
  /\ mounted' = [mounted EXCEPT ![mounter[m].dev] = "ReportFS"]
  /\ Ends(m)
  /\ UNCHANGED <<modules, pointers, mapped, writing, oops>>

LatencyMounted(m) ==
  /\ In(m, "LatencyFS", "root")
  /\ global_sbi' = mounter[m].dev
  /\ mounted' = [mounted EXCEPT ![mounter[m].dev] = "LatencyFS"]
  /\ Ends(m)
  /\ UNCHANGED <<modules, g_report_sbi, rep_sbi, mapped, writing, oops>>

\* kill_block_super: none of the three pointers is reset.
Umount(fs) ==
  /\ Turn(UmountOf(fs)) /\ Advance
  /\ \/ \E d \in MountedAs(fs) : mounted' = [mounted EXCEPT ![d] = "none"]
     \/ MountedAs(fs) = {} /\ mounted' = mounted
  /\ UNCHANGED <<modules, pointers, mapped, mounter, writing, oops>>
-----------------------------------------------------------------------------
(***************************************************************************)
(* latencyfs_proc_write.                                                   *)
(***************************************************************************)
Write ==
  /\ Turn("write") /\ writer = "idle"
  /\ IF latfs
     THEN writes < MaxWrites /\ writes' = writes + 1 /\ writer' = "check" /\ step' = step
     ELSE UNCHANGED <<writer, writes>> /\ Advance
  /\ UNCHANGED <<modules, pointers, mapped, mounted, mounter, leaked, workers, oops>>

\* kmalloc or copy_from_user failed, or nothing is mounted: the reference
\* that try_module_get took is not returned.
WriteRefused ==
  /\ ~oops /\ writer = "check"
  /\ MayFail \/ global_sbi = NoSb
  /\ leaked' = leaked + 1
  /\ writer' = "idle" /\ Advance
  /\ UNCHANGED <<modules, pointers, mapped, mounted, mounter, writes, workers, oops>>

WriteRuns ==
  /\ ~oops /\ writer = "check"
  /\ global_sbi # NoSb
  /\ writer' = "running"
  /\ UNCHANGED <<modules, pointers, mapped, mounted, mounter, leaked, writes, workers, oops, step>>

\* Mutant: no module_put at the end.
WriteEndsKeeping ==
  /\ ~oops /\ writer = "running"
  /\ \/ workers' = workers
     \/ workers < MaxWorkers /\ workers' = workers + 1
  /\ writer' = "idle" /\ Advance
  /\ leaked' = leaked + 1
  /\ UNCHANGED <<modules, pointers, mapped, mounted, mounter, writes, oops>>

\* A multi-thread task has stopped its workers; a single-thread task leaves
\* one behind.
WriteEnds ==
  /\ ~oops /\ writer = "running"
  /\ \/ workers' = workers
     \/ workers < MaxWorkers /\ workers' = workers + 1
  /\ writer' = "idle" /\ Advance
  /\ UNCHANGED <<modules, pointers, mapped, mounted, mounter, leaked, writes, oops>>
-----------------------------------------------------------------------------
MountStep(m) ==
  \/ CheckReport(m) \/ ClaimReport(m) \/ CheckLatency(m) \/ ClaimLatency(m)
  \/ Probe(m) \/ ProbeFails(m) \/ NoDax(m) \/ RootFails(m)
  \/ ReportMounted(m) \/ LatencyMounted(m)

Next ==
  \/ InsmodRep \/ InsmodLat \/ RmmodLat \/ RmmodRep
  \/ \E m \in Mounters :
       MountStep(m) \/ \E fs \in FileSystems, d \in Devices : Mount(m, fs, d)
  \/ \E fs \in FileSystems : Umount(fs)
  \/ Write \/ WriteRefused \/ WriteRuns \/ WriteEnds

Spec == Init /\ [][Next]_vars

\* A script goes on to its next command.
FairSpec == Spec /\ WF_vars(Next)
-----------------------------------------------------------------------------
\* latfs never holds a pointer into a repfs that has been unloaded, nor one
\* that repfs has replaced: the workers dereference sbi->rep at any time.
ReportPointerValid == rep_sbi # NoSb => repfs /\ rep_sbi = g_report_sbi

\* A command that runs finds a LatencyFS whose region is mapped, whatever
\* mount has failed before: global_sbi is the last thing a mount sets
\* (lat.c:448).  g_report_sbi is the first (rep.c:73), so that LatencyFS can
\* be mounted on a report area that a failed mount has left without an
\* address; but the area is mapped whenever a ReportFS is mounted, which
\* run.example.sh:14-18 looks for, and not only that one has been.
PublishedWhole ==
  global_sbi # NoSb =>
    /\ latfs /\ <<"LatencyFS", global_sbi>> \in mapped
    /\ rep_sbi # NoSb
    /\ MountedAs("ReportFS") # {} => <<"ReportFS", rep_sbi>> \in mapped

\* latfs is not unloaded under a process that is writing a command.
WritesInLoadedModule == writer # "idle" => latfs

\* When every mount succeeds a command of a script runs with both file
\* systems mounted and mapped.
CommandOnMounted ==
  writer = "running" =>
    /\ global_sbi \in MountedAs("LatencyFS") /\ rep_sbi \in MountedAs("ReportFS")
    /\ {<<"LatencyFS", global_sbi>>, <<"ReportFS", rep_sbi>>} \subseteq mapped

\* umount.sh unloads latfs, again and again: no reference stays behind.
Reloads == []<>~latfs /\ []<>(global_sbi # NoSb)

=============================================================================
