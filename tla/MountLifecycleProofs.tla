-------------------------- MODULE MountLifecycleProofs --------------------------
(***************************************************************************)
(* Proofs about MountLifecycle, for any devices, any order of the          *)
(* operations and any failures, if one process at a time is inside         *)
(* mount(), which is what an administrator or mount.sh does.               *)
(***************************************************************************)
EXTENDS MountLifecycle, FiniteSetTheorems, TLAPS

\* One process mounts.
OneMounter == \A m, n \in Mounters : m = n

\* The modules: latfs needs repfs, and whoever is at work in a module has
\* loaded it; without latfs its pointers are null.  A reference is leaked by a
\* write at most.
ModulesHeld ==
  /\ latfs => repfs
  /\ leaked + (IF writer = "idle" THEN 0 ELSE 1) <= writes
  /\ writer # "idle" => latfs
  /\ ~latfs => rep_sbi = NoSb /\ global_sbi = NoSb
  /\ ~repfs => g_report_sbi = NoSb
  /\ \A m \in Mounters : mounter[m].pc # "idle" =>
       /\ mounter[m].dev \in Devices
       /\ Loaded(mounter[m].fs)

\* What a mount knows at each of its steps.
MountKnows ==
  \A m \in Mounters :
    /\ mounter[m].pc = "claim" =>
         IF mounter[m].fs = "ReportFS" THEN g_report_sbi = NoSb ELSE rep_sbi = NoSb
    /\ mounter[m].pc \in {"probe", "root"} /\ mounter[m].fs = "LatencyFS" =>
         rep_sbi # NoSb
    /\ mounter[m].pc \in {"probe", "root"} /\ mounter[m].fs = "ReportFS" =>
         g_report_sbi = mounter[m].dev
    /\ mounter[m].pc = "root" => Private(m) \in mapped

\* The LatencyFS that is found is mapped, and has the pointer to a report area.
LatencyWhole ==
  global_sbi # NoSb => latfs /\ <<"LatencyFS", global_sbi>> \in mapped /\ rep_sbi # NoSb

IInv ==
  /\ TypeOK /\ ModulesHeld /\ MountKnows
  /\ ReportPointerValid /\ LatencyWhole

\* A module without references has nobody in mount() and no writer.
LEMMA NoRefs ==
  ASSUME TypeOK
  PROVE  /\ LatRefs = 0 => writer = "idle" /\ leaked = 0 /\ Mounting("LatencyFS") = {}
         /\ RepRefs = 0 => ~latfs /\ Mounting("ReportFS") = {} /\ MountedAs("ReportFS") = {}
<1>1. ASSUME NEW fs
      PROVE  /\ Cardinality(MountedAs(fs)) \in Nat
             /\ Cardinality(Mounting(fs)) \in Nat
             /\ Cardinality(Mounting(fs)) = 0 => Mounting(fs) = {}
             /\ Cardinality(MountedAs(fs)) = 0 => MountedAs(fs) = {}
  <2>1. MountedAs(fs) \subseteq Devices /\ Mounting(fs) \subseteq Mounters
    BY DEF MountedAs, Mounting
  <2>2. IsFiniteSet(MountedAs(fs)) /\ IsFiniteSet(Mounting(fs))
    BY <2>1, ConstantsAssumption, FS_Subset
  <2>. QED
    BY <2>2, FS_CardinalityType, FS_EmptySet
<1>2. leaked \in Nat
  BY ConstantsAssumption DEF TypeOK
<1>3. LatRefs = 0 => writer = "idle" /\ leaked = 0 /\ Cardinality(Mounting("LatencyFS")) = 0
  <2>1. PICK a \in Nat, b \in Nat : /\ a = Cardinality(MountedAs("LatencyFS"))
                                    /\ b = Cardinality(Mounting("LatencyFS"))
    BY <1>1
  <2>2. LatRefs = a + b + leaked + (IF writer = "idle" THEN 0 ELSE 1)
    BY <2>1 DEF LatRefs
  <2>3. CASE writer = "idle"
    <3>1. LatRefs = a + b + leaked
      BY <2>2, <2>3, <1>2
    <3>2. LatRefs = 0 => b = 0 /\ leaked = 0
      BY <3>1, <1>2
    <3>. QED
      BY <2>1, <2>3, <3>2
  <2>4. CASE writer # "idle"
    BY <2>2, <2>4, <1>2
  <2>. QED
    BY <2>3, <2>4
<1>4. RepRefs = 0 => ~latfs /\ Cardinality(Mounting("ReportFS")) = 0
                     /\ Cardinality(MountedAs("ReportFS")) = 0
  <2>1. PICK a \in Nat, b \in Nat : /\ a = Cardinality(MountedAs("ReportFS"))
                                    /\ b = Cardinality(Mounting("ReportFS"))
    BY <1>1
  <2>2. RepRefs = a + b + (IF latfs THEN 1 ELSE 0)
    BY <2>1 DEF RepRefs
  <2>3. CASE latfs
    BY <2>2, <2>3
  <2>4. CASE ~latfs
    BY <2>1, <2>2, <2>4
  <2>. QED
    BY <2>3, <2>4
<1>. QED
  BY <1>1, <1>3, <1>4

\* Nothing is loaded and no pointer is set: the invariant holds.
LEMMA InitInvariant == Init => IInv
<1>. SUFFICES ASSUME Init PROVE IInv
  OBVIOUS
<1>1. NoSb \in Sb /\ MaxWrites \in Nat /\ MaxWorkers \in Nat
  BY ConstantsAssumption DEF Sb
<1>2. /\ mounted \in [Devices -> FileSystems \cup {"none"}]
      /\ mounter \in [Mounters -> [pc : MountPc, fs : FileSystems, dev : Sb]]
  BY <1>1 DEF Init, MountPc, FileSystems
<1>a. 0 \in 0 .. MaxWrites /\ 0 \in 0 .. MaxWorkers /\ 1 \in 1 .. 9
  BY <1>1
<1>3. TypeOK
  BY <1>1, <1>2, <1>a DEF Init, TypeOK
<1>4. ModulesHeld /\ MountKnows /\ ReportPointerValid /\ LatencyWhole
  BY DEF Init, ModulesHeld, MountKnows, Private, ReportPointerValid, LatencyWhole
<1>. QED
  BY <1>3, <1>4 DEF IInv

\* The script's next command is one of nine.
LEMMA AdvanceType ==
  ASSUME step \in 1 .. 9
  PROVE  Advance => step' \in 1 .. 9
<1>1. Len(Script) = 9
  BY DEF Script
<1>2. (step % 9) + 1 \in 1 .. 9
  OBVIOUS
<1>. QED
  BY <1>1, <1>2 DEF Advance
-----------------------------------------------------------------------------
(***************************************************************************)
(* Every action keeps the invariant.                                       *)
(***************************************************************************)
LEMMA InsmodStep ==
  ASSUME IInv, InsmodRep \/ InsmodLat
  PROVE  IInv'
<1>1. TypeOK'
  BY AdvanceType DEF IInv, TypeOK, InsmodRep, InsmodLat, modules, pointers, writing
<1>2. ModulesHeld'
  BY DEF IInv, ModulesHeld, Loaded, InsmodRep, InsmodLat, modules, pointers, writing
<1>3. MountKnows' /\ ReportPointerValid' /\ LatencyWhole'
  BY DEF IInv, ModulesHeld, MountKnows, Private, ReportPointerValid, LatencyWhole,
         InsmodRep, InsmodLat, modules, pointers, writing
<1>. QED
  BY <1>1, <1>2, <1>3 DEF IInv

\* latfs is unloaded when nobody is in it, and its pointers go with it.
LEMMA RmmodLatStep ==
  ASSUME IInv, RmmodLat
  PROVE  IInv'
<1>1. CASE latfs /\ LatRefs = 0
  <2>1. writer = "idle" /\ leaked = 0 /\ Mounting("LatencyFS") = {}
    BY <1>1, NoRefs DEF IInv
  <2>2. /\ latfs' = FALSE /\ rep_sbi' = NoSb /\ global_sbi' = NoSb /\ writes' = 0 /\ Advance
        /\ UNCHANGED <<repfs, g_report_sbi, mapped, mounted, mounter, writer, leaked, workers, oops>>
    BY <1>1 DEF RmmodLat
  <2>3. TypeOK'
    <3>1. 0 \in 0 .. MaxWrites /\ NoSb \in Sb /\ step' \in 1 .. 9
      BY <2>2, AdvanceType, ConstantsAssumption DEF IInv, TypeOK, Sb
    <3>. QED
      BY <2>2, <3>1 DEF IInv, TypeOK
  <2>4. \A m \in Mounters : mounter[m].pc # "idle" => mounter[m].fs = "ReportFS"
    BY <2>1 DEF Mounting, IInv, TypeOK, FileSystems
  <2>5. ModulesHeld'
    BY <2>1, <2>2, <2>4 DEF IInv, ModulesHeld, Loaded
  <2>6. MountKnows'
    BY <2>2, <2>4 DEF IInv, MountKnows, Private
  <2>7. ReportPointerValid' /\ LatencyWhole'
    BY <2>2 DEF ReportPointerValid, LatencyWhole
  <2>. QED
    BY <2>3, <2>5, <2>6, <2>7 DEF IInv
<1>2. CASE ~(latfs /\ LatRefs = 0)
  <2>1. Advance /\ UNCHANGED <<latfs, rep_sbi, global_sbi, writes, repfs, g_report_sbi, mapped,
                               mounted, mounter, writer, leaked, workers, oops>>
    BY <1>2 DEF RmmodLat
  <2>2. TypeOK'
    BY <2>1, AdvanceType DEF IInv, TypeOK
  <2>3. ModulesHeld' /\ MountKnows' /\ ReportPointerValid' /\ LatencyWhole'
    BY <2>1 DEF IInv, ModulesHeld, Loaded, MountKnows, Private, ReportPointerValid, LatencyWhole
  <2>. QED
    BY <2>2, <2>3 DEF IInv
<1>. QED
  BY <1>1, <1>2

\* repfs is unloaded when latfs is not loaded, so nothing points to it.
LEMMA RmmodRepStep ==
  ASSUME IInv, RmmodRep
  PROVE  IInv'
<1>1. CASE repfs /\ RepRefs = 0
  <2>1. ~latfs /\ Mounting("ReportFS") = {}
    BY <1>1, NoRefs DEF IInv
  <2>2. /\ repfs' = FALSE /\ g_report_sbi' = NoSb /\ Advance
        /\ UNCHANGED <<latfs, rep_sbi, global_sbi, mapped, mounted, mounter, writing, oops>>
    BY <1>1 DEF RmmodRep
  <2>3. TypeOK'
    BY <2>2, AdvanceType, ConstantsAssumption DEF IInv, TypeOK, Sb, writing
  <2>4. \A m \in Mounters : mounter[m].pc = "idle"
    BY <2>1 DEF Mounting, IInv, TypeOK, FileSystems, ModulesHeld, Loaded
  <2>5. ModulesHeld'
    BY <2>1, <2>2, <2>4 DEF IInv, ModulesHeld, writing
  <2>6. MountKnows' /\ ReportPointerValid' /\ LatencyWhole'
    BY <2>1, <2>2, <2>4 DEF IInv, ModulesHeld, MountKnows, Private, ReportPointerValid, LatencyWhole
  <2>. QED
    BY <2>3, <2>5, <2>6 DEF IInv
<1>2. CASE ~(repfs /\ RepRefs = 0)
  <2>1. Advance /\ UNCHANGED <<repfs, g_report_sbi, latfs, rep_sbi, global_sbi, mapped, mounted,
                               mounter, writing, oops>>
    BY <1>2 DEF RmmodRep
  <2>2. TypeOK'
    BY <2>1, AdvanceType DEF IInv, TypeOK, writing
  <2>3. ModulesHeld' /\ MountKnows' /\ ReportPointerValid' /\ LatencyWhole'
    BY <2>1 DEF IInv, ModulesHeld, Loaded, MountKnows, Private, ReportPointerValid, LatencyWhole, writing
  <2>. QED
    BY <2>2, <2>3 DEF IInv
<1>. QED
  BY <1>1, <1>2

\* A step of mount() changes the place of its process only.
LEMMA Moved ==
  ASSUME TypeOK, NEW m \in Mounters, NEW p \in MountPc, Goes(m, p)
  PROVE  /\ mounter' \in [Mounters -> [pc : MountPc, fs : FileSystems, dev : Sb]]
         /\ mounter'[m].pc = p /\ mounter'[m].fs = mounter[m].fs
         /\ mounter'[m].dev = mounter[m].dev
<1>1. mounter \in [Mounters -> [pc : MountPc, fs : FileSystems, dev : Sb]]
  BY DEF TypeOK
<1>2. mounter' = [mounter EXCEPT ![m].pc = p]
  BY DEF Goes
<1>. QED
  BY <1>1, <1>2

\* mount() enters a module that is loaded.
LEMMA MountCallStep ==
  ASSUME IInv, OneMounter, NEW m \in Mounters, NEW fs \in FileSystems, NEW d \in Devices,
         Mount(m, fs, d)
  PROVE  IInv'
<1>1. /\ UNCHANGED <<modules, pointers, mapped, mounted, writing, oops>>
      /\ \/ /\ Loaded(fs) /\ step' = step
            /\ mounter' = [mounter EXCEPT ![m] = [pc |-> "check", fs |-> fs, dev |-> d]]
         \/ mounter' = mounter /\ Advance
  BY DEF Mount
<1>2. /\ mounter' \in [Mounters -> [pc : MountPc, fs : FileSystems, dev : Sb]]
      /\ \/ mounter' = mounter
         \/ Loaded(fs) /\ mounter'[m] = [pc |-> "check", fs |-> fs, dev |-> d]
  BY <1>1 DEF IInv, TypeOK, MountPc, Sb
<1>3. TypeOK'
  BY <1>1, <1>2, AdvanceType DEF IInv, TypeOK, modules, pointers, writing
<1>4. ModulesHeld' /\ MountKnows'
  BY <1>1, <1>2 DEF IInv, OneMounter, ModulesHeld, MountKnows, Private, Loaded, modules, pointers, writing
<1>5. ReportPointerValid' /\ LatencyWhole'
  BY <1>1 DEF IInv, ReportPointerValid, LatencyWhole, modules, pointers
<1>. QED
  BY <1>3, <1>4, <1>5 DEF IInv

\* The steps of mount() that leave the pointers alone and go to a place p
\* whose knowledge they have.
LEMMA PassStep ==
  ASSUME IInv, OneMounter, NEW m \in Mounters, NEW p \in MountPc,
         mounter[m].pc # "idle", Goes(m, p), step' \in 1 .. 9,
         UNCHANGED <<modules, pointers, writing, oops>>,
         mapped \subseteq mapped', mapped' \subseteq FileSystems \X Devices,
         mounted' \in [Devices -> FileSystems \cup {"none"}],
         p = "claim" =>
           IF mounter[m].fs = "ReportFS" THEN g_report_sbi = NoSb ELSE rep_sbi = NoSb,
         p \in {"probe", "root"} /\ mounter[m].fs = "LatencyFS" => rep_sbi # NoSb,
         p \in {"probe", "root"} /\ mounter[m].fs = "ReportFS" => g_report_sbi = mounter[m].dev,
         p = "root" => Private(m) \in mapped'
  PROVE  IInv'
<1>1. /\ mounter' \in [Mounters -> [pc : MountPc, fs : FileSystems, dev : Sb]]
      /\ mounter'[m].pc = p /\ mounter'[m].fs = mounter[m].fs
      /\ mounter'[m].dev = mounter[m].dev
  BY Moved DEF IInv
<1>2. TypeOK'
  BY <1>1 DEF IInv, TypeOK, modules, pointers, writing
<1>3. ModulesHeld' /\ MountKnows'
  BY <1>1 DEF IInv, OneMounter, ModulesHeld, MountKnows, Private, Loaded, modules, pointers, writing
<1>4. ReportPointerValid' /\ LatencyWhole'
  BY DEF IInv, ReportPointerValid, LatencyWhole, modules, pointers
<1>. QED
  BY <1>2, <1>3, <1>4 DEF IInv

\* The tests of the two globals are what the next step knows.
LEMMA CheckStep ==
  ASSUME IInv, OneMounter, NEW m \in Mounters, CheckReport(m) \/ CheckLatency(m)
  PROVE  IInv'
<1>1. step' \in 1 .. 9 /\ mounter[m].pc = "check"
      /\ UNCHANGED <<modules, pointers, mapped, mounted, writing, oops>>
  BY AdvanceType DEF IInv, TypeOK, CheckReport, CheckLatency, Ends, In
<1>2. \/ Goes(m, "idle")
      \/ /\ Goes(m, "claim")
         /\ IF mounter[m].fs = "ReportFS" THEN g_report_sbi = NoSb ELSE rep_sbi = NoSb
  BY DEF CheckReport, CheckLatency, Ends, In
<1>3. "idle" \in MountPc /\ "claim" \in MountPc
  BY DEF MountPc
<1>4. mapped' \subseteq FileSystems \X Devices /\ mounted' \in [Devices -> FileSystems \cup {"none"}]
  BY <1>1 DEF IInv, TypeOK
<1>. QED
  BY <1>1, <1>2, <1>3, <1>4, PassStep

\* A probed device is mapped; a failure leaves the pointers.
LEMMA ProbeStep ==
  ASSUME IInv, OneMounter, NEW m \in Mounters, Probe(m) \/ ProbeFails(m) \/ RootFails(m)
  PROVE  IInv'
<1>1. /\ step' \in 1 .. 9 /\ mounter[m].pc \in {"probe", "root"}
      /\ UNCHANGED <<modules, pointers, mounted, writing, oops>>
      /\ \/ mapped' = mapped /\ Goes(m, "idle")
         \/ mapped' = mapped \cup {Private(m)} /\ Goes(m, "root")
  BY AdvanceType DEF IInv, TypeOK, Probe, ProbeFails, RootFails, Ends
<1>2. "idle" \in MountPc /\ "root" \in MountPc
  BY DEF MountPc
<1>3. Private(m) \in FileSystems \X Devices /\ mapped \subseteq FileSystems \X Devices
      /\ mounted' \in [Devices -> FileSystems \cup {"none"}]
      /\ (mounter[m].fs = "LatencyFS" => rep_sbi # NoSb)
      /\ (mounter[m].fs = "ReportFS" => g_report_sbi = mounter[m].dev)
  BY <1>1 DEF IInv, TypeOK, ModulesHeld, MountKnows, Private
<1>. QED
  BY <1>1, <1>2, <1>3, PassStep

\* The end of a ReportFS mount changes no pointer.
LEMMA ReportMountedStep ==
  ASSUME IInv, OneMounter, NEW m \in Mounters, ReportMounted(m)
  PROVE  IInv'
<1>1. /\ step' \in 1 .. 9 /\ mounter[m].pc = "root"
      /\ UNCHANGED <<modules, pointers, mapped, writing, oops>>
      /\ Goes(m, "idle")
  BY AdvanceType DEF IInv, TypeOK, ReportMounted, Ends, In
<1>2. mapped' \subseteq FileSystems \X Devices /\ mounted' \in [Devices -> FileSystems \cup {"none"}]
  BY <1>1 DEF IInv, TypeOK, ReportMounted, FileSystems
<1>3. "idle" \in MountPc
  BY DEF MountPc
<1>. QED
  BY <1>1, <1>2, <1>3, PassStep

\* The first of the three pointers to be set: nothing points to what it was.
LEMMA ClaimReportStep ==
  ASSUME IInv, OneMounter, NEW m \in Mounters, ClaimReport(m)
  PROVE  IInv'
<1>1. /\ mounter[m].pc = "claim" /\ mounter[m].fs = "ReportFS"
      /\ g_report_sbi' = mounter[m].dev /\ mapped' = mapped \ {Private(m)}
      /\ Goes(m, "probe") /\ step' = step
      /\ UNCHANGED <<modules, rep_sbi, global_sbi, mounted, writing, oops>>
  BY DEF ClaimReport, In
<1>2. g_report_sbi = NoSb /\ repfs /\ mounter[m].dev \in Devices
  BY <1>1 DEF IInv, ModulesHeld, MountKnows, Private, Loaded
<1>3. rep_sbi = NoSb /\ global_sbi = NoSb
  BY <1>2 DEF IInv, ReportPointerValid, LatencyWhole
<1>4. /\ mounter' \in [Mounters -> [pc : MountPc, fs : FileSystems, dev : Sb]]
      /\ mounter'[m].pc = "probe" /\ mounter'[m].fs = mounter[m].fs
      /\ mounter'[m].dev = mounter[m].dev
  BY <1>1, Moved DEF IInv, MountPc
<1>5. TypeOK'
  BY <1>1, <1>2, <1>4 DEF IInv, TypeOK, modules, writing, Sb
<1>6. ModulesHeld' /\ MountKnows'
  BY <1>1, <1>2, <1>3, <1>4
  DEF IInv, OneMounter, ModulesHeld, MountKnows, Private, Loaded, modules, writing
<1>7. ReportPointerValid' /\ LatencyWhole'
  BY <1>1, <1>3 DEF ReportPointerValid, LatencyWhole
<1>. QED
  BY <1>5, <1>6, <1>7 DEF IInv

\* The copy of the pointer: latfs holds repfs from now on.
LEMMA ClaimLatencyStep ==
  ASSUME IInv, OneMounter, NEW m \in Mounters, ClaimLatency(m)
  PROVE  IInv'
<1>1. /\ mounter[m].pc = "claim" /\ mounter[m].fs = "LatencyFS"
      /\ rep_sbi' = g_report_sbi
      /\ UNCHANGED <<modules, g_report_sbi, global_sbi, mounted, writing, oops>>
      /\ \/ g_report_sbi = NoSb /\ Goes(m, "idle") /\ mapped' = mapped
         \/ /\ g_report_sbi # NoSb /\ Goes(m, "probe")
            /\ mapped' = mapped \ {Private(m)}
      /\ step' \in 1 .. 9
  BY AdvanceType DEF ClaimLatency, In, Ends, IInv, TypeOK
<1>2. rep_sbi = NoSb /\ latfs /\ repfs
  BY <1>1 DEF IInv, ModulesHeld, MountKnows, Private, Loaded
<1>3. global_sbi = NoSb
  BY <1>2 DEF IInv, LatencyWhole
<1>4. /\ mounter' \in [Mounters -> [pc : MountPc, fs : FileSystems, dev : Sb]]
      /\ mounter'[m].pc = "idle" \/ (mounter'[m].pc = "probe" /\ rep_sbi' # NoSb)
      /\ mounter'[m].fs = mounter[m].fs /\ mounter'[m].dev = mounter[m].dev
  BY <1>1, Moved DEF IInv, MountPc
<1>5. TypeOK'
  BY <1>1, <1>4 DEF IInv, TypeOK, modules, writing
<1>6. ModulesHeld' /\ MountKnows'
  BY <1>1, <1>2, <1>4 DEF IInv, OneMounter, ModulesHeld, MountKnows, Private, Loaded, modules, writing
<1>7. ReportPointerValid' /\ LatencyWhole'
  BY <1>1, <1>2, <1>3 DEF ReportPointerValid, LatencyWhole, modules
<1>. QED
  BY <1>5, <1>6, <1>7 DEF IInv

\* The last pointer: everything it leads to is there.
LEMMA LatencyMountedStep ==
  ASSUME IInv, OneMounter, NEW m \in Mounters, LatencyMounted(m)
  PROVE  IInv'
<1>1. /\ mounter[m].pc = "root" /\ mounter[m].fs = "LatencyFS"
      /\ global_sbi' = mounter[m].dev /\ Goes(m, "idle")
      /\ mounted' = [mounted EXCEPT ![mounter[m].dev] = "LatencyFS"]
      /\ UNCHANGED <<modules, g_report_sbi, rep_sbi, mapped, writing, oops>>
      /\ step' \in 1 .. 9
  BY AdvanceType DEF LatencyMounted, In, Ends, IInv, TypeOK
<1>2. /\ rep_sbi # NoSb /\ latfs /\ <<"LatencyFS", mounter[m].dev>> \in mapped
      /\ mounter[m].dev \in Devices
  BY <1>1 DEF IInv, ModulesHeld, MountKnows, Loaded, Private
<1>3. /\ mounter' \in [Mounters -> [pc : MountPc, fs : FileSystems, dev : Sb]]
      /\ mounter'[m].pc = "idle"
  BY <1>1, Moved DEF IInv, MountPc
<1>4. TypeOK'
  BY <1>1, <1>2, <1>3 DEF IInv, TypeOK, modules, writing, Sb, FileSystems
<1>5. ModulesHeld' /\ MountKnows'
  BY <1>1, <1>2, <1>3 DEF IInv, OneMounter, ModulesHeld, MountKnows, Private, Loaded, modules, writing
<1>6. ReportPointerValid' /\ LatencyWhole'
  BY <1>1, <1>2 DEF IInv, ReportPointerValid, LatencyWhole, modules
<1>. QED
  BY <1>4, <1>5, <1>6 DEF IInv

\* umount() and write() leave the pointers alone.
LEMMA UmountStep ==
  ASSUME IInv, NEW fs \in FileSystems, Umount(fs)
  PROVE  IInv'
<1>1. Advance /\ UNCHANGED <<modules, pointers, mapped, mounter, writing, oops>>
  BY DEF Umount
<1>2. mounted' \in [Devices -> FileSystems \cup {"none"}]
  BY DEF Umount, MountedAs, IInv, TypeOK
<1>3. TypeOK'
  BY <1>1, <1>2, AdvanceType DEF IInv, TypeOK, modules, pointers, writing
<1>4. ModulesHeld' /\ MountKnows' /\ ReportPointerValid' /\ LatencyWhole'
  BY <1>1 DEF IInv, ModulesHeld, MountKnows, Private, Loaded, ReportPointerValid, LatencyWhole,
              modules, pointers, writing
<1>. QED
  BY <1>3, <1>4 DEF IInv

\* A write holds the module until it ends.
LEMMA WriteStep ==
  ASSUME IInv, Write \/ WriteRuns \/ WriteEnds
  PROVE  IInv'
<1>1. /\ UNCHANGED <<modules, pointers, mapped, mounted, mounter, leaked, oops>>
      /\ step' \in 1 .. 9
  BY AdvanceType DEF IInv, TypeOK, Write, WriteRuns, WriteEnds, writing, modules, pointers
<1>2. /\ writer' \in {"idle", "check", "running"}
      /\ writes' \in 0 .. MaxWrites /\ workers' \in 0 .. MaxWorkers
  BY ConstantsAssumption DEF IInv, TypeOK, Write, WriteRuns, WriteEnds
<1>3. /\ writer' # "idle" => latfs
      /\ leaked + (IF writer' = "idle" THEN 0 ELSE 1) <= writes'
  <2>1. leaked \in Nat /\ writes \in Nat
    BY ConstantsAssumption DEF IInv, TypeOK
  <2>2. CASE Write
    BY <2>1, <2>2 DEF IInv, ModulesHeld, Write
  <2>3. CASE WriteRuns
    BY <2>1, <2>3 DEF IInv, ModulesHeld, WriteRuns
  <2>4. CASE WriteEnds
    BY <2>1, <2>4 DEF IInv, ModulesHeld, WriteEnds
  <2>. QED
    BY <2>2, <2>3, <2>4
<1>4. TypeOK'
  BY <1>1, <1>2 DEF IInv, TypeOK, modules, pointers
<1>5. ModulesHeld' /\ MountKnows' /\ ReportPointerValid' /\ LatencyWhole'
  BY <1>1, <1>3 DEF IInv, ModulesHeld, MountKnows, Private, Loaded, ReportPointerValid, LatencyWhole,
              modules, pointers
<1>. QED
  BY <1>4, <1>5 DEF IInv

\* Every refused write leaks one reference: never more than writes.
LEMMA WriteRefusedStep ==
  ASSUME IInv, WriteRefused
  PROVE  IInv'
<1>1. /\ writer = "check" /\ writer' = "idle" /\ leaked' = leaked + 1
      /\ UNCHANGED <<modules, pointers, mapped, mounted, mounter, writes, workers, oops>>
      /\ step' \in 1 .. 9
  BY AdvanceType DEF IInv, TypeOK, WriteRefused, modules, pointers
<1>2. leaked \in Nat /\ writes \in 0 .. MaxWrites /\ MaxWrites \in Nat
  BY ConstantsAssumption DEF IInv, TypeOK
<1>3. leaked + 1 <= writes
  BY <1>1 DEF IInv, ModulesHeld
<1>4. leaked' \in 0 .. MaxWrites /\ leaked' + 0 <= writes
  BY <1>1, <1>2, <1>3
<1>5. TypeOK'
  BY <1>1, <1>4 DEF IInv, TypeOK, modules, pointers
<1>6. ModulesHeld'
  BY <1>1, <1>4 DEF IInv, ModulesHeld, Loaded, modules, pointers
<1>7. MountKnows' /\ ReportPointerValid' /\ LatencyWhole'
  BY <1>1 DEF IInv, MountKnows, Private, ReportPointerValid, LatencyWhole, modules, pointers
<1>. QED
  BY <1>5, <1>6, <1>7 DEF IInv

\* A crash and a step of nobody leave everything else alone.
LEMMA QuietStep ==
  ASSUME IInv, UNCHANGED vars \/ \E m \in Mounters : NoDax(m)
  PROVE  IInv'
<1>1. /\ UNCHANGED <<modules, pointers, mapped, mounted, mounter, writing, step>>
      /\ oops' \in BOOLEAN
  BY DEF IInv, TypeOK, NoDax, vars, modules, pointers, writing
<1>2. TypeOK'
  BY <1>1 DEF IInv, TypeOK, modules, pointers, writing
<1>3. ModulesHeld' /\ MountKnows' /\ ReportPointerValid' /\ LatencyWhole'
  BY <1>1 DEF IInv, ModulesHeld, MountKnows, Private, Loaded, ReportPointerValid, LatencyWhole,
              modules, pointers, writing
<1>. QED
  BY <1>2, <1>3 DEF IInv

\* Every step keeps the invariant.
LEMMA NextInvariant == OneMounter /\ IInv /\ [Next]_vars => IInv'
<1>. SUFFICES ASSUME OneMounter, IInv, [Next]_vars PROVE IInv'
  OBVIOUS
<1>1. CASE UNCHANGED vars
  BY <1>1, QuietStep
<1>2. CASE InsmodRep \/ InsmodLat \/ RmmodLat \/ RmmodRep
  BY <1>2, InsmodStep, RmmodLatStep, RmmodRepStep
<1>3. ASSUME NEW m \in Mounters, MountStep(m)
      PROVE  IInv'
  BY <1>3, CheckStep, ClaimReportStep, ClaimLatencyStep, ProbeStep, ReportMountedStep,
     LatencyMountedStep, QuietStep DEF MountStep
<1>4. ASSUME NEW m \in Mounters, NEW fs \in FileSystems, NEW d \in Devices, Mount(m, fs, d)
      PROVE  IInv'
  BY <1>4, MountCallStep
<1>5. ASSUME NEW fs \in FileSystems, Umount(fs)
      PROVE  IInv'
  BY <1>5, UmountStep
<1>6. CASE Write \/ WriteRefused \/ WriteRuns \/ WriteEnds
  BY <1>6, WriteStep, WriteRefusedStep
<1>. QED
  BY <1>1, <1>2, <1>3, <1>4, <1>5, <1>6 DEF Next

\* IInv is an invariant when one process at a time mounts.
THEOREM Invariant == OneMounter => (Spec => []IInv)
<1>1. OneMounter => (IInv /\ [Next]_vars => IInv')
  BY NextInvariant
<1>2. CASE OneMounter
  <2>1. IInv /\ [Next]_vars => IInv'
    BY <1>1, <1>2
  <2>. QED
    BY <2>1, InitInvariant, PTL DEF Spec
<1>. QED
  BY <1>2

\* Every variable keeps its type; a command leaks one reference at most.
THEOREM TypeCorrect == OneMounter => (Spec => []TypeOK)
<1>1. IInv => TypeOK
  BY DEF IInv
<1>. QED
  BY Invariant, <1>1, PTL

\* What rep_sbi points to is loaded and is what repfs has published.
THEOREM ReportKept == OneMounter => (Spec => []ReportPointerValid)
<1>1. IInv => ReportPointerValid
  BY DEF IInv
<1>. QED
  BY Invariant, <1>1, PTL

\* The pointer of repfs leads to a mapped area while a ReportFS is mounted:
\* a mount that fails leaves it set, and none is mounted after that one until
\* repfs has been unloaded.
AreaMapped ==
  MountedAs("ReportFS") # {} => <<"ReportFS", g_report_sbi>> \in mapped

\* The steps of mount() keep it: the pointer is null before a ReportFS is
\* mounted, and what it points to then is what has been probed.
LEMMA AreaMount ==
  ASSUME IInv, AreaMapped, NEW m \in Mounters, MountStep(m)
  PROVE  AreaMapped'
<1>1. mapped \subseteq FileSystems \X Devices /\ NoSb \notin Devices
      /\ mounted \in [Devices -> FileSystems \cup {"none"}]
  BY ConstantsAssumption DEF IInv, TypeOK
<1>2. CASE ClaimReport(m)
  <2>1. MountedAs("ReportFS") = {}
    BY <1>1, <1>2 DEF AreaMapped, IInv, MountKnows, Private, ClaimReport, In
  <2> QED BY <1>2, <2>1 DEF AreaMapped, MountedAs, ClaimReport
<1>3. CASE ClaimLatency(m)
  <2>1. mapped' = mapped \/ mapped' = mapped \ {<<"LatencyFS", mounter[m].dev>>}
    BY <1>3 DEF ClaimLatency, In, Private
  <2> QED BY <1>3, <2>1 DEF AreaMapped, MountedAs, ClaimLatency
<1>4. CASE ReportMounted(m)
  <2>1. <<"ReportFS", g_report_sbi>> \in mapped
    BY <1>4 DEF IInv, MountKnows, ReportMounted, In, Private
  <2> QED BY <1>4, <2>1 DEF AreaMapped, ReportMounted, pointers
<1>5. CASE LatencyMounted(m)
  <2>1. MountedAs("ReportFS")' \subseteq MountedAs("ReportFS")
    BY <1>1, <1>5 DEF LatencyMounted, MountedAs
  <2> QED BY <1>5, <2>1 DEF AreaMapped, LatencyMounted
<1>6. CASE \/ CheckReport(m) \/ CheckLatency(m) \/ Probe(m) \/ ProbeFails(m)
           \/ NoDax(m) \/ RootFails(m)
  BY <1>6 DEF AreaMapped, MountedAs, CheckReport, CheckLatency, Probe, ProbeFails, NoDax,
              RootFails, pointers
<1> QED BY <1>2, <1>3, <1>4, <1>5, <1>6 DEF MountStep

\* So do all the others: repfs is unloaded when no ReportFS is mounted.
LEMMA AreaStep ==
  ASSUME IInv, AreaMapped, [Next]_vars
  PROVE  AreaMapped'
<1>1. CASE UNCHANGED vars
  BY <1>1 DEF AreaMapped, MountedAs, vars
<1>2. CASE InsmodRep \/ InsmodLat \/ RmmodLat
  <2>1. UNCHANGED <<g_report_sbi, mapped, mounted>>
    BY <1>2 DEF InsmodRep, InsmodLat, RmmodLat, pointers
  <2> QED BY <2>1 DEF AreaMapped, MountedAs
<1>3. CASE RmmodRep
  <2>1. repfs /\ RepRefs = 0 => MountedAs("ReportFS") = {}
    BY NoRefs DEF IInv
  <2> QED BY <1>3, <2>1 DEF AreaMapped, MountedAs, RmmodRep
<1>4. ASSUME NEW m \in Mounters, NEW fs \in FileSystems, NEW d \in Devices, Mount(m, fs, d)
      PROVE  AreaMapped'
  BY <1>4 DEF AreaMapped, MountedAs, Mount, pointers
<1>5. ASSUME NEW fs \in FileSystems, Umount(fs)
      PROVE  AreaMapped'
  <2>1. MountedAs("ReportFS")' \subseteq MountedAs("ReportFS")
    BY <1>5 DEF Umount, MountedAs, IInv, TypeOK
  <2> QED BY <1>5, <2>1 DEF AreaMapped, Umount, pointers
<1>6. CASE Write \/ WriteRefused \/ WriteRuns \/ WriteEnds
  BY <1>6 DEF AreaMapped, MountedAs, Write, WriteRefused, WriteRuns, WriteEnds, pointers
<1> QED BY <1>1, <1>2, <1>3, <1>4, <1>5, <1>6, AreaMount DEF Next

\* A command finds a mapped LatencyFS whatever has failed before, and a
\* mapped report area if a ReportFS is mounted.
THEOREM PublishedLast == OneMounter => (Spec => []PublishedWhole)
<1>1. IInv /\ AreaMapped => PublishedWhole
  BY DEF IInv, ReportPointerValid, LatencyWhole, AreaMapped, PublishedWhole
<1>2. Init => AreaMapped
  BY DEF Init, AreaMapped, MountedAs
<1>3. IInv /\ AreaMapped /\ [Next]_vars => AreaMapped'
  BY AreaStep
<1>. QED
  BY Invariant, <1>1, <1>2, <1>3, PTL DEF Spec

\* latfs is not unloaded under a writer.
THEOREM WriterHolds == OneMounter => (Spec => []WritesInLoadedModule)
<1>1. IInv => WritesInLoadedModule
  BY DEF IInv, ModulesHeld, WritesInLoadedModule
<1>. QED
  BY Invariant, <1>1, PTL
-----------------------------------------------------------------------------
(***************************************************************************)
(* The script.  If no mount and no kmalloc fails, the next command of the  *)
(* script says which modules are loaded, what is mounted, which of the     *)
(* three pointers are set and who may be at work, through every unloading  *)
(* and reloading.                                                          *)
(***************************************************************************)

\* mount.sh, a subtest and umount.sh run alone and nothing fails.
ScriptRuns == Client = "script" /\ MayFail = FALSE

\* Which modules are loaded; a write is the fifth command, and is not refused.
LoadedByStep ==
  /\ repfs <=> step \in 2 .. 9
  /\ latfs <=> step \in 3 .. 8
  /\ writer # "idle" => step = 5
  /\ leaked = 0

\* A process inside mount() is the third command or the fourth, and has a
\* device from which nothing is mounted.
MountsByStep ==
  \A m \in Mounters :
    /\ mounter[m].pc # "idle" =>
         /\ step = IF mounter[m].fs = "ReportFS" THEN 3 ELSE 4
         /\ mounted[mounter[m].dev] = "none"
    /\ mounter[m].pc \in {"probe", "root"} /\ mounter[m].fs = "ReportFS" =>
         g_report_sbi = mounter[m].dev

\* A mount has gone past the test of its pointer.
Claimed == \E m \in Mounters : mounter[m].pc \in {"probe", "root"}

\* Which pointers are set.
PointersByStep ==
  /\ g_report_sbi # NoSb <=> step \in 4 .. 9 \/ (step = 3 /\ Claimed)
  /\ rep_sbi # NoSb <=> step \in 5 .. 8 \/ (step = 4 /\ Claimed)
  /\ global_sbi # NoSb <=> step \in 5 .. 8
  /\ step \in 4 .. 7 => <<"ReportFS", g_report_sbi>> \in mapped

\* What is mounted.
MountedByStep ==
  /\ MountedAs("ReportFS") = IF step \in 4 .. 7 THEN {g_report_sbi} ELSE {}
  /\ MountedAs("LatencyFS") = IF step \in 5 .. 6 THEN {global_sbi} ELSE {}

ScriptInv == LoadedByStep /\ MountsByStep /\ PointersByStep /\ MountedByStep

\* Each command of the script has its turn at one step.
LEMMA TurnIsStep ==
  ASSUME Client = "script", step \in 1 .. 9
  PROVE  /\ Turn("insmod repfs") => step = 1
         /\ Turn("insmod latfs") => step = 2
         /\ Turn("mount ReportFS") => step = 3
         /\ Turn("mount LatencyFS") => step = 4
         /\ Turn("write") => step = 5
         /\ Turn("umount LatencyFS") => step = 6
         /\ Turn("umount ReportFS") => step = 7
         /\ Turn("rmmod latfs") => step = 8
         /\ Turn("rmmod repfs") => step = 9
<1>1. /\ Script[1] = "insmod repfs" /\ Script[2] = "insmod latfs"
      /\ Script[3] = "mount ReportFS" /\ Script[4] = "mount LatencyFS"
      /\ Script[5] = "write"
      /\ Script[6] = "umount LatencyFS" /\ Script[7] = "umount ReportFS"
      /\ Script[8] = "rmmod latfs" /\ Script[9] = "rmmod repfs"
  BY DEF Script
<1>2. step \in {1, 2, 3, 4, 5, 6, 7, 8, 9}
  BY SMT
<1>3. \A op : Turn(op) => Script[step] = op
  BY DEF Turn
<1> QED BY <1>1, <1>2, <1>3, Zenon

\* The command after the last is the first again.
LEMMA AdvanceScript ==
  ASSUME Client = "script", step \in 1 .. 9, Advance
  PROVE  /\ step = 9 => step' = 1
         /\ step \in 1 .. 8 => step' = step + 1
         /\ step = 1 => step' = 2
         /\ step = 2 => step' = 3
         /\ step = 8 => step' = 9
<1>1. Len(Script) = 9
  BY DEF Script
<1>2. step' = (step % 9) + 1
  BY <1>1 DEF Advance
<1> QED BY <1>2

\* Loading a module, and its end, change what the step says.
LEMMA ScriptModules ==
  ASSUME ScriptRuns, IInv, ScriptInv, InsmodRep \/ InsmodLat \/ RmmodLat \/ RmmodRep
  PROVE  ScriptInv'
<1>1. Client = "script" /\ step \in 1 .. 9
  BY DEF ScriptRuns, IInv, TypeOK
<1>2. CASE InsmodRep
  <2>a. Turn("insmod repfs") /\ Advance
    BY <1>2 DEF InsmodRep
  <2>b. step = 1
    BY <1>1, <2>a, TurnIsStep
  <2>0. step = 1 /\ step' = 2
    BY <1>1, <2>a, <2>b, AdvanceScript
  <2>1. step = 1 /\ step' = 2 /\ repfs' = TRUE
        /\ UNCHANGED <<latfs, pointers, mapped, mounted, mounter, writing>>
    BY <1>2, <2>0 DEF InsmodRep
  <2> QED BY <2>1 DEF ScriptInv, LoadedByStep, MountsByStep, PointersByStep, MountedByStep,
            MountedAs, Claimed, pointers, writing
<1>3. CASE InsmodLat
  <2>a. Turn("insmod latfs") /\ Advance
    BY <1>3 DEF InsmodLat
  <2>b. step = 2
    BY <1>1, <2>a, TurnIsStep
  <2>0. step = 2 /\ step' = 3
    BY <1>1, <2>a, <2>b, AdvanceScript
  <2>1. step = 2 /\ step' = 3 /\ latfs' = (latfs \/ repfs)
        /\ UNCHANGED <<repfs, pointers, mapped, mounted, mounter, writing>>
    BY <1>3, <2>0 DEF InsmodLat
  <2>2. ~Claimed /\ ~Claimed'
    BY <2>1 DEF ScriptInv, MountsByStep, Claimed
  <2>3. MountsByStep'
    BY <2>1 DEF ScriptInv, MountsByStep, pointers
  <2>c. repfs
    BY <2>1 DEF ScriptInv, LoadedByStep
  <2>d. latfs' = TRUE
    BY <2>1, <2>c
  <2>4. LoadedByStep' /\ MountedByStep'
    <3>1. LoadedByStep'
      BY <2>1, <2>c, <2>d DEF ScriptInv, LoadedByStep, writing
    <3>2. MountedByStep'
      BY <2>1 DEF ScriptInv, MountedByStep, MountedAs
    <3> QED BY <3>1, <3>2
  <2>5. PointersByStep'
    BY <2>1, <2>2 DEF ScriptInv, PointersByStep, pointers
  <2> QED BY <2>3, <2>4, <2>5 DEF ScriptInv
<1>4. CASE RmmodLat
  <2>a. Turn("rmmod latfs") /\ Advance
    BY <1>4 DEF RmmodLat
  <2>b. step = 8
    BY <1>1, <2>a, TurnIsStep
  <2>0. step = 8 /\ step' = 9
    BY <1>1, <2>a, <2>b, AdvanceScript
  <2>1. step = 8 /\ step' = 9
        /\ UNCHANGED <<repfs, g_report_sbi, mapped, mounted, mounter, writer, leaked, workers>>
    BY <1>4, <2>0 DEF RmmodLat
  <2>2. latfs /\ leaked = 0 /\ writer = "idle" /\ MountedAs("LatencyFS") = {}
    BY <2>1 DEF ScriptInv, LoadedByStep, MountedByStep
  <2>3. Mounting("LatencyFS") = {} /\ ~Claimed
    BY <2>1 DEF ScriptInv, MountsByStep, Mounting, Claimed
  <2>4. Cardinality({}) = 0
    BY FS_EmptySet
  <2>5. LatRefs = 0
    BY <2>2, <2>3, <2>4 DEF LatRefs
  <2>6. latfs' = FALSE /\ rep_sbi' = NoSb /\ global_sbi' = NoSb
    BY <1>4, <2>2, <2>5 DEF RmmodLat
  <2> QED BY <2>1, <2>2, <2>3, <2>6 DEF ScriptInv, LoadedByStep, MountsByStep, PointersByStep,
            MountedByStep, MountedAs, Claimed
<1>5. CASE RmmodRep
  <2>a. Turn("rmmod repfs") /\ Advance
    BY <1>5 DEF RmmodRep
  <2>b. step = 9
    BY <1>1, <2>a, TurnIsStep
  <2>0. step = 9 /\ step' = 1
    BY <1>1, <2>a, <2>b, AdvanceScript
  <2>1. step = 9 /\ step' = 1
        /\ UNCHANGED <<latfs, rep_sbi, global_sbi, mapped, mounted, mounter, writing>>
    BY <1>5, <2>0 DEF RmmodRep
  <2>2. repfs /\ ~latfs /\ MountedAs("ReportFS") = {}
    BY <2>1 DEF ScriptInv, LoadedByStep, MountedByStep
  <2>3. Mounting("ReportFS") = {} /\ ~Claimed
    BY <2>1 DEF ScriptInv, MountsByStep, Mounting, Claimed
  <2>4. Cardinality({}) = 0
    BY FS_EmptySet
  <2>5. RepRefs = 0
    BY <2>2, <2>3, <2>4 DEF RepRefs
  <2>6. repfs' = FALSE /\ g_report_sbi' = NoSb
    BY <1>5, <2>2, <2>5 DEF RmmodRep
  <2> QED BY <2>1, <2>2, <2>3, <2>6 DEF ScriptInv, LoadedByStep, MountsByStep, PointersByStep,
            MountedByStep, MountedAs, Claimed, writing
<1> QED BY <1>2, <1>3, <1>4, <1>5

\* mount() begins, at its step, on a device of its own.
LEMMA ScriptMount ==
  ASSUME ScriptRuns, OneMounter, IInv, ScriptInv,
         NEW m \in Mounters, NEW fs \in FileSystems, NEW d \in Devices, Mount(m, fs, d)
  PROVE  ScriptInv'
<1>1. Client = "script" /\ step \in 1 .. 9
  BY DEF ScriptRuns, IInv, TypeOK
<1>2. step = IF fs = "ReportFS" THEN 3 ELSE 4
  BY <1>1, TurnIsStep DEF Mount, MountOf
<1>3. Loaded(fs)
  BY <1>2 DEF ScriptInv, LoadedByStep, Loaded
<1>4. /\ step' = step /\ mounted[d] = "none" /\ mounter[m].pc = "idle"
      /\ mounter' = [mounter EXCEPT ![m] = [pc |-> "check", fs |-> fs, dev |-> d]]
      /\ UNCHANGED <<modules, pointers, mapped, mounted, writing>>
  BY <1>3 DEF Mount
<1>5. mounter'[m] = [pc |-> "check", fs |-> fs, dev |-> d]
  BY <1>4 DEF IInv, TypeOK
<1>6. ~Claimed /\ ~Claimed'
  BY <1>4, <1>5 DEF OneMounter, Claimed
<1>7. MountsByStep'
  BY <1>2, <1>4, <1>5 DEF OneMounter, MountsByStep
<1> QED BY <1>4, <1>6, <1>7 DEF ScriptInv, LoadedByStep, PointersByStep, MountedByStep,
          MountedAs, modules, pointers, writing

\* The steps of mount() that do not end it.
LEMMA ScriptMounting ==
  ASSUME ScriptRuns, OneMounter, IInv, ScriptInv, NEW m \in Mounters,
         CheckReport(m) \/ ClaimReport(m) \/ CheckLatency(m) \/ ClaimLatency(m) \/ Probe(m)
  PROVE  ScriptInv'
<1>1. step \in 1 .. 9 /\ MayFail = FALSE /\ NoSb \notin Devices
      /\ mounted \in [Devices -> FileSystems \cup {"none"}]
  BY ConstantsAssumption DEF ScriptRuns, IInv, TypeOK
<1>2. mounter[m].pc # "idle" /\ mounter[m].dev \in Devices
      /\ step = (IF mounter[m].fs = "ReportFS" THEN 3 ELSE 4)
      /\ mounted[mounter[m].dev] = "none"
  BY DEF ScriptInv, MountsByStep, IInv, ModulesHeld, CheckReport, ClaimReport, CheckLatency,
         ClaimLatency, Probe, In
<1>3. Claimed <=> mounter[m].pc \in {"probe", "root"}
  BY DEF OneMounter, Claimed
<1>4. \A p \in MountPc : Goes(m, p) =>
        /\ mounter'[m].pc = p /\ mounter'[m].fs = mounter[m].fs
        /\ mounter'[m].dev = mounter[m].dev
        /\ Claimed' <=> p \in {"probe", "root"}
  BY Moved DEF IInv, OneMounter, Claimed
<1>5. CASE CheckReport(m) \/ CheckLatency(m)
  <2>1. /\ mounter[m].pc = "check"
        /\ UNCHANGED <<modules, pointers, mapped, mounted, writing>>
        /\ ~Claimed
    BY <1>3, <1>5 DEF CheckReport, CheckLatency, In
  <2>2. (mounter[m].fs = "ReportFS" => g_report_sbi = NoSb)
        /\ (mounter[m].fs # "ReportFS" => rep_sbi = NoSb)
    BY <1>2, <2>1 DEF ScriptInv, PointersByStep
  <2>3. Goes(m, "claim") /\ step' = step
    BY <1>1, <1>5, <2>2 DEF CheckReport, CheckLatency, In
  <2>4. /\ mounter'[m].pc = "claim" /\ mounter'[m].fs = mounter[m].fs
        /\ mounter'[m].dev = mounter[m].dev /\ ~Claimed'
    BY <1>4, <2>3 DEF MountPc
  <2>5. MountsByStep'
    BY <1>2, <2>1, <2>3, <2>4 DEF OneMounter, MountsByStep
  <2> QED BY <2>1, <2>3, <2>4, <2>5 DEF ScriptInv, LoadedByStep, PointersByStep,
            MountedByStep, MountedAs, modules, pointers, writing
<1>6. CASE ClaimReport(m)
  <2>1. /\ mounter[m].fs = "ReportFS" /\ step = 3 /\ step' = step
        /\ g_report_sbi' = mounter[m].dev /\ Goes(m, "probe")
        /\ UNCHANGED <<modules, rep_sbi, global_sbi, mounted, writing>>
        /\ ~Claimed
    BY <1>2, <1>3, <1>6 DEF ClaimReport, In
  <2>2. /\ mounter'[m].pc = "probe" /\ mounter'[m].fs = mounter[m].fs
        /\ mounter'[m].dev = mounter[m].dev /\ Claimed'
    BY <1>4, <2>1 DEF MountPc
  <2>3. MountsByStep'
    BY <1>2, <2>1, <2>2 DEF OneMounter, MountsByStep
  <2> QED BY <1>1, <1>2, <2>1, <2>2, <2>3 DEF ScriptInv, LoadedByStep, PointersByStep,
            MountedByStep, MountedAs, modules, writing
<1>7. CASE ClaimLatency(m)
  <2>1. mounter[m].pc = "claim" /\ mounter[m].fs = "LatencyFS" /\ step = 4 /\ ~Claimed
    BY <1>2, <1>3, <1>7 DEF ClaimLatency, In
  <2>2. g_report_sbi # NoSb /\ <<"ReportFS", g_report_sbi>> \in mapped /\ g_report_sbi \in MountedAs("ReportFS")
    BY <2>1 DEF ScriptInv, PointersByStep, MountedByStep
  <2>3. /\ step' = step /\ rep_sbi' = g_report_sbi /\ Goes(m, "probe")
        /\ mapped' = mapped \ {Private(m)}
        /\ UNCHANGED <<modules, g_report_sbi, global_sbi, mounted, writing>>
    BY <1>7, <2>2 DEF ClaimLatency
  <2>4. /\ mounter'[m].pc = "probe" /\ mounter'[m].fs = mounter[m].fs
        /\ mounter'[m].dev = mounter[m].dev /\ Claimed'
    BY <1>4, <2>3 DEF MountPc
  <2>5. MountsByStep'
    BY <1>2, <2>1, <2>3, <2>4 DEF OneMounter, MountsByStep
  <2>6. <<"ReportFS", g_report_sbi>> \in mapped'
    BY <2>1, <2>2, <2>3 DEF Private
  <2> QED BY <2>1, <2>2, <2>3, <2>4, <2>5, <2>6 DEF ScriptInv, LoadedByStep, PointersByStep,
            MountedByStep, MountedAs, modules, writing
<1>8. CASE Probe(m)
  <2>1. /\ mounter[m].pc = "probe" /\ step' = step /\ Goes(m, "root")
        /\ mapped' = mapped \cup {Private(m)} /\ Claimed
        /\ UNCHANGED <<modules, pointers, mounted, writing>>
    BY <1>3, <1>8 DEF Probe
  <2>2. /\ mounter'[m].pc = "root" /\ mounter'[m].fs = mounter[m].fs
        /\ mounter'[m].dev = mounter[m].dev /\ Claimed'
    BY <1>4, <2>1 DEF MountPc
  <2>3. MountsByStep'
    BY <1>2, <2>1, <2>2 DEF OneMounter, MountsByStep, ScriptInv, pointers
  <2> QED BY <2>1, <2>2, <2>3 DEF ScriptInv, LoadedByStep, PointersByStep,
            MountedByStep, MountedAs, modules, pointers, writing
<1> QED BY <1>5, <1>6, <1>7, <1>8

\* The end of mount(): what was claimed is mounted.
LEMMA ScriptMounted ==
  ASSUME ScriptRuns, OneMounter, IInv, ScriptInv, NEW m \in Mounters,
         ReportMounted(m) \/ LatencyMounted(m)
  PROVE  ScriptInv'
<1>a. mounter[m].fs \in FileSystems
  BY DEF IInv, TypeOK
<1>b. PICK fs \in FileSystems : fs = mounter[m].fs
  BY <1>a
<1>c. PICK dev : dev = mounter[m].dev
  OBVIOUS
<1>1. /\ Client = "script" /\ step \in 1 .. 9 /\ NoSb \notin Devices
      /\ mounted \in [Devices -> FileSystems \cup {"none"}]
  BY ConstantsAssumption DEF ScriptRuns, IInv, TypeOK
<1>2. /\ mounter[m].pc = "root" /\ fs \in FileSystems
      /\ dev \in Devices /\ <<fs, dev>> \in mapped
      /\ step = (IF fs = "ReportFS" THEN 3 ELSE 4)
      /\ mounted[dev] = "none" /\ Claimed
  BY <1>b, <1>c DEF ScriptInv, MountsByStep, IInv, ModulesHeld, MountKnows, Private, ReportMounted,
         LatencyMounted, In, Claimed, FileSystems
<1>3. /\ Goes(m, "idle") /\ step' = step + 1
      /\ mounted' = [mounted EXCEPT ![dev] = fs]
      /\ UNCHANGED <<modules, g_report_sbi, rep_sbi, mapped, writing>>
      /\ global_sbi' = IF fs = "ReportFS" THEN global_sbi ELSE dev
  BY <1>1, <1>2, <1>b, <1>c, AdvanceScript DEF ReportMounted, LatencyMounted, In, Ends, pointers
<1>4. \A n \in Mounters : mounter'[n].pc = "idle"
  BY <1>3, Moved DEF IInv, OneMounter, MountPc
<1>5. MountsByStep' /\ ~Claimed'
  BY <1>4 DEF MountsByStep, Claimed
<1>6. MountedAs(fs)' = MountedAs(fs) \cup {dev}
      /\ \A g \in FileSystems : g # fs => MountedAs(g)' = MountedAs(g)
  <2>1. /\ mounted'[dev] = fs
        /\ \A d \in Devices : d # dev => mounted'[d] = mounted[d]
    BY <1>1, <1>2, <1>3
  <2>2. \A g \in FileSystems : g # "none"
    BY DEF FileSystems
  <2> QED BY <1>2, <2>1, <2>2 DEF MountedAs
<1>7. CASE fs = "ReportFS"
  <2>1. g_report_sbi = dev /\ step = 3 /\ step' = 4
    BY <1>2, <1>3, <1>7, <1>b, <1>c DEF ScriptInv, MountsByStep
  <2>2. MountedByStep'
    BY <1>3, <1>6, <1>7, <2>1 DEF ScriptInv, MountedByStep, FileSystems
  <2>3. PointersByStep'
    BY <1>2, <1>3, <1>5, <1>7, <2>1 DEF ScriptInv, PointersByStep
  <2>4. LoadedByStep'
    BY <1>3, <2>1 DEF ScriptInv, LoadedByStep, modules, writing
  <2> QED BY <1>5, <2>2, <2>3, <2>4 DEF ScriptInv
<1>8. CASE fs = "LatencyFS"
  <2>1. step = 4 /\ step' = 5 /\ global_sbi' = dev
    BY <1>2, <1>3, <1>8
  <2>2. MountedByStep'
    BY <1>3, <1>6, <1>8, <2>1 DEF ScriptInv, MountedByStep, FileSystems
  <2>3. PointersByStep'
    BY <1>1, <1>2, <1>3, <1>5, <2>1 DEF ScriptInv, PointersByStep
  <2>4. LoadedByStep'
    BY <1>3, <2>1 DEF ScriptInv, LoadedByStep, modules, writing
  <2> QED BY <1>5, <2>2, <2>3, <2>4 DEF ScriptInv
<1> QED BY <1>2, <1>7, <1>8 DEF FileSystems

\* umount() leaves nothing mounted of its file system: there was one.
LEMMA ScriptUmount ==
  ASSUME ScriptRuns, IInv, ScriptInv, NEW fs \in FileSystems, Umount(fs)
  PROVE  ScriptInv'
<1>1. /\ Client = "script" /\ step \in 1 .. 9
      /\ mounted \in [Devices -> FileSystems \cup {"none"}]
  BY DEF ScriptRuns, IInv, TypeOK
<1>a. fs = "ReportFS" \/ fs = "LatencyFS"
  BY DEF FileSystems
<1>b. step = (IF fs = "ReportFS" THEN 7 ELSE 6)
  <2>1. IF fs = "ReportFS" THEN Turn("umount ReportFS") ELSE Turn("umount LatencyFS")
    BY DEF Umount, UmountOf
  <2> QED BY <1>1, <2>1, TurnIsStep
<1>2. /\ step = (IF fs = "ReportFS" THEN 7 ELSE 6) /\ step' = step + 1
      /\ UNCHANGED <<modules, pointers, mapped, mounter, writing>>
  BY <1>1, <1>b, AdvanceScript DEF Umount
<1>3. \A m \in Mounters : mounter[m].pc = "idle"
  BY <1>2 DEF ScriptInv, MountsByStep
<1>4. PICK d : MountedAs(fs) = {d}
  <2>1. CASE fs = "ReportFS"
    BY <1>2, <2>1 DEF ScriptInv, MountedByStep
  <2>2. CASE fs = "LatencyFS"
    BY <1>2, <2>2 DEF ScriptInv, MountedByStep
  <2> QED BY <1>a, <2>1, <2>2
<1>5. mounted' = [mounted EXCEPT ![d] = "none"] /\ d \in Devices
  BY <1>4 DEF Umount, MountedAs
<1>6. MountedAs(fs)' = {} /\ \A g \in FileSystems : g # fs => MountedAs(g)' = MountedAs(g)
  <2>1. /\ mounted'[d] = "none" /\ mounted[d] = fs
        /\ \A e \in Devices : e # d => mounted'[e] = mounted[e] /\ mounted[e] # fs
    BY <1>1, <1>4, <1>5 DEF MountedAs
  <2>2. \A g \in FileSystems : g # "none"
    BY DEF FileSystems
  <2> QED BY <2>1, <2>2 DEF MountedAs
<1>7. MountsByStep' /\ (Claimed' <=> Claimed)
  BY <1>2, <1>3 DEF MountsByStep, Claimed
<1>8. MountedByStep'
  BY <1>2, <1>6 DEF ScriptInv, MountedByStep, FileSystems, pointers
<1>9. LoadedByStep' /\ PointersByStep'
  BY <1>2, <1>7 DEF ScriptInv, LoadedByStep, PointersByStep, modules, pointers, writing
<1> QED BY <1>7, <1>8, <1>9 DEF ScriptInv

\* A command of the script is never refused.
LEMMA ScriptWrite ==
  ASSUME ScriptRuns, IInv, ScriptInv, Write \/ WriteRefused \/ WriteRuns \/ WriteEnds
  PROVE  ScriptInv'
<1>1. Client = "script" /\ step \in 1 .. 9 /\ MayFail = FALSE
  BY DEF ScriptRuns, IInv, TypeOK
<1>2. step = 5
  BY <1>1, TurnIsStep
     DEF ScriptInv, LoadedByStep, Write, WriteRefused, WriteRuns, WriteEnds
<1>3. latfs /\ global_sbi # NoSb /\ ~Claimed
  BY <1>2 DEF ScriptInv, LoadedByStep, PointersByStep, MountsByStep, Claimed
<1>4. ~WriteRefused
  BY <1>1, <1>3 DEF WriteRefused
<1>5. /\ UNCHANGED <<modules, pointers, mapped, mounted, mounter, leaked>>
      /\ \/ step' = 5
         \/ step' = 6 /\ writer' = "idle"
  BY <1>1, <1>2, <1>3, <1>4, AdvanceScript DEF Write, WriteRuns, WriteEnds
<1>6. \A m \in Mounters : mounter[m].pc = "idle"
  BY <1>2 DEF ScriptInv, MountsByStep
<1>7. MountsByStep' /\ ~Claimed'
  BY <1>5, <1>6 DEF MountsByStep, Claimed
<1> QED BY <1>2, <1>3, <1>5, <1>7 DEF ScriptInv, LoadedByStep, PointersByStep, MountedByStep,
          MountedAs, modules, pointers

\* The step of the script tells the state of both modules, in every state.
LEMMA ScriptInvariant ==
  ASSUME OneMounter, ScriptRuns
  PROVE  Spec => []ScriptInv
<1>1. Init => ScriptInv
  BY DEF Init, ScriptInv, LoadedByStep, MountsByStep, PointersByStep, MountedByStep,
         MountedAs, Claimed, FileSystems
<1>2. IInv /\ ScriptInv /\ [Next]_vars => ScriptInv'
  <2> SUFFICES ASSUME IInv, ScriptInv, [Next]_vars PROVE ScriptInv'
    OBVIOUS
  <2>1. CASE UNCHANGED vars
    BY <2>1 DEF vars, ScriptInv, LoadedByStep, MountsByStep, PointersByStep, MountedByStep,
         MountedAs, Claimed
  <2>2. ASSUME NEW m \in Mounters, MountStep(m) PROVE ScriptInv'
    <3>1. ~ProbeFails(m) /\ ~NoDax(m) /\ ~RootFails(m)
      BY DEF ScriptRuns, ProbeFails, NoDax, RootFails
    <3> QED BY <2>2, <3>1, ScriptMounting, ScriptMounted DEF MountStep
  <2> QED BY <2>1, <2>2, ScriptModules, ScriptMount, ScriptUmount, ScriptWrite DEF Next
<1>3. Spec => []IInv
  BY Invariant
<1> QED BY <1>1, <1>2, <1>3, PTL DEF Spec

\* When no mount fails a command of a script runs on the LatencyFS and the
\* ReportFS that are mounted, both of them mapped, however often the script
\* has unloaded and reloaded the modules before (proc.c:239-254, mount.sh,
\* umount.sh).
THEOREM ScriptOnMounted ==
  ASSUME OneMounter, ScriptRuns
  PROVE  Spec => []CommandOnMounted
<1>1. IInv /\ ScriptInv => CommandOnMounted
  <2> SUFFICES ASSUME IInv, ScriptInv, writer = "running" PROVE
                      /\ global_sbi \in MountedAs("LatencyFS")
                      /\ rep_sbi \in MountedAs("ReportFS")
                      /\ {<<"LatencyFS", global_sbi>>, <<"ReportFS", rep_sbi>>} \subseteq mapped
    BY DEF CommandOnMounted
  <2>1. step = 5
    BY DEF ScriptInv, LoadedByStep
  <2>2. /\ global_sbi # NoSb /\ rep_sbi # NoSb
        /\ <<"ReportFS", g_report_sbi>> \in mapped
        /\ global_sbi \in MountedAs("LatencyFS") /\ g_report_sbi \in MountedAs("ReportFS")
    BY <2>1 DEF ScriptInv, PointersByStep, MountedByStep
  <2> QED BY <2>2 DEF IInv, ReportPointerValid, LatencyWhole
<1>2. Spec => []IInv
  BY Invariant
<1> QED BY <1>1, <1>2, ScriptInvariant, PTL
=============================================================================
