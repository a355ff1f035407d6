-------------------------- MODULE LiveAnalysisProofs -------------------------
(***************************************************************************)
(* Proofs about LiveAnalysis and the two modules it composes, for any       *)
(* setups and objects and any bounds: a run is said to be freshly solved     *)
(* only after a simulation has ended, no script runs without its backup, and *)
(* an answer that says nothing is missing misses nothing.                   *)
(***************************************************************************)
EXTENDS LiveAnalysis, FiniteSetTheorems, TLAPS

-----------------------------------------------------------------------------
(* The project's files: LiveProject *)

LEMMA InitProject == ProjectInit => ProjectInv
<1> SUFFICES ASSUME ProjectInit PROVE ProjectInv
  OBVIOUS
<1>1. 0 \in Versions /\ 0 \in Days
  BY VersionsAssumption DEF Versions, Days
<1>2. NoScript \in Calls /\ NoScript.at = "idle" /\ NoScript.met = 0
  BY <1>1 DEF NoScript, Calls, Directories
<1>3. ranScript \in [Directories -> Nat] /\ \A d \in Directories : ranScript[d] = 0
  BY DEF ProjectInit
<1>4. QED
  BY <1>1, <1>2, <1>3
     DEF ProjectInit, ProjectInv, ProjectTypeOK, CallKeepsUp, ScriptBackedUp, Versions

LEMMA KeepProject == ASSUME ProjectInv, UNCHANGED projectVars PROVE ProjectInv'
BY DEF projectVars, ProjectInv, ProjectTypeOK, CallKeepsUp, ScriptBackedUp

\* What is left of a call that failed, has ended or was lost.
LEMMA NoCallKeeps ==
  ASSUME ProjectInv, script' = NoScript, disk' \in {disk, memory}, scripts' \subseteq Directories,
         UNCHANGED <<memory, day, backups, ranScript>>
  PROVE  ProjectInv'
<1>1. /\ NoScript \in Calls /\ NoScript.at = "idle" /\ NoScript.met = 0
  BY VersionsAssumption DEF NoScript, Calls, Directories, Versions, Days
<1>2. QED
  BY <1>1 DEF ProjectInv, ProjectTypeOK, CallKeepsUp, ScriptBackedUp, Versions

LEMMA ForgetProjectKeeps == ASSUME ProjectInv, ForgetProject PROVE ProjectInv'
BY NoCallKeeps DEF ForgetProject

\* A call goes on to the next of its steps.
LEMMA CallGoesOn ==
  ASSUME ProjectInv, script' \in Calls, script'.at \in {"copy", "rest", "file"},
         script'.met = script.met,
         disk' \in {disk, memory}, script.met <= disk',
         script'.at \in {"rest", "file"} => script.met <= script'.file,
         script'.at = "file" => script.met <= script'.rest,
         UNCHANGED <<memory, day, scripts, backups, ranScript>>
  PROVE  ProjectInv'
<1>1. disk' \in Versions /\ disk' <= memory
  BY VersionsAssumption DEF ProjectInv, ProjectTypeOK, CallKeepsUp, Versions
<1>2. CallKeepsUp'
  BY <1>1 DEF ProjectInv, CallKeepsUp
<1>3. QED
  BY <1>1, <1>2 DEF ProjectInv, ProjectTypeOK, ScriptBackedUp

LEMMA ProjectStepKeeps == ASSUME ProjectInv, ProjectStep PROVE ProjectInv'
<1>0. /\ memory \in Versions /\ disk \in Versions /\ day \in Days /\ script \in Calls
      /\ scripts \subseteq Directories /\ ranScript \in [Directories -> Nat]
      /\ backups \subseteq [dir : Directories, file : Versions, rest : Versions]
      /\ disk <= memory /\ script.met <= memory
      /\ \A v, w \in Versions : v \in Nat /\ (v <= w \/ w <= v)
  BY VersionsAssumption DEF ProjectInv, ProjectTypeOK, CallKeepsUp, Versions
<1>1. CASE EditDesign \/ SaveByHand \/ Midnight
  <2>1. /\ memory' \in Versions /\ memory <= memory' /\ disk' \in {disk, memory} /\ day' \in Days
        /\ UNCHANGED <<scripts, backups, script, ranScript>>
    BY <1>0, <1>1, VersionsAssumption
       DEF EditDesign, SaveByHand, Midnight, Edited, Save, Versions, Days
  <2>2. disk' <= memory' /\ script.met <= memory' /\ disk <= disk'
    BY <1>0, <2>1 DEF Versions, Calls
  <2>3. QED
    <3>1. CallKeepsUp'
      <4>1. script.met \in Versions /\ (script.met <= disk => script.met <= disk')
        BY <1>0, <2>1, <2>2 DEF Calls, Versions
      <4>2. QED
        BY <2>1, <2>2, <4>1 DEF ProjectInv, CallKeepsUp
    <3>2. ScriptBackedUp'
      BY <2>1 DEF ProjectInv, ScriptBackedUp
    <3>3. QED
      BY <1>0, <2>1, <3>1, <3>2 DEF ProjectInv, ProjectTypeOK
<1>2. CASE PreviewSave \/ ApplySave \/ PreviewScript
  <2>1. /\ disk' \in {disk, memory} /\ script.at = "idle"
        /\ UNCHANGED <<memory, day, backups, script, ranScript>>
    BY <1>2 DEF PreviewSave, ApplySave, PreviewScript, NoCall, Save
  <2>2. scripts' \subseteq Directories
    BY <1>0, <1>2 DEF PreviewSave, ApplySave, PreviewScript, Directories
  <2>3. disk' \in Versions /\ disk' <= memory'
    BY <1>0, <2>1 DEF Versions
  <2>4. CallKeepsUp' /\ ScriptBackedUp'
    BY <1>0, <2>1, <2>3 DEF ProjectInv, CallKeepsUp, ScriptBackedUp
  <2>5. QED
    BY <1>0, <2>1, <2>2, <2>3, <2>4 DEF ProjectInv, ProjectTypeOK
<1>3. ASSUME NEW dir \in scripts, BeginScript(dir) PROVE ProjectInv'
  <2>1. script' \in Calls /\ script'.at = "save" /\ script'.met = memory
    <3>1. /\ NoScript \in Calls /\ dir \in Directories
          /\ script' = [NoScript EXCEPT !.at = "save", !.dir = dir, !.met = memory]
      BY <1>0, <1>3, VersionsAssumption
         DEF BeginScript, NoScript, Calls, Directories, Versions, Days
    <3>2. QED
      BY <1>0, <3>1 DEF Calls
  <2>2. UNCHANGED <<memory, disk, day, scripts, backups, ranScript>>
    BY <1>3 DEF BeginScript
  <2>3. QED
    BY <1>0, <2>1, <2>2 DEF ProjectInv, ProjectTypeOK, CallKeepsUp, ScriptBackedUp, Versions
<1>4. CASE Fails /\ (SaveFirst \/ CopyFile \/ CopyRest \/ FileBackup)
  <2>1. /\ script' = NoScript /\ disk' \in {disk, memory}
        /\ UNCHANGED <<memory, day, scripts, backups, ranScript>>
    BY <1>4 DEF Fails, SaveFirst, CopyFile, CopyRest, FileBackup, Save
  <2>2. QED
    BY <1>0, <2>1, NoCallKeeps
<1>5. CASE SaveFirst /\ ~Fails
  <2>1. /\ disk' = memory /\ script' = [script EXCEPT !.at = "copy"]
        /\ UNCHANGED <<memory, day, scripts, backups, ranScript>>
    BY <1>5 DEF SaveFirst, Save
  <2>2. script' \in Calls /\ script'.at = "copy" /\ script'.met = script.met
    BY <1>0, <2>1 DEF Calls
  <2>3. QED
    BY <1>0, <2>1, <2>2, CallGoesOn
<1>6. CASE CopyFile /\ ~Fails
  <2>1. /\ script.at = "copy" /\ script' = [script EXCEPT !.at = "rest", !.file = disk]
        /\ UNCHANGED <<memory, disk, day, scripts, backups, ranScript>>
    BY <1>6 DEF CopyFile
  <2>2. /\ script' \in Calls /\ script'.at = "rest" /\ script'.met = script.met
        /\ script'.file = disk
    BY <1>0, <2>1 DEF Calls
  <2>3. script.met <= disk
    BY <2>1 DEF ProjectInv, CallKeepsUp
  <2>4. QED
    BY <1>0, <2>1, <2>2, <2>3, CallGoesOn
<1>7. CASE CopyRest /\ ~Fails
  <2>1. /\ script.at = "rest" /\ script' = [script EXCEPT !.at = "file", !.rest = disk]
        /\ UNCHANGED <<memory, disk, day, scripts, backups, ranScript>>
    BY <1>7 DEF CopyRest
  <2>2. /\ script' \in Calls /\ script'.at = "file" /\ script'.met = script.met
        /\ script'.file = script.file /\ script'.rest = disk
    BY <1>0, <2>1 DEF Calls
  <2>3. script.met <= disk /\ script.met <= script.file
    BY <2>1 DEF ProjectInv, CallKeepsUp
  <2>4. QED
    BY <1>0, <2>1, <2>2, <2>3, CallGoesOn
<1>8. CASE FileBackup /\ ~Fails
  <2> DEFINE own == [dir |-> script.dir, file |-> script.file, rest |-> script.rest]
  <2>1. /\ script.at = "file" /\ \A b \in backups : b.dir # script.dir
        /\ backups' = backups \cup {own}
        /\ script' = [script EXCEPT !.at = "run"]
        /\ UNCHANGED <<disk, memory, day, scripts, ranScript>>
    BY <1>8 DEF FileBackup
  <2>2. /\ own \in [dir : Directories, file : Versions, rest : Versions]
        /\ script.dir \in Directories
    BY <1>0 DEF Calls
  <2>3. ranScript[script.dir] = 0
    BY <2>1, <2>2 DEF ProjectInv, ScriptBackedUp
  <2>4. /\ script'.at = "run" /\ script'.met = script.met /\ script'.dir = script.dir
        /\ script' \in Calls
    BY <1>0, <2>1 DEF Calls
  <2>5. script.met <= disk /\ script.met <= script.file /\ script.met <= script.rest
    BY <2>1 DEF ProjectInv, CallKeepsUp
  <2>6. own \in backups' /\ own.dir = script'.dir /\ own.file >= script'.met /\ own.rest >= script'.met
    BY <1>0, <2>1, <2>4, <2>5 DEF Calls, Versions
  <2>7. \A d \in Directories :
          ranScript'[d] # 0 => ranScript'[d] = 1 /\ \E b \in backups' : b.dir = d
    BY <2>1 DEF ProjectInv, ScriptBackedUp
  <2>8. ScriptBackedUp'
    BY <2>6, <2>7 DEF ScriptBackedUp
  <2> HIDE DEF own
  <2>9. QED
    BY <1>0, <2>1, <2>2, <2>3, <2>4, <2>5, <2>8 DEF ProjectInv, ProjectTypeOK, CallKeepsUp
<1>9. CASE RunScript
  <2>1. /\ script.at = "run" /\ scripts' = scripts \ {script.dir}
        /\ ranScript' = [ranScript EXCEPT ![script.dir] = @ + 1]
        /\ script' = NoScript
        /\ UNCHANGED <<day, backups>>
        /\ memory' \in Versions /\ disk' \in Versions /\ disk' <= memory'
    BY <1>0, <1>9, VersionsAssumption DEF RunScript, Edited, DropScript, Versions
  <2>2. script' \in Calls /\ script'.at = "idle" /\ script'.met = 0
    BY <2>1, VersionsAssumption DEF NoScript, Calls, Directories, Versions, Days
  <2>3. script.dir \in Directories /\ ranScript[script.dir] = 0
    BY <1>0, <2>1 DEF Calls, ProjectInv, CallKeepsUp
  <2>4. \A d \in Directories : ranScript'[d] = IF d = script.dir THEN 1 ELSE ranScript[d]
    BY <1>0, <2>1, <2>3
  <2>5. \E b \in backups : b.dir = script.dir
    BY <2>1 DEF ProjectInv, ScriptBackedUp
  <2>6. ScriptBackedUp'
    BY <2>1, <2>2, <2>4, <2>5 DEF ProjectInv, ScriptBackedUp
  <2>7. ranScript' \in [Directories -> Nat]
    BY <1>0, <2>1, <2>3
  <2>8. scripts' \subseteq Directories
    BY <1>0, <2>1
  <2>9. script'.met <= memory'
    BY <2>1, <2>2 DEF Versions
  <2>10. QED
    <3>1. CallKeepsUp'
      BY <2>1, <2>2, <2>9 DEF CallKeepsUp
    <3>2. QED
      BY <1>0, <2>1, <2>2, <2>6, <2>7, <2>8, <3>1 DEF ProjectInv, ProjectTypeOK
<1>10. QED
  BY <1>1, <1>2, <1>3, <1>4, <1>5, <1>6, <1>7, <1>8, <1>9 DEF ProjectStep

-----------------------------------------------------------------------------
(* The reads: LiveReads *)

\* A section that may break the wrapper of a layout read and go unsaid is followed by
\* none that relies on the wrapper.
BreaksQuietly(s) == s.via = "wrapper" /\ s.fault \in {"empty", "native"}

Fits(c) ==
  /\ c.products \subseteq Products /\ Len(c.sections) \in 0 .. 5
  /\ \A i \in 1 .. Len(c.sections) : c.sections[i].cut \in {"never", "told", "silently"}
  /\ "layout" \in c.products =>
       \A i, j \in 1 .. Len(c.sections) :
         i < j /\ BreaksQuietly(c.sections[i]) => ~Relies(c.sections[j])

LEMMA SectionTable == \A c \in Commands : Fits(c)
<1> USE DEF Fits, Command, Hfss, Layout, Either, Products, Section, Native, UnlessFaulty,
            BreaksQuietly, Relies, Quiet
<1>1. Fits(hfss_design_inventory)
  BY DEF hfss_design_inventory, Defaulted, SetupNames, Listing, PortNames
<1>2. Fits(setup_inventory)
  BY DEF setup_inventory, SetupNames, Listing, PortNames, Defaulted
<1>3. Fits(solution_inventory)
  BY DEF solution_inventory, SetupNames, Listing, SolutionNames, ResultFiles
<1>4. Fits(hfss_geometry_inventory)
  BY DEF hfss_geometry_inventory, GeometryObjects
<1>5. Fits(hfss_material_inventory)
  BY DEF hfss_material_inventory, MaterialCatalog, Catalog
<1>6. Fits(hfss_mesh_inventory)
  BY DEF hfss_mesh_inventory, MeshOperations, Catalog
<1>7. Fits(hfss_far_field_inventory)
  BY DEF hfss_far_field_inventory, FieldSetups, Catalog, BoundaryRecords
<1>8. Fits(hfss_surface_boundary_inventory)
  BY DEF hfss_surface_boundary_inventory, SurfaceBoundaries, Catalog
<1>9. Fits(hfss_coordinate_system_inventory)
  BY DEF hfss_coordinate_system_inventory, CoordinateSystems, Catalog
<1>10. Fits(hfss_port_inventory)
  BY DEF hfss_port_inventory, PortBoundaries, Catalog
<1>11. Fits(variable_inventory)
  BY DEF variable_inventory, Variables
<1>12. Fits(layout_paths_list)
  BY DEF layout_paths_list, Lines
<1>13. Fits(layout_routing_inventory)
  BY DEF layout_routing_inventory, Lines, Variables
<1>14. Fits(layout_technology_inventory)
  BY DEF layout_technology_inventory, StackupLayers, Padstacks, DifferentialPairs,
       TechnologyPorts
<1>15. Fits(layout_connectivity_inventory)
  BY DEF layout_connectivity_inventory, Terminals, Components, NetClasses, Reported
<1>16. Fits(layout_signal_via_inventory)
  BY DEF layout_signal_via_inventory, SignalNets, SignalVias
<1>17. Fits(layout_port_candidate_inventory)
  BY DEF layout_port_candidate_inventory, NetNames, Listing, ComponentPins
<1>18. Fits(layout_edge_port_candidate_inventory)
  BY DEF layout_edge_port_candidate_inventory, NetNames, Listing, UniformLines
<1>19. Fits(layout_object_inventory)
  BY DEF layout_object_inventory, Categories, Reported
<1>20. Fits(layout_object_property_inventory)
  BY DEF layout_object_property_inventory, ObjectRecords, Listing
<1>21. Fits(via_target_inventory)
  BY DEF via_target_inventory, ViaTargets
<1>22. Fits(layout_property_schema)
  BY DEF layout_property_schema
<1>23. Fits(layout_properties_read)
  BY DEF layout_properties_read, NamedProperties
<1>24. Fits(controlled_read_schema)
  BY DEF controlled_read_schema
<1>25. Fits(controlled_read_execute)
  BY DEF controlled_read_execute, ProgramStep
<1> HIDE DEF Fits, Command, Hfss, Layout, Either, Products, Section, Native, UnlessFaulty,
             BreaksQuietly, Relies, Quiet
<1>26. QED
  BY <1>1, <1>2, <1>3, <1>4, <1>5, <1>6, <1>7, <1>8, <1>9, <1>10, <1>11, <1>12, <1>13, <1>14, <1>15, <1>16, <1>17, <1>18, <1>19, <1>20, <1>21, <1>22, <1>23, <1>24, <1>25 DEF Commands

\* The fields of a read.
ReadType ==
  [at : {"none", "reading", "answered", "failed", "lost"}, command : Commands,
   product : Products, limit : Nat, next : 1 .. 6, told : SUBSET Sections,
   faulty : BOOLEAN, again : BOOLEAN]

LEMMA NoReadIsRead == NoRead \in ReadType /\ Len(NoRead.command.sections) = 0
<1>1. layout_property_schema \in Commands /\ Len(layout_property_schema.sections) = 0
  BY DEF Commands, layout_property_schema, Layout, Command
<1>2. QED
  BY <1>1 DEF NoRead, ReadType, Products, Sections

LEMMA InitReads == ReadInit => ReadInv
<1> SUFFICES ASSUME ReadInit PROVE ReadInv
  OBVIOUS
<1>1. ReadTypeOK
  BY NoReadIsRead DEF ReadInit, ReadTypeOK, ReadType, NoRead, NoneLeft, Products
<1>2. QED
  BY <1>1 DEF ReadInit, NoRead, Products, ReadInv, DroppedInTime, BreakIsSaid, SaidSoFar, Reading

LEMMA KeepReads == ASSUME ReadInv, UNCHANGED readVars PROVE ReadInv'
BY DEF readVars, ReadInv, ReadTypeOK, DroppedInTime, BreakIsSaid, SaidSoFar, Reading, Broken,
       More, NonPersistent

\* A section that is said to miss something, or that misses nothing of what stayed, or
\* of which nothing is promised, keeps the invariant.
LEMMA SaysKeeps ==
  ASSUME ReadInv, Reading, More, NEW S \in SUBSET Objects, NEW missing \in BOOLEAN, NEW w,
         Says(S, missing, w), UNCHANGED <<present, open, steady, started>>,
         \/ missing \/ Quiet(Current) \/ S = present
         \/ started = "kept"
         \/ read.told # {} /\ ~Current.guarded,
         w \in [Products -> {"none", "clean", "read", "kept"}],
         w["hfss"] \in {"none", "clean"},
         w["layout"] = "read" => NonPersistent(read.command),
         \/ w = wrapper
         \/ missing
         \/ \A i \in (read.next + 1) .. Len(read.command.sections) :
               ~Relies(read.command.sections[i])
  PROVE  ReadInv'
<1> DEFINE said == missing \/ (Current.cut = "told" /\ Cut(S) # S)
           told == IF said THEN read.told \cup {read.next} ELSE read.told
<1>1. /\ read' = [read EXCEPT !.next = read.next + 1, !.told = told,
                              !.faulty = read.faulty \/ missing]
      /\ omitted' = [omitted EXCEPT ![read.next] = steady \ Cut(S)]
      /\ wrapper' = w
  BY DEF Says
<1>2. /\ read \in ReadType /\ read.next <= Len(read.command.sections)
      /\ Len(read.command.sections) \in 0 .. 5 /\ read.next \in Sections
      /\ Current.cut \in {"never", "told", "silently"}
  BY SectionTable DEF ReadInv, ReadTypeOK, ReadType, More, Fits, Sections, Current
<1>3. told \subseteq Sections /\ read.told \subseteq told /\ (missing => told # {})
  BY <1>2 DEF ReadType
<1> HIDE DEF told
<1>4. /\ read'.at = "reading" /\ read'.command = read.command /\ read'.product = read.product
      /\ read'.next = read.next + 1 /\ read'.told = told
      /\ (read.faulty \/ missing => read'.faulty)
      /\ read' \in ReadType
  <2>1. (read.faulty \/ missing) \in BOOLEAN
    OBVIOUS
  <2>3. read.next + 1 \in 1 .. 6
    BY <1>2 DEF Sections
  <2>2. QED
    BY <1>1, <1>2, <1>3, <2>1, <2>3 DEF ReadType, Reading
<1>5. Cut(S) \subseteq S
  BY DEF Cut
<1>6. ReadTypeOK'
  <2>1. omitted' \in [Sections -> SUBSET steady]
    BY <1>1, <1>2 DEF ReadInv, ReadTypeOK
  <2>2. QED
    BY <1>1, <1>2, <1>4, <2>1 DEF ReadInv, ReadTypeOK, ReadType
<1>7. DroppedInTime'
  BY <1>1, <1>4 DEF DroppedInTime, Reading, NonPersistent
<1>8. BreakIsSaid'
  <2> SUFFICES ASSUME started # "kept", w[read.product] \in {"read", "kept"},
                      ~(read'.faulty /\ told # {})
               PROVE  \A i \in (read.next + 1) .. Len(read.command.sections) :
                         ~Relies(read.command.sections[i])
    BY <1>1, <1>4 DEF BreakIsSaid, Broken, Reading
  <2>1. ~missing
    BY <1>3, <1>4
  <2>2. CASE w = wrapper
    <3>1. ~(read.faulty /\ read.told # {})
      BY <1>3, <1>4
    <3>2. QED
      BY <2>2, <3>1, <1>2 DEF ReadInv, BreakIsSaid, Broken, ReadType
  <2>3. QED
    BY <2>1, <2>2
<1>9. SaidSoFar'
  <2> SUFFICES ASSUME started # "kept", NEW i \in 1 .. read.next,
                      ~Quiet(read.command.sections[i]), i \notin told,
                      told = {} \/ read.command.sections[i].guarded
               PROVE  omitted'[i] = {}
    BY <1>1, <1>2, <1>4 DEF SaidSoFar, ReadType
  <2>1. CASE i # read.next
    <3>1. i \in 1 .. (read.next - 1) /\ omitted'[i] = omitted[i] /\ i \in Sections
      BY <1>1, <1>2, <2>1 DEF ReadInv, ReadTypeOK, Sections
    <3>2. QED
      BY <3>1, <1>3 DEF ReadInv, SaidSoFar, Reading
  <2>2. CASE i = read.next
    <3>1. ~said /\ Current = read.command.sections[i]
      BY <2>2 DEF told, Current
    <3>2. S = present
      BY <3>1, <1>3
    <3>3. Cut(S) = S
      BY <3>1, <1>2 DEF Cut, Quiet
    <3>4. omitted'[i] = steady \ Cut(S)
      BY <1>1, <1>2, <2>2 DEF ReadInv, ReadTypeOK
    <3>5. QED
      BY <3>2, <3>3, <3>4 DEF ReadInv
  <2>3. QED
    BY <2>1, <2>2
<1>10. QED
  BY <1>4, <1>6, <1>7, <1>8, <1>9 DEF ReadInv, Reading

LEMMA EndKeeps ==
  ASSUME ReadInv, Reading, NEW how \in {"answered", "failed"}, how = "answered" => ~More, NEW w,
         End(how, w), UNCHANGED <<present, open, steady, started>>,
         w \in [Products -> {"none", "clean", "read", "kept"}],
         w["hfss"] \in {"none", "clean"},
         w["layout"] = "read" => NonPersistent(read.command)
  PROVE  ReadInv'
<1>1. /\ read \in ReadType /\ read' = [read EXCEPT !.at = how] /\ omitted' = omitted
      /\ wrapper' = Dropped(w, how)
  BY DEF End, ReadInv, ReadTypeOK, ReadType
<1>2. /\ read'.at = how /\ read'.command = read.command /\ read'.product = read.product
      /\ read'.next = read.next /\ read'.told = read.told /\ read' \in ReadType
  BY <1>1 DEF ReadType
<1>3. /\ wrapper' \in [Products -> {"none", "clean", "read", "kept"}]
      /\ wrapper'["hfss"] \in {"none", "clean"} /\ wrapper'["layout"] # "read"
  BY <1>1 DEF Dropped, Products
<1>4. ReadTypeOK'
  BY <1>1, <1>2, <1>3 DEF ReadInv, ReadTypeOK, ReadType
<1>5. SaidSoFar'
  BY <1>1, <1>2 DEF ReadInv, SaidSoFar, Reading
<1>6. QED
  BY <1>2, <1>3, <1>4, <1>5 DEF ReadInv, DroppedInTime, BreakIsSaid, Reading, More

\* What a section's fault does to the wrapper.
LEMMA BreaksAreKnown ==
  ASSUME ReadInv, Reading, More
  PROVE  /\ BreaksWrapper \in [Products -> {"none", "clean", "read", "kept"}]
         /\ BreaksWrapper["hfss"] \in {"none", "clean"}
         /\ BreaksWrapper["layout"] = "read" => NonPersistent(read.command)
         /\ Current.fault \in {"empty", "native"} =>
              \/ BreaksWrapper = wrapper
              \/ \A i \in (read.next + 1) .. Len(read.command.sections) :
                   ~Relies(read.command.sections[i])
<1>1. /\ wrapper \in [Products -> {"none", "clean", "read", "kept"}]
      /\ wrapper["hfss"] \in {"none", "clean"}
      /\ wrapper["layout"] = "read" => NonPersistent(read.command)
  BY DEF ReadInv, ReadTypeOK, DroppedInTime
<1>2. CASE BreaksWrapper = wrapper
  BY <1>1, <1>2
<1>3. CASE BreaksWrapper # wrapper
  <2>1. /\ Current.via = "wrapper" /\ read.product = "layout"
        /\ BreaksWrapper =
             [wrapper EXCEPT !["layout"] = IF NonPersistent(read.command) THEN "read" ELSE "kept"]
    BY <1>3 DEF BreaksWrapper
  <2>2. /\ read \in ReadType /\ read.next \in 1 .. Len(read.command.sections)
        /\ "layout" \in read.command.products
    BY <2>1 DEF ReadInv, ReadTypeOK, ReadType, More
  <2>3. Fits(read.command)
    BY <2>2, SectionTable DEF ReadType
  <2>4. ASSUME Current.fault \in {"empty", "native"},
               NEW i \in (read.next + 1) .. Len(read.command.sections)
        PROVE  ~Relies(read.command.sections[i])
    <3>1. BreaksQuietly(read.command.sections[read.next])
      BY <2>1, <2>4 DEF BreaksQuietly, Current
    <3>2. i \in 1 .. Len(read.command.sections) /\ read.next < i
      BY <2>2, <2>3 DEF Fits
    <3>3. QED
      BY <2>2, <2>3, <3>1, <3>2 DEF Fits
  <2>5. QED
    BY <1>1, <2>1, <2>4 DEF Products
<1>4. QED
  BY <1>2, <1>3

LEMMA RebindKeeps ==
  ASSUME ReadInv, Reading, Rebind, UNCHANGED <<present, open, steady, started>>
  PROVE  ReadInv'
<1>1. /\ read \in ReadType /\ read' = [read EXCEPT !.again = TRUE, !.next = 1, !.told = {}]
      /\ omitted' = NoneLeft /\ wrapper' = [wrapper EXCEPT !["layout"] = "clean"]
      /\ Len(read.command.sections) \in 0 .. 5
  BY SectionTable DEF Rebind, ReadInv, ReadTypeOK, ReadType, Fits
<1>2. /\ read'.at = "reading" /\ read'.command = read.command /\ read'.product = read.product
      /\ read'.next = 1 /\ read' \in ReadType
  <2>1. TRUE \in BOOLEAN /\ 1 \in 1 .. 6 /\ {} \in SUBSET Sections
    OBVIOUS
  <2>2. QED
    BY <1>1, <2>1 DEF ReadType, Reading
<1>3. wrapper' \in [Products -> {"none", "clean", "read", "kept"}]
  BY <1>1 DEF ReadInv, ReadTypeOK
<1>4. wrapper'["hfss"] \in {"none", "clean"} /\ wrapper'["layout"] = "clean"
  BY <1>1 DEF ReadInv, ReadTypeOK, DroppedInTime, Products
<1>5. ReadTypeOK'
  BY <1>1, <1>2, <1>3 DEF ReadInv, ReadTypeOK, ReadType, NoneLeft, Sections
<1>6. ~Broken'
  BY <1>2, <1>4 DEF Broken, ReadType, Products
<1>7. QED
  BY <1>1, <1>2, <1>4, <1>5, <1>6
     DEF ReadInv, DroppedInTime, BreakIsSaid, SaidSoFar, Reading, NonPersistent

LEMMA MeetsKeeps ==
  ASSUME ReadInv, Reading, More, NEW how, NEW w, Meets(how, w),
         UNCHANGED <<present, open, steady, started>>,
         how = "empty" => Quiet(Current),
         w \in [Products -> {"none", "clean", "read", "kept"}],
         w["hfss"] \in {"none", "clean"},
         w["layout"] = "read" => NonPersistent(read.command),
         how \in {"empty", "native"} =>
           \/ w = wrapper
           \/ \A i \in (read.next + 1) .. Len(read.command.sections) :
                ~Relies(read.command.sections[i])
  PROVE  ReadInv'
<1>1. present \in SUBSET Objects /\ {} \in SUBSET Objects
  BY DEF ReadInv, ReadTypeOK
<1>2. CASE how = "reported" /\ Says({}, TRUE, w)
  BY <1>1, <1>2, SaysKeeps
<1>3. CASE how = "empty" /\ Says({}, FALSE, w)
  BY <1>1, <1>3, SaysKeeps
<1>4. CASE how = "native" /\ Says(present, FALSE, w)
  BY <1>1, <1>4, SaysKeeps
<1>5. CASE Rebind
  BY <1>5, RebindKeeps
<1>6. CASE End("failed", w)
  BY <1>6, EndKeeps
<1>7. QED
  BY <1>2, <1>3, <1>4, <1>5, <1>6 DEF Meets

LEMMA ContinueKeeps == ASSUME ReadInv, Continue PROVE ReadInv'
<1>1. Reading /\ UNCHANGED <<present, open, steady, started>>
  BY DEF Continue
<1>2. /\ present \in SUBSET Objects /\ {} \in SUBSET Objects
      /\ wrapper \in [Products -> {"none", "clean", "read", "kept"}]
      /\ wrapper["hfss"] \in {"none", "clean"}
      /\ wrapper["layout"] = "read" => NonPersistent(read.command)
  BY DEF ReadInv, ReadTypeOK, DroppedInTime
<1>3. CASE ~More
  BY <1>1, <1>2, <1>3, EndKeeps DEF Continue
<1>4. CASE More /\ SkipSection
  BY <1>1, <1>2, <1>4, SaysKeeps DEF SkipSection
<1>5. CASE More /\ ReadSection
  BY <1>1, <1>2, <1>5, SaysKeeps DEF ReadSection
<1>6. CASE More /\ ReadPart
  <2>1. PICK S \in SUBSET present : Says(S, FALSE, wrapper)
    BY <1>6 DEF ReadPart
  <2>2. Current.via # "native" /\ Broken /\ ~(Current.guarded /\ read.faulty)
    BY <1>6 DEF ReadPart, Attempted, Healthy
  <2>3. \/ started = "kept" \/ Quiet(Current)
        \/ read.told # {} /\ ~Current.guarded
    <3>1. read.next \in read.next .. Len(read.command.sections)
      BY <1>6, SectionTable DEF More, ReadInv, ReadTypeOK, Fits
    <3>2. QED
      BY <1>1, <2>2, <3>1 DEF ReadInv, BreakIsSaid, Relies, Current
  <2>4. S \in SUBSET Objects
    BY <1>2
  <2>5. QED
    BY <1>1, <1>2, <1>6, <2>1, <2>3, <2>4, SaysKeeps
<1>7. CASE More /\ RaiseSection
  BY <1>1, <1>7, BreaksAreKnown, MeetsKeeps DEF RaiseSection, Quiet
<1>8. ASSUME More, NEW x \in Objects, RaiseItem(x) PROVE ReadInv'
  <2>1. present \ {x} \in SUBSET Objects
    BY <1>2
  <2>2. CASE Current.items = "marked"
    BY <1>1, <1>2, <1>8, <2>2, SaysKeeps DEF RaiseItem
  <2>3. CASE Current.items = "dropped"
    <3>1. PICK told \in BOOLEAN : Says(present \ {x}, told, wrapper)
      BY <1>8, <2>3 DEF RaiseItem
    <3>2. QED
      BY <1>1, <1>2, <1>8, <2>1, <2>3, <3>1, SaysKeeps DEF Quiet
  <2>4. CASE Current.items = "told"
    BY <1>1, <1>2, <1>8, <2>1, <2>4, SaysKeeps DEF RaiseItem
  <2>5. CASE Current.items \notin {"marked", "dropped", "told"}
    BY <1>1, <1>2, <1>8, <2>5, MeetsKeeps DEF RaiseItem, Quiet
  <2>6. QED
    BY <2>2, <2>3, <2>4, <2>5
<1>9. QED
  BY <1>3, <1>4, <1>5, <1>6, <1>7, <1>8 DEF Continue

LEMMA ReadStepKeeps == ASSUME ReadInv, ReadStep PROVE ReadInv'
<1>1. read \in ReadType /\ omitted \in [Sections -> SUBSET steady]
      /\ wrapper \in [Products -> {"none", "clean", "read", "kept"}]
  BY DEF ReadInv, ReadTypeOK, ReadType
<1>2. ASSUME NEW S \in SUBSET Objects, Stay(S), present' = S,
             UNCHANGED <<wrapper, read, started>>
      PROVE  ReadInv'
  <2>1. CASE Reading
    <3>1. steady' = steady \cap S /\ omitted' = [i \in Sections |-> omitted[i] \cap S]
      BY <1>2, <2>1 DEF Stay
    <3>2. omitted' \in [Sections -> SUBSET steady']
      BY <1>1, <3>1
    <3>3. SaidSoFar'
      <4>1. \A i \in 1 .. (read.next - 1) : i \in Sections /\ (omitted[i] = {} => omitted'[i] = {})
        <5>1. \A i \in 1 .. (read.next - 1) : i \in Sections
          BY SectionTable, <1>1 DEF ReadInv, ReadTypeOK, ReadType, Fits, Sections
        <5>2. QED
          BY <3>1, <5>1
      <4>2. QED
        BY <1>2, <4>1 DEF ReadInv, SaidSoFar
    <3>4. QED
      BY <1>2, <2>1, <3>1, <3>2, <3>3 DEF ReadInv, ReadTypeOK, DroppedInTime, BreakIsSaid,
         Reading, Broken, More, NonPersistent
  <2>2. CASE ~Reading
    <3>1. UNCHANGED <<steady, omitted>>
      BY <1>2, <2>2 DEF Stay
    <3>2. QED
      BY <1>2, <2>2, <3>1 DEF ReadInv, ReadTypeOK, DroppedInTime, BreakIsSaid, SaidSoFar,
         Reading, Broken, More, NonPersistent
  <2>3. QED
    BY <2>1, <2>2
<1>3. ASSUME NEW S \in SUBSET Objects, EditObjects(S) PROVE ReadInv'
  BY <1>2, <1>3 DEF EditObjects
<1>4. CASE CloseDesign
  BY <1>2, <1>4 DEF CloseDesign
<1>5. ASSUME Idle, wrapper' \in [Products -> {"none", "clean", "read", "kept"}],
             wrapper'["hfss"] \in {"none", "clean"}, wrapper'["layout"] # "read",
             UNCHANGED <<present, read, steady, omitted, started>>
      PROVE  ReadInv'
  BY <1>5 DEF ReadInv, ReadTypeOK, DroppedInTime, BreakIsSaid, SaidSoFar, Reading, Broken, More,
     Idle, NoRead
<1>6. Idle => wrapper["hfss"] \in {"none", "clean"} /\ wrapper["layout"] # "read"
  BY DEF ReadInv, DroppedInTime, Idle, NoRead, Reading
<1>7. CASE CreateDesign
  BY <1>1, <1>5, <1>6, <1>7 DEF CreateDesign, Products
<1>8. ASSUME NEW k \in Products, OtherCommand(k) PROVE ReadInv'
  BY <1>1, <1>5, <1>6, <1>8 DEF OtherCommand, Bind, Products
<1>9. ASSUME NEW c \in Commands, NEW k \in Products, NEW limit \in Nat, BeginRead(c, k, limit)
      PROVE  ReadInv'
  <2>1. /\ Idle /\ k \in c.products /\ Bind(k)
        /\ read' = [NoRead EXCEPT !.at = "reading", !.command = c, !.product = k, !.limit = limit]
        /\ steady' = present /\ omitted' = NoneLeft /\ started' = wrapper[k]
        /\ UNCHANGED <<present, open>>
    BY <1>9 DEF BeginRead
  <2>2. /\ read'.at = "reading" /\ read'.command = c /\ read'.product = k /\ read'.next = 1
        /\ read' \in ReadType
    BY <2>1, NoReadIsRead DEF ReadType, NoRead
  <2>3. /\ wrapper' \in [Products -> {"none", "clean", "read", "kept"}]
        /\ wrapper'["hfss"] \in {"none", "clean"} /\ wrapper'["layout"] # "read"
        /\ wrapper[k] # "kept" => wrapper'[k] = "clean"
    BY <1>1, <1>6, <2>1 DEF Bind, Products
  <2>4. ReadTypeOK'
    <3>1. Len(c.sections) \in 0 .. 5
      BY SectionTable DEF Fits
    <3>2. QED
      BY <2>1, <2>2, <2>3, <3>1 DEF ReadInv, ReadTypeOK, ReadType, NoneLeft
  <2>5. BreakIsSaid'
    BY <2>1, <2>2, <2>3 DEF BreakIsSaid, Broken
  <2>6. QED
    BY <2>1, <2>2, <2>3, <2>4, <2>5 DEF ReadInv, DroppedInTime, SaidSoFar, Reading
<1>10. CASE Continue
  BY <1>10, ContinueKeeps
<1>11. CASE Answer
  <2>1. /\ read' = NoRead /\ steady' = {} /\ omitted' = NoneLeft
        /\ UNCHANGED <<present, wrapper>> /\ ~Reading
    BY <1>11 DEF Answer
  <2>2. NoRead.at = "none"
    BY DEF NoRead
  <2>3. ReadTypeOK'
    BY <1>1, <2>1, NoReadIsRead DEF ReadInv, ReadTypeOK, ReadType, NoneLeft, NoRead
  <2>4. QED
    BY <2>1, <2>2, <2>3 DEF ReadInv, DroppedInTime, BreakIsSaid, SaidSoFar, Reading
<1>12. \A limit \in {1, Cardinality(Objects)} : limit \in Nat
  BY ReadsAssumption, FS_CardinalityType
<1>13. QED
  BY <1>3, <1>4, <1>7, <1>8, <1>9, <1>10, <1>11, <1>12 DEF ReadStep

LEMMA ForgetReadsKeeps == ASSUME ReadInv, ForgetReads PROVE ReadInv'
<1>1. /\ wrapper' = [k \in Products |-> "none"]
      /\ read' = IF Reading THEN [read EXCEPT !.at = "lost"] ELSE read
      /\ UNCHANGED <<present, steady, omitted, started>>
  BY DEF ForgetReads
<1>2. /\ read'.at \notin {"reading"} /\ read'.command = read.command
      /\ read'.product = read.product /\ read'.next = read.next /\ read'.told = read.told
      /\ read' \in ReadType
      /\ read'.at = "answered" => read.at = "answered"
  BY <1>1 DEF ReadInv, ReadTypeOK, ReadType, Reading
<1>3. ReadTypeOK'
  BY <1>1, <1>2 DEF ReadInv, ReadTypeOK, ReadType, Products
<1>4. SaidSoFar'
  BY <1>1, <1>2 DEF ReadInv, SaidSoFar
<1>5. QED
  BY <1>1, <1>2, <1>3, <1>4
     DEF ReadInv, DroppedInTime, BreakIsSaid, Reading, More, Products

-----------------------------------------------------------------------------
(* The solves: LiveAnalysis *)

\* The types of what a solve changes, and what is known of the records.
Previews == [kind : {"start", "cancel", "export"}, setup : Setups \cup {NoSetup}]
StartCalls == [at : {"analyze", "record"}, setup : Setups, touched : BOOLEAN, solved : BOOLEAN,
               old : BOOLEAN]

SolveTypes ==
  /\ sims \subseteq Sims /\ solution \in [Setups -> BOOLEAN] /\ solves \in 0 .. MaxSolves
  /\ held \subseteq Previews
  /\ starting = NoStart \/ starting \in StartCalls
  /\ runs \in [Setups -> Run] /\ active \in Setups \cup {NoSetup}
  /\ changed \subseteq Recorded /\ stopped \subseteq Recorded
  /\ endedSince \subseteq Recorded /\ solvedSince \subseteq Recorded
  /\ hadSolution \subseteq Recorded

SolveInv == SolveTypes /\ RecordsTrue /\ SolutionsKnown /\ FreshHasEnded

LEMMA KeepSolves == ASSUME SolveInv, UNCHANGED solveVars PROVE SolveInv'
BY DEF solveVars, aedtVars, recordVars, historyVars, SolveInv, SolveTypes, RecordsTrue,
       SolutionsKnown, NotStarting, FreshHasEnded, Recorded, Running

LEMMA SolutionsStill ==
  ASSUME SolutionsKnown, UNCHANGED <<solution, solvedSince, hadSolution>>, Recorded' = Recorded,
         \/ starting' = NoStart
         \/ /\ starting # NoStart /\ starting'.setup = starting.setup
            /\ starting'.old = starting.old /\ (starting.solved => starting'.solved)
         \/ UNCHANGED starting
  PROVE  SolutionsKnown'
BY DEF SolutionsKnown, NotStarting

LEMMA NoRunIsRun == NoRun \in Run /\ NoRun.state = "none" /\ ~NoRun.seen /\ ~NoRun.fresh
BY LimitsAssumption DEF NoRun, Run

\* Nothing is said of a run again that was not true before: the solves go on, others
\* solve, files are written, and a preview or a start comes or goes.
LEMMA OthersKeep ==
  ASSUME SolveInv, sims' \subseteq Sims, solution' \in [Setups -> BOOLEAN],
         solves' \in 0 .. MaxSolves, changed' \in {changed, Recorded},
         held' \subseteq Previews, starting' = NoStart \/ starting' \in StartCalls,
         endedSince' \in {endedSince, Recorded},
         Running => Running' \/ endedSince' = Recorded,
         solvedSince' \subseteq Recorded, solvedSince \subseteq solvedSince',
         SolutionsKnown',
         UNCHANGED <<runs, active, stopped, hadSolution>>
  PROVE  SolveInv'
<1>1. Recorded' = Recorded
  BY DEF Recorded
<1>2. SolveTypes'
  BY <1>1 DEF SolveInv, SolveTypes
<1>3. RecordsTrue'
  <2>1. endedSince \subseteq endedSince'
    BY DEF SolveInv, SolveTypes
  <2>2. \A s \in Setups : runs[s].seen => s \in Recorded
    BY NoRunIsRun DEF Recorded
  <2>3. \A s \in Setups : runs[s].seen => Running' \/ s \in endedSince'
    BY <2>1, <2>2 DEF SolveInv, RecordsTrue
  <2>4. QED
    BY <1>1, <2>1, <2>3 DEF SolveInv, RecordsTrue
<1>4. FreshHasEnded'
  BY DEF SolveInv, SolveTypes, FreshHasEnded
<1>5. QED
  BY <1>2, <1>3, <1>4 DEF SolveInv

\* One record is brought up to date.
LEMMA RecordKeeps ==
  ASSUME SolveInv, NEW s \in Recorded, NEW run \in Run,
         runs' = [runs EXCEPT ![s] = run],
         run.state # "none",
         run.seen => Running \/ s \in endedSince,
         run.state = "not_running" => s \in endedSince,
         run.state = "not_running_unverified" => ~run.seen,
         runs[s].state = "canceled" => run.state = "canceled",
         run.fresh => s \in endedSince \ stopped /\ s \in solvedSince \cup hadSolution,
         active' \in {active, NoSetup},
         held' \subseteq Previews,
         UNCHANGED <<sims, solution, solves, changed, starting, stopped, historyVars>>
  PROVE  SolveInv'
<1>1. s \in Setups /\ runs \in [Setups -> Run]
  BY DEF Recorded, SolveInv, SolveTypes
<1>2. /\ runs' \in [Setups -> Run] /\ runs'[s] = run
      /\ \A t \in Setups \ {s} : runs'[t] = runs[t]
  BY <1>1
<1>3. run # NoRun
  BY NoRunIsRun
<1>4. Recorded' = Recorded
  BY <1>1, <1>2, <1>3 DEF Recorded
<1>5. SolveTypes'
  BY <1>2, <1>4 DEF SolveInv, SolveTypes, historyVars
<1>6. RecordsTrue'
  <2>1. Running' = Running
    BY DEF Running
  <2>2. QED
    BY <1>1, <1>2, <1>4, <2>1 DEF SolveInv, RecordsTrue, historyVars
<1>7. FreshHasEnded'
  BY <1>1, <1>2 DEF SolveInv, FreshHasEnded, historyVars
<1>8. SolutionsKnown'
  BY <1>4, SolutionsStill DEF SolveInv, historyVars
<1>9. QED
  BY <1>5, <1>6, <1>7, <1>8 DEF SolveInv

LEMMA RefreshKeeps ==
  ASSUME SolveInv, NEW s \in Recorded
  PROVE  LET run == Refresh(runs[s]) IN
         /\ run \in Run /\ run.state # "none" /\ run.fresh = runs[s].fresh
         /\ run.seen => Running \/ s \in endedSince
         /\ run.state = "not_running" => s \in endedSince
         /\ run.state = "not_running_unverified" => ~run.seen
         /\ runs[s].state = "canceled" => run.state = "canceled"
<1>1. /\ runs[s] \in Run /\ runs[s].state # "none"
      /\ runs[s].seen => Running \/ s \in endedSince
      /\ runs[s].state = "not_running" => s \in endedSince
      /\ runs[s].state = "not_running_unverified" => ~runs[s].seen
  BY DEF Recorded, SolveInv, SolveTypes, RecordsTrue
<1> DEFINE old == runs[s]
<1> HIDE DEF old
<1>2. old \in Run /\ old.state # "none"
  BY <1>1 DEF old
<1>3. /\ Refresh(old) \in Run /\ Refresh(old).state # "none" /\ Refresh(old).fresh = old.fresh
      /\ Refresh(old).seen => old.seen \/ Running
      /\ old.state = "canceled" => Refresh(old).state = "canceled"
  BY <1>2 DEF Refresh, Run, Pending, Over
<1>4. /\ Refresh(old).state = "not_running" => old.state = "not_running" \/ (old.seen /\ ~Running)
      /\ Refresh(old).state = "not_running_unverified" =>
           \/ ~Refresh(old).seen
           \/ old.state = "not_running_unverified" /\ Refresh(old).seen = old.seen
  BY <1>2 DEF Refresh, Run, Pending, Over
<1>5. QED
  BY <1>1, <1>3, <1>4 DEF old

LEMMA StatusKeeps == ASSUME SolveInv, NEW s \in Setups, Status(s) PROVE SolveInv'
<1> DEFINE run == IF active = s THEN Refresh(runs[s]) ELSE runs[s]
<1>1. s \in Recorded
  BY DEF Status, Recorded
<1>2. /\ run \in Run /\ run.state # "none" /\ run.fresh = runs[s].fresh
      /\ run.seen => Running \/ s \in endedSince
      /\ run.state = "not_running" => s \in endedSince
      /\ run.state = "not_running_unverified" => ~run.seen
      /\ runs[s].state = "canceled" => run.state = "canceled"
  BY <1>1, RefreshKeeps DEF Recorded, SolveInv, SolveTypes, RecordsTrue
<1>3. PICK young \in BOOLEAN : runs' = [runs EXCEPT ![s] = Finalize(s, run, young)]
  BY DEF Status
<1>a. /\ active' \in {active, NoSetup}
      /\ UNCHANGED <<sims, solution, solves, changed, starting, stopped, held, historyVars>>
  BY DEF Status, Settled, aedtVars
<1> HIDE DEF run
<1>4. /\ Finalize(s, run, young) \in Run /\ Finalize(s, run, young).state = run.state
      /\ Finalize(s, run, young).seen = run.seen
      /\ Finalize(s, run, young).fresh =>
           run.fresh \/ (run.state \in Over /\ run.seen /\ solution[s])
  <2> DEFINE found == Evidence(s, run, young)
  <2>1. found \in BOOLEAN /\ (found => run.seen /\ solution[s])
    BY DEF Evidence
  <2> HIDE DEF found
  <2>2. CASE run.state \in Over /\ ~run.fresh /\ run.tries < MaxEvidence
    <3>1. Finalize(s, run, young) = [run EXCEPT !.fresh = found, !.tries = run.tries + 1]
      BY <2>2 DEF Finalize, found
    <3>2. run.tries + 1 \in 0 .. MaxEvidence
      BY <1>2, <2>2, LimitsAssumption DEF Run
    <3>3. QED
      BY <1>2, <2>1, <2>2, <3>1, <3>2 DEF Run
  <2>3. CASE ~(run.state \in Over /\ ~run.fresh /\ run.tries < MaxEvidence)
    <3>1. Finalize(s, run, young) = run
      BY <2>3 DEF Finalize
    <3>2. QED
      BY <1>2, <3>1
  <2>4. QED
    BY <2>2, <2>3
<1>5. run.fresh => s \in endedSince \ stopped /\ s \in solvedSince \cup hadSolution
  BY <1>2 DEF SolveInv, FreshHasEnded
<1>6. run.state \in Over => s \notin stopped
  BY <1>2 DEF SolveInv, RecordsTrue, Over
<1>7. run.state \in Over /\ run.seen => s \in endedSince
  BY <1>2 DEF Over
<1>8. held' \subseteq Previews
  BY <1>a DEF SolveInv, SolveTypes
<1>9. solution[s] => s \in solvedSince \cup hadSolution
  BY <1>1 DEF SolveInv, SolutionsKnown
<1>10. QED
  BY <1>1, <1>2, <1>3, <1>a, <1>4, <1>5, <1>6, <1>7, <1>8, <1>9, RecordKeeps

LEMMA RecordStartKeeps == ASSUME SolveInv, RecordStart PROVE SolveInv'
<1>1. starting' = NoStart /\ UNCHANGED <<sims, solution, solves>>
  BY DEF RecordStart, aedtVars
<1>2. Running' = Running
  BY <1>1 DEF Running
<1>3. CASE UNCHANGED <<changed, held, runs, active, stopped, historyVars>>
  <2>1. /\ held' \subseteq Previews /\ sims' \subseteq Sims /\ solves' \in 0 .. MaxSolves
        /\ solution' \in [Setups -> BOOLEAN] /\ solvedSince' \subseteq Recorded
    BY <1>1, <1>3 DEF SolveInv, SolveTypes, historyVars
  <2>2. SolutionsKnown'
    BY <1>1, <1>3, SolutionsStill DEF SolveInv, Recorded, historyVars
  <2>3. QED
    BY <1>1, <1>2, <1>3, <2>1, <2>2, OthersKeep DEF historyVars
<1>4. CASE ~UNCHANGED <<changed, held, runs, active, stopped, historyVars>>
  <2>1. starting # NoStart /\ starting \in StartCalls
    BY DEF RecordStart, NoStart, SolveInv, SolveTypes
  <2> DEFINE s == starting.setup
             run == [NoRun EXCEPT !.state = IF Running THEN "running" ELSE "submitted",
                                  !.seen = Running]
  <2>2. s \in Setups
    BY <2>1 DEF StartCalls
  <2>3. /\ runs' = [runs EXCEPT ![s] = run] /\ held' = held \ {Held("start", s)}
        /\ changed' = With(changed, s, starting.touched) /\ active' = s
        /\ stopped' = stopped \ {s} /\ endedSince' = endedSince \ {s}
        /\ solvedSince' = With(solvedSince, s, starting.solved)
        /\ hadSolution' = With(hadSolution, s, starting.old)
    BY <1>4 DEF RecordStart, Drop
  <2> HIDE DEF s
  <2>4. /\ run \in Run /\ ~run.fresh /\ run # NoRun
        /\ run.state \in {"running", "submitted"} /\ (run.seen => Running)
    <3> DEFINE now == Running
    <3>1. now \in BOOLEAN
      BY DEF Running
    <3> HIDE DEF now
    <3>2. run = [NoRun EXCEPT !.state = IF now THEN "running" ELSE "submitted", !.seen = now]
      BY DEF now, run
    <3> HIDE DEF run
    <3>3. /\ run \in [state : {"running", "submitted"}, seen : BOOLEAN, late : BOOLEAN,
                      fresh : BOOLEAN, tries : {0}]
          /\ run.fresh = FALSE /\ run.seen = now
      <4>1. CASE now
        <5>1. run = [state |-> "running", seen |-> now, late |-> FALSE, fresh |-> FALSE, tries |-> 0]
          BY <3>2, <4>1 DEF NoRun
        <5>2. QED
          BY <3>1, <5>1
      <4>2. CASE ~now
        <5>1. run = [state |-> "submitted", seen |-> now, late |-> FALSE, fresh |-> FALSE, tries |-> 0]
          BY <3>2, <4>2 DEF NoRun
        <5>2. QED
          BY <3>1, <5>1
      <4>3. QED
        BY <4>1, <4>2
    <3>5. run \in Run
      BY <3>3, LimitsAssumption DEF Run, Pending
    <3>4. QED
      BY <3>3, <3>5, NoRunIsRun DEF now
  <2> HIDE DEF run
  <2>5. /\ runs' \in [Setups -> Run] /\ runs'[s] = run
        /\ \A t \in Setups \ {s} : runs'[t] = runs[t]
    BY <2>2, <2>3, <2>4 DEF SolveInv, SolveTypes
  <2>6. Recorded' = Recorded \cup {s}
    BY <2>2, <2>4, <2>5 DEF Recorded
  <2>7. /\ changed' \subseteq Recorded' /\ solvedSince' \subseteq Recorded'
        /\ stopped' \subseteq Recorded' /\ endedSince' \subseteq Recorded'
        /\ hadSolution' \subseteq Recorded' /\ held' \subseteq Previews
    BY <2>3, <2>6 DEF With, SolveInv, SolveTypes
  <2>8. SolveTypes'
    BY <1>1, <2>2, <2>3, <2>5, <2>7 DEF SolveInv, SolveTypes
  <2>9. RecordsTrue'
    <3>1. ASSUME NEW t \in Setups \ {s}
          PROVE  /\ runs'[t].seen => Running' \/ t \in endedSince'
                 /\ runs'[t].state = "not_running" => t \in endedSince'
                 /\ runs'[t].state = "not_running_unverified" => ~runs'[t].seen
                 /\ t \in stopped' => runs'[t].state = "canceled"
                 /\ t \in Recorded' => runs'[t].state # "none"
      BY <1>2, <2>3, <2>5, <2>6, <3>1 DEF SolveInv, RecordsTrue
    <3>2. /\ runs'[s].seen => Running'
          /\ runs'[s].state \in {"running", "submitted"} /\ s \notin stopped'
      BY <1>2, <2>3, <2>4, <2>5
    <3>3. active' \in Recorded'
      BY <2>3, <2>6
    <3>4. QED
      BY <3>1, <3>2, <3>3 DEF RecordsTrue
  <2>10. FreshHasEnded'
    BY <2>3, <2>4, <2>5 DEF With, SolveInv, FreshHasEnded
  <2>11. SolutionsKnown'
    <3>1. solution[s] => starting.solved \/ starting.old
      BY <2>1 DEF s, SolveInv, SolutionsKnown, NotStarting
    <3>2. \A t \in Recorded' : solution[t] => t \in solvedSince' \cup hadSolution'
      BY <2>3, <2>6, <3>1 DEF With, SolveInv, SolutionsKnown
    <3>3. QED
      BY <1>1, <3>2 DEF SolutionsKnown, NotStarting
  <2>12. QED
    BY <2>8, <2>9, <2>10, <2>11 DEF SolveInv
<1>5. QED
  BY <1>3, <1>4

LEMMA CancelKeeps ==
  ASSUME SolveInv, NEW s \in Setups \cup {NoSetup}, NEW left \in SUBSET sims, ApplyCancel(s, left)
  PROVE  SolveInv'
<1>1. /\ sims' = left /\ active' = NoSetup /\ held' = held \ {Held("cancel", s)}
      /\ UNCHANGED <<solution, changed, solves, starting, solvedSince, hadSolution>>
      /\ endedSince' \in {endedSince, Recorded}
      /\ Running => Running' \/ endedSince' = Recorded
  BY DEF ApplyCancel, Drop, Ends
<1>2. endedSince \subseteq endedSince' /\ endedSince' \subseteq Recorded
  BY <1>1 DEF SolveInv, SolveTypes
<1>3. \A t \in Setups : runs[t].seen => t \in Recorded
  BY NoRunIsRun DEF Recorded
<1>4. \A t \in Setups : runs[t].seen => Running' \/ t \in endedSince'
  BY <1>1, <1>2, <1>3 DEF SolveInv, RecordsTrue
<1>5. CASE s \notin Recorded
  <2>1. UNCHANGED <<runs, stopped>> /\ Recorded' = Recorded
    BY <1>5 DEF ApplyCancel, Recorded
  <2>2. SolveTypes'
    BY <1>1, <1>2, <2>1 DEF SolveInv, SolveTypes
  <2>3. RecordsTrue'
    BY <1>1, <1>2, <1>4, <2>1 DEF SolveInv, RecordsTrue
  <2>4. FreshHasEnded'
    BY <1>1, <1>2, <2>1 DEF SolveInv, FreshHasEnded
  <2>5. SolutionsKnown'
    BY <1>1, <2>1, SolutionsStill DEF SolveInv
  <2>6. QED
    BY <2>2, <2>3, <2>4, <2>5 DEF SolveInv
<1>6. CASE s \in Recorded
  <2>1. /\ runs' = [runs EXCEPT ![s].state = "canceled"]
        /\ stopped' = IF ~runs[s].fresh THEN stopped \cup {s} ELSE stopped
    BY <1>6 DEF ApplyCancel
  <2>2. /\ s \in Setups /\ runs' \in [Setups -> Run] /\ runs'[s].state = "canceled"
        /\ runs'[s].seen = runs[s].seen /\ runs'[s].fresh = runs[s].fresh
        /\ \A t \in Setups \ {s} : runs'[t] = runs[t]
    BY <1>6, <2>1 DEF Recorded, SolveInv, SolveTypes, Run
  <2>3. Recorded' = Recorded
    BY <1>6, <2>2, NoRunIsRun DEF Recorded
  <2>4. SolveTypes'
    BY <1>1, <1>2, <1>6, <2>1, <2>2, <2>3 DEF SolveInv, SolveTypes
  <2>5. RecordsTrue'
    BY <1>1, <1>2, <1>4, <2>1, <2>2, <2>3 DEF SolveInv, RecordsTrue
  <2>6. FreshHasEnded'
    BY <1>1, <1>2, <2>1, <2>2 DEF SolveInv, FreshHasEnded
  <2>7. SolutionsKnown'
    BY <1>1, <2>3, SolutionsStill DEF SolveInv
  <2>8. QED
    BY <2>4, <2>5, <2>6, <2>7 DEF SolveInv
<1>7. QED
  BY <1>5, <1>6

LEMMA SolveStepKeeps == ASSUME SolveInv, SolveStep PROVE SolveInv'
<1>1. /\ sims \subseteq Sims /\ solution \in [Setups -> BOOLEAN] /\ solves \in 0 .. MaxSolves
      /\ held \subseteq Previews /\ runs \in [Setups -> Run] /\ active \in Recorded \cup {NoSetup}
      /\ starting = NoStart \/ starting \in StartCalls
      /\ solvedSince \subseteq Recorded /\ SolutionsKnown
  BY DEF SolveInv, SolveTypes, RecordsTrue
<1>2. ASSUME NEW solved \in BOOLEAN, Noted(solved)
      PROVE  /\ starting' = NoStart \/ starting' \in StartCalls
             /\ \/ starting' = NoStart /\ UNCHANGED starting
                \/ /\ starting # NoStart /\ starting'.setup = starting.setup
                   /\ starting'.old = starting.old
                   /\ starting'.solved = (starting.solved \/ solved)
  <2>1. CASE NotStarting
    BY <1>2, <2>1 DEF Noted, NotStarting
  <2>2. CASE ~NotStarting
    <3>1. starting \in StartCalls /\ (starting.solved \/ solved) \in BOOLEAN
      BY <1>1, <2>2 DEF NotStarting
    <3>2. starting' = [starting EXCEPT !.touched = TRUE, !.solved = starting.solved \/ solved]
      BY <1>2, <2>2 DEF Noted
    <3>3. QED
      BY <2>2, <3>1, <3>2 DEF StartCalls, NotStarting
  <2>3. QED
    BY <2>1, <2>2
<1>3. ASSUME NEW s \in Setups, NEW solving \in BOOLEAN, Accepts(s, solving)
      PROVE  sims' \subseteq Sims /\ solves' \in 0 .. MaxSolves /\ (Running => Running')
  <2>1. /\ solves < MaxSolves /\ solves' = solves + 1
        /\ sims' = sims \cup {[setup |-> s, solving |-> solving]}
    BY <1>3 DEF Accepts
  <2>2. [setup |-> s, solving |-> solving] \in Sims
    BY DEF Sims
  <2>3. solves' \in 0 .. MaxSolves
    BY <1>1, <2>1, LimitsAssumption
  <2>4. QED
    BY <1>1, <2>1, <2>2, <2>3 DEF Running
<1>4. ASSUME NEW j \in sims, SolveBegins(j) PROVE SolveInv'
  <2>1. [j EXCEPT !.solving = TRUE] \in Sims
    BY <1>1 DEF Sims
  <2>2. /\ sims' = (sims \ {j}) \cup {[j EXCEPT !.solving = TRUE]} /\ ~j.solving
        /\ UNCHANGED <<solution, changed, solves, held, starting, runs, active, stopped,
                       endedSince, solvedSince, hadSolution>>
    BY <1>4 DEF SolveBegins, recordVars, historyVars
  <2>3. sims' \subseteq Sims /\ (Running => Running')
    BY <1>1, <2>1, <2>2 DEF Running
  <2>4. SolutionsKnown'
    BY <1>1, <2>2, SolutionsStill DEF Recorded
  <2>5. QED
    BY <1>1, <2>2, <2>3, <2>4, OthersKeep
<1>5. ASSUME NEW j \in sims, SolveEnds(j) PROVE SolveInv'
  <2>1. /\ sims' \subseteq Sims /\ endedSince' \in {endedSince, Recorded}
        /\ Running => Running' \/ endedSince' = Recorded
        /\ UNCHANGED <<solves, held, runs, active, stopped, hadSolution>>
    BY <1>1, <1>5 DEF SolveEnds, Ends
  <2>2. /\ solution' \in [Setups -> BOOLEAN] /\ changed' \in {changed, Recorded}
        /\ solvedSince' \subseteq Recorded /\ solvedSince \subseteq solvedSince'
    BY <1>1, <1>5 DEF SolveEnds, Write
  <2>3. starting' = NoStart \/ starting' \in StartCalls
    BY <1>1, <1>2, <1>5 DEF SolveEnds, Write
  <2>4. Recorded' = Recorded
    BY <2>1 DEF Recorded
  <2>5. SolutionsKnown'
    <3>1. CASE /\ Write(starting.setup = j.setup)
               /\ solution' = [solution EXCEPT ![j.setup] = TRUE]
               /\ solvedSince' = solvedSince \cup (Recorded \cap {j.setup})
      <4>1. \A s \in Setups \ {j.setup} : solution'[s] = solution[s]
        BY <1>1, <3>1
      <4>2. \A s \in Recorded' : solution'[s] => s \in solvedSince' \cup hadSolution'
        BY <1>1, <2>1, <2>4, <3>1, <4>1 DEF SolutionsKnown, Recorded
      <4>3. Noted(starting.setup = j.setup)
        BY <3>1 DEF Write
      <4>4. \/ starting' = NoStart
            \/ /\ starting # NoStart /\ starting'.setup = starting.setup
               /\ starting'.old = starting.old
               /\ starting'.solved = (starting.solved \/ starting.setup = j.setup)
        BY <1>2, <4>3
      <4>5. starting # NoStart => starting.setup \in Setups
        BY <1>1 DEF StartCalls
      <4>6. starting' # NoStart /\ solution'[starting'.setup] => starting'.solved \/ starting'.old
        BY <1>1, <4>1, <4>4, <4>5 DEF SolutionsKnown, NotStarting
      <4>7. QED
        BY <4>2, <4>6 DEF SolutionsKnown, NotStarting
    <3>2. CASE /\ Write(FALSE) \/ UNCHANGED <<changed, starting>>
               /\ UNCHANGED <<solution, solvedSince>>
      <4>1. \/ starting' = NoStart
            \/ /\ starting # NoStart /\ starting'.setup = starting.setup
               /\ starting'.old = starting.old /\ (starting.solved => starting'.solved)
            \/ UNCHANGED starting
        BY <1>2, <3>2 DEF Write
      <4>2. QED
        BY <1>1, <2>1, <2>4, <3>2, <4>1, SolutionsStill
    <3>3. QED
      BY <1>5, <3>1, <3>2 DEF SolveEnds
  <2>6. QED
    BY <1>1, <2>1, <2>2, <2>3, <2>5, OthersKeep
<1>6. CASE WriteLate
  <2>1. /\ changed' = Recorded
        /\ UNCHANGED <<sims, solution, solves, held, runs, active, stopped, endedSince,
                       solvedSince, hadSolution>>
    BY <1>6 DEF WriteLate, Write, aedtVars, historyVars
  <2>2. starting' = NoStart \/ starting' \in StartCalls
    BY <1>2, <1>6 DEF WriteLate, Write
  <2>3. Running => Running'
    BY <2>1 DEF Running
  <2>4. \/ starting' = NoStart
        \/ /\ starting # NoStart /\ starting'.setup = starting.setup
           /\ starting'.old = starting.old /\ (starting.solved => starting'.solved)
    BY <1>2, <1>6 DEF WriteLate, Write
  <2>5. SolutionsKnown'
    BY <1>1, <2>1, <2>4, SolutionsStill DEF Recorded
  <2>6. QED
    BY <1>1, <2>1, <2>2, <2>3, <2>5, OthersKeep
<1>7. ASSUME NEW s \in Setups, GraceEnds(s) PROVE SolveInv'
  <2> DEFINE run == [runs[s] EXCEPT !.late = TRUE]
  <2>1. /\ s \in Recorded /\ runs' = [runs EXCEPT ![s] = run]
        /\ UNCHANGED <<sims, solution, solves, changed, held, starting, active, stopped, historyVars>>
    BY <1>1, <1>7, NoRunIsRun DEF GraceEnds, Recorded, aedtVars
  <2>2. /\ run \in Run /\ run.state = runs[s].state /\ run.seen = runs[s].seen
        /\ run.fresh = runs[s].fresh
    BY <1>1 DEF Run
  <2> HIDE DEF run
  <2>3. /\ runs[s].state # "none" /\ (runs[s].seen => Running \/ s \in endedSince)
        /\ runs[s].state = "not_running" => s \in endedSince
        /\ runs[s].state = "not_running_unverified" => ~runs[s].seen
        /\ runs[s].fresh => s \in endedSince \ stopped /\ s \in solvedSince \cup hadSolution
    BY <2>1 DEF SolveInv, RecordsTrue, FreshHasEnded
  <2>4. QED
    BY <1>1, <2>1, <2>2, <2>3, RecordKeeps
<1>8. ASSUME NEW s \in Setups, OthersSolve(s) PROVE SolveInv'
  <2>1. /\ Accepts(s, TRUE)
        /\ UNCHANGED <<solution, changed, held, starting, runs, active, stopped,
                       endedSince, solvedSince, hadSolution>>
    BY <1>8 DEF OthersSolve, recordVars, historyVars
  <2>2. SolutionsKnown'
    BY <1>1, <2>1, SolutionsStill DEF Recorded
  <2>3. QED
    BY <1>1, <1>3, <2>1, <2>2, OthersKeep
<1>9. CASE Analyze
  <2>1. /\ UNCHANGED <<solution, changed, held, runs, active, stopped, endedSince, solvedSince,
                       hadSolution>>
        /\ starting.at = "analyze"
    BY <1>9 DEF Analyze, historyVars
  <2>2. starting \in StartCalls
    BY <1>1, <2>1 DEF NoStart
  <2>3. sims' \subseteq Sims /\ solves' \in 0 .. MaxSolves /\ (Running => Running')
    <3>1. starting.setup \in Setups
      BY <2>2 DEF StartCalls
    <3>2. CASE Rejected
      BY <1>1, <3>2 DEF Rejected, Running
    <3>3. CASE ~Rejected
      BY <1>3, <1>9, <3>1, <3>3 DEF Analyze
    <3>4. QED
      BY <3>2, <3>3
  <2>4. starting' = NoStart \/ starting' \in StartCalls
    BY <1>9, <2>2 DEF Analyze, Rejected, StartCalls
  <2>5. starting' = NoStart \/ starting' = [starting EXCEPT !.at = "record"]
    BY <1>9 DEF Analyze, Rejected
  <2>6. \/ starting' = NoStart
        \/ /\ starting # NoStart /\ starting'.setup = starting.setup
           /\ starting'.old = starting.old /\ (starting.solved => starting'.solved)
    BY <2>1, <2>2, <2>5 DEF StartCalls, NoStart
  <2>7. SolutionsKnown'
    BY <1>1, <2>1, <2>6, SolutionsStill DEF Recorded
  <2>8. QED
    BY <1>1, <2>1, <2>3, <2>4, <2>7, OthersKeep
<1>10. ASSUME NEW s \in Setups, NEW cut \in BOOLEAN, TakeSnapshot(s, cut) PROVE SolveInv'
  <2>1. /\ UNCHANGED <<sims, solution, solves, changed, held, runs, active, stopped,
                       endedSince, solvedSince, hadSolution>>
        /\ starting' = [at |-> "analyze", setup |-> s, touched |-> cut, solved |-> FALSE,
                        old |-> solution[s]]
    BY <1>10 DEF TakeSnapshot, aedtVars, historyVars
  <2>2. starting' \in StartCalls /\ (Running => Running')
    BY <1>1, <2>1 DEF StartCalls, Running
  <2>3. SolutionsKnown'
    BY <1>1, <2>1 DEF SolutionsKnown, Recorded
  <2>4. QED
    BY <1>1, <2>1, <2>2, <2>3, OthersKeep
<1>11. ASSUME NEW s \in Setups \cup {NoSetup}, NEW kind \in {"start", "cancel", "export"},
              held' \in {{Held(kind, s)}, held \ {Held(kind, s)}, held},
              UNCHANGED <<sims, solution, solves, changed, starting, runs, active, stopped,
                          historyVars>>
       PROVE  SolveInv'
  <2>1. held' \subseteq Previews /\ Running' = Running
    BY <1>1, <1>11 DEF Held, Previews, Running
  <2>2. UNCHANGED <<endedSince, solvedSince, hadSolution>>
    BY <1>11 DEF historyVars
  <2>3. SolutionsKnown'
    BY <1>1, <1>11, <2>2, SolutionsStill DEF Recorded
  <2>4. QED
    BY <1>1, <1>11, <2>1, <2>2, <2>3, OthersKeep
<1>12. ASSUME NEW s \in Setups, PreviewStart(s) PROVE SolveInv'
  BY <1>11, <1>12 DEF PreviewStart, Hold, aedtVars
<1>13. ASSUME NEW s \in Setups \cup {NoSetup}, PreviewCancel(s) PROVE SolveInv'
  BY <1>11, <1>13 DEF PreviewCancel, Hold, aedtVars
<1>14. ASSUME NEW s \in Setups, ApplyExport(s) PROVE SolveInv'
  BY <1>11, <1>14 DEF ApplyExport, Drop, aedtVars
<1>15. ASSUME NEW s \in Setups, PreviewExport(s) PROVE SolveInv'
  <2>1. /\ held' \in {{Held("export", s)}, held}
        /\ UNCHANGED <<sims, solution, changed, solves, starting, stopped, historyVars>>
    BY <1>15 DEF PreviewExport, Hold, aedtVars
  <2>2. CASE active = NoSetup
    <3>1. UNCHANGED <<runs, active>>
      BY <1>15, <2>2 DEF PreviewExport
    <3>2. QED
      BY <1>11, <2>1, <3>1
  <2>3. CASE active # NoSetup
    <3>1. /\ active \in Recorded /\ runs' = [runs EXCEPT ![active] = Refresh(runs[active])]
          /\ active' \in {active, NoSetup}
      BY <1>1, <1>15, <2>3 DEF PreviewExport, Settled
    <3>2. runs[active].fresh =>
            active \in endedSince \ stopped /\ active \in solvedSince \cup hadSolution
      BY <3>1 DEF SolveInv, FreshHasEnded, Recorded
    <3>3. held' \subseteq Previews
      BY <1>1, <2>1 DEF Held, Previews
    <3>4. QED
      BY <2>1, <3>1, <3>2, <3>3, RefreshKeeps, RecordKeeps
  <2>4. QED
    BY <2>2, <2>3
<1>16. QED
  BY <1>4, <1>5, <1>6, <1>7, <1>8, <1>9, <1>10, <1>12, <1>13, <1>14, <1>15,
     StatusKeeps, RecordStartKeeps, CancelKeeps
     DEF SolveStep, Solver, Clock, Start

-----------------------------------------------------------------------------
(* LiveAnalysis *)

\* The types of what the three share, which no action changes in a way that matters.
LEMMA TypesSplit ==
  TypeOK <=>
    /\ ProjectTypeOK /\ ReadTypeOK /\ SolveTypes
    /\ {saving, open} \subseteq BOOLEAN /\ client \in Clients
BY DEF TypeOK, SolveTypes, Previews, StartCalls

LEMMA InitInv == Init => IInv
<1> SUFFICES ASSUME Init PROVE IInv
  OBVIOUS
<1>1. ProjectInv /\ ReadInv
  BY InitProject, InitReads DEF Init
<1>2. \A s \in Setups : runs[s] = NoRun
  BY DEF Init
<1>3. Recorded = {} /\ ~Running
  BY <1>2 DEF Init, Recorded, Running
<1>4. SolveTypes
  BY <1>3, NoRunIsRun, LimitsAssumption, SolutionsAssumption DEF Init, SolveTypes
<1>5. RecordsTrue /\ SolutionsKnown /\ FreshHasEnded
  BY <1>2, <1>3, NoRunIsRun DEF Init, RecordsTrue, SolutionsKnown, NotStarting, FreshHasEnded
<1>6. saving = FALSE /\ open = TRUE /\ client \in Clients
  BY DEF Init, ProjectInit, ReadInit
<1>7. {saving, open} \subseteq BOOLEAN
  BY <1>6
<1>8. TypeOK
  BY <1>1, <1>4, <1>6, <1>7, TypesSplit DEF ProjectInv, ReadInv
<1>9. QED
  BY <1>1, <1>5, <1>8 DEF IInv

LEMMA ForgetSolves ==
  ASSUME SolveInv, LoseWorker PROVE SolveInv'
<1>1. /\ held' = {} /\ starting' = NoStart /\ runs' = [s \in Setups |-> NoRun]
      /\ active' = NoSetup /\ changed' = {} /\ stopped' = {}
      /\ endedSince' = {} /\ solvedSince' = {} /\ hadSolution' = {}
      /\ UNCHANGED <<sims, solution, solves>>
  BY DEF LoseWorker, aedtVars
<1>2. \A s \in Setups : runs'[s] = NoRun
  BY <1>1
<1>3. Recorded' = {}
  BY <1>2 DEF Recorded
<1>4. SolveTypes'
  BY <1>1, <1>3, NoRunIsRun DEF SolveInv, SolveTypes
<1>5. QED
  BY <1>1, <1>2, <1>3, <1>4, NoRunIsRun
     DEF SolveInv, RecordsTrue, SolutionsKnown, NotStarting, FreshHasEnded

LEMMA BooleansKeep ==
  ASSUME {saving, open} \subseteq BOOLEAN, client \in Clients, [Next]_vars
  PROVE  {saving', open'} \subseteq BOOLEAN /\ client' \in Clients
<1>1. saving \in BOOLEAN /\ open \in BOOLEAN
  OBVIOUS
<1>2. saving' = saving \/ saving' = TRUE \/ saving' = FALSE
  <2>1. CASE ProjectStep
    BY <2>1 DEF ProjectStep, EditDesign, SaveByHand, Midnight, PreviewSave, ApplySave,
       PreviewScript, BeginScript, SaveFirst, CopyFile, CopyRest, FileBackup, RunScript
  <2>2. CASE SolveStep
    BY <2>2 DEF SolveStep, Solver, Clock, Start, WriteLate, SolveBegins, SolveEnds, GraceEnds,
       OthersSolve, PreviewStart, Status, PreviewExport, ApplyExport, TakeSnapshot, Analyze,
       RecordStart, PreviewCancel, ApplyCancel, projectVars
  <2>3. CASE UNCHANGED projectVars \/ LoseWorker
    BY <2>3 DEF projectVars, LoseWorker, ForgetProject
  <2>4. QED
    BY <2>1, <2>2, <2>3 DEF Next, vars
<1>3. open' = open \/ open' = TRUE \/ open' = FALSE
  <2>1. CASE ReadStep
    BY <2>1 DEF ReadStep, EditObjects, CloseDesign, CreateDesign, OtherCommand, BeginRead,
       Continue, Answer
  <2>2. CASE UNCHANGED readVars \/ LoseWorker
    BY <2>2 DEF readVars, LoseWorker, ForgetReads
  <2>3. QED
    BY <2>1, <2>2 DEF Next, vars
<1>4. client' = client
  <2>1. CASE SolveStep
    BY <2>1 DEF SolveStep, Solver, Clock, Start, WriteLate, SolveBegins, SolveEnds, GraceEnds,
       OthersSolve, PreviewStart, Status, PreviewExport, ApplyExport, TakeSnapshot, Analyze,
       RecordStart, PreviewCancel, ApplyCancel
  <2>2. QED
    BY <2>1 DEF Next, vars, LoseWorker
<1>5. QED
  BY <1>1, <1>2, <1>3, <1>4

LEMMA NextInv == IInv /\ [Next]_vars => IInv'
<1> SUFFICES ASSUME IInv, [Next]_vars PROVE IInv'
  OBVIOUS
<1>1. ProjectInv /\ ReadInv /\ SolveInv
  BY TypesSplit DEF IInv, SolveInv
<1>2. ProjectInv' /\ ReadInv' /\ SolveInv'
  <2>1. CASE client = "files" /\ ProjectStep /\ UNCHANGED <<client, solveVars, readVars>>
    BY <1>1, <2>1, ProjectStepKeeps, KeepReads, KeepSolves
  <2>2. CASE client = "solves" /\ SolveStep /\ UNCHANGED readVars
    <3>1. UNCHANGED projectVars
      BY <2>2 DEF SolveStep, Solver, Clock, Start, WriteLate, SolveBegins, SolveEnds, GraceEnds,
         OthersSolve, PreviewStart, Status, PreviewExport, ApplyExport, TakeSnapshot, Analyze,
         RecordStart, PreviewCancel, ApplyCancel
    <3>2. QED
      BY <1>1, <2>2, <3>1, KeepProject, KeepReads, SolveStepKeeps
  <2>3. CASE client = "reads" /\ ReadStep /\ UNCHANGED <<client, projectVars, solveVars>>
    BY <1>1, <2>3, KeepProject, ReadStepKeeps, KeepSolves
  <2>4. CASE LoseWorker
    BY <1>1, <2>4, ForgetProjectKeeps, ForgetReadsKeeps, ForgetSolves DEF LoseWorker
  <2>5. CASE UNCHANGED vars
    BY <1>1, <2>5, KeepProject, KeepReads, KeepSolves DEF vars
  <2>6. QED
    BY <2>1, <2>2, <2>3, <2>4, <2>5 DEF Next
<1>3. {saving', open'} \subseteq BOOLEAN /\ client' \in Clients
  BY BooleansKeep, TypesSplit DEF IInv
<1>4. TypeOK'
  BY <1>2, <1>3
     DEF ProjectInv, ReadInv, SolveInv, TypeOK, SolveTypes, Previews, StartCalls
<1>5. QED
  BY <1>2, <1>4 DEF IInv, SolveInv

\* The types and what is behind the three results hold in every state.
THEOREM Invariance == Spec => []IInv
BY InitInv, NextInv, PTL DEF Spec

\* solve_success_verified is said of a run only when a simulation that was under way
\* after its start has ended, and never of one that was canceled before; and of a setup
\* that had no solution at the run's snapshot only after a solve of it has succeeded,
\* whatever others solve, whenever files come and whatever call fails
\* (hfss_analysis_status).
THEOREM FreshRuns == Spec => []FreshHasEnded
<1>1. IInv => FreshHasEnded
  BY DEF IInv
<1>2. QED
  BY <1>1, Invariance, PTL

\* No script runs without a backup every part of which was saved after its call had
\* begun, and no two runs have the same backup, whichever days the previews are made
\* (open_aedt_python).
THEOREM ScriptsAreBackedUp == Spec => []ScriptBackedUp
<1>1. IInv => ScriptBackedUp
  BY DEF IInv, ProjectInv
<1>2. QED
  BY <1>1, Invariance, PTL

\* An inventory that says nothing is missing has every object that stayed, whatever
\* collections fail, for every read command of the table (execute).
THEOREM ReadsAreHonest == Spec => []MissingIsSaid
<1>1. IInv => MissingIsSaid
  <2> SUFFICES ASSUME ReadInv, read.at = "answered", started # "kept",
                      NEW i \in 1 .. Len(read.command.sections)
               PROVE  i \in 1 .. (read.next - 1)
    BY DEF IInv, ReadInv, SaidSoFar, MissingIsSaid
  <2>1. ~(read.next <= Len(read.command.sections)) /\ read.next \in 1 .. 6
    BY DEF ReadInv, ReadTypeOK, More
  <2>2. Len(read.command.sections) \in 0 .. 5
    BY SectionTable DEF ReadInv, ReadTypeOK, Fits
  <2>3. QED
    BY <2>1, <2>2
<1>2. QED
  BY <1>1, Invariance, PTL
=============================================================================
