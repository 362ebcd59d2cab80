------------------------ MODULE ArtifactStoresProofs ------------------------
(***************************************************************************)
(* Proofs that an image in use is never removed, for every number of       *)
(* images, VMs, template builders, removers and operators:                 *)
(* SharedImageStays and TemplateImageStays. The two rest on separate       *)
(* invariants: VmInv is about the markers of running VMs and the list the  *)
(* sweep of Backend::new works from, BuildInv about the coordination lock, *)
(* the index and the checks of `image rm`.                                 *)
(***************************************************************************)
EXTENDS ArtifactStores, TLAPS

ImageStates == {"absent", "dir", "full", "torn"}
VmStates == {"idle", "dir", "resolved", "held", "up", "dead"}
BuilderStates ==
    {"idle", "guarded", "captured", "renamed", "commit_write", "pin", "pinned", "pin_write",
     "evict", "evicting", "holding"}

\* A launch or a VM of this process tree is behind the run directory.
Active(v) == vm[v] \in {"dir", "resolved", "held", "up"}

VmTypes ==
    /\ img \in [Digests -> ImageStates]
    /\ refs \subseteq Digests \X Vms
    /\ dirs \subseteq Vms
    /\ vm \in [Vms -> VmStates]

\* The marker of a VM that got it is there until the VM ends.
MarkerHeld(v) == vm[v] \in {"held", "up"} /\ v \notin exposed => <<Layer[v], v>> \in refs

\* The sweep keeps what it listed, and it listed every launch that is not exposed.
SweepSpares(v) == sweep = "listed" /\ Active(v) /\ v \notin exposed => v \in live

VmInv ==
    /\ VmTypes
    /\ \A v \in Vms : (Active(v) => v \in dirs) /\ MarkerHeld(v) /\ SweepSpares(v)
    /\ SharedImageStays

-----------------------------------------------------------------------------
(* Images under VMs.                                                        *)

\* What a store operation may do to the images: an import never takes a full one
\* away, a removal takes only an unmarked one.
ImagesKept ==
    /\ img' \in [Digests -> ImageStates]
    /\ \A d \in Digests : img[d] = "full" /\ Marked(d) => img'[d] = "full"

\* ImportExisting keeps full images.
LEMMA ImportKeeps ==
    ASSUME VmTypes, NEW d \in Digests, ImportExisting(d)
    PROVE  ImagesKept /\ \A e \in Digests : img[e] = "full" => img'[e] = "full"
BY DEF VmTypes, ImportExisting, ImagesKept, ImageStates

\* remove changes one image, and only a full one without markers.
LEMMA RemoveKeeps ==
    ASSUME VmTypes, NEW d \in Digests, Removable(d), Remove(d)
    PROVE  ImagesKept /\ ~Marked(d) /\ \A e \in Digests \ {d} : img'[e] = img[e]
BY DEF VmTypes, Removable, Remove, ImagesKept, ImageStates

\* A step of the store that leaves the VMs and the markers alone keeps the invariant.
LEMMA StoreKeepsVms ==
    ASSUME VmInv, ImagesKept, UNCHANGED <<refs, vmVars>>
    PROVE  VmInv'
<1>1. VmTypes' BY DEF VmInv, VmTypes, ImagesKept, vmVars
<1>2. \A v \in Vms : (Active(v) => v \in dirs)' /\ MarkerHeld(v)' /\ SweepSpares(v)'
  BY DEF VmInv, Active, MarkerHeld, SweepSpares, vmVars
<1>3. SharedImageStays'
  <2> SUFFICES ASSUME NEW v \in Vms, vm'[v] = "up", v \notin exposed'
               PROVE  img'[Layer[v]] = "full"
      BY DEF SharedImageStays
  <2>1. vm[v] = "up" /\ v \notin exposed /\ img[Layer[v]] = "full"
    BY DEF vmVars, VmInv, SharedImageStays
  <2>2. Marked(Layer[v]) BY <2>1 DEF VmInv, MarkerHeld, Marked
  <2> QED BY <2>1, <2>2, StoresAssumption DEF ImagesKept
<1> QED BY <1>1, <1>2, <1>3 DEF VmInv

\* The steps of one VM keep the invariant of all.
LEMMA VmStepKeepsVms ==
    ASSUME VmInv, NEW v \in Vms,
           \/ MakeRunDir(v) \/ ResolveShared(v) \/ AcquireSharedRef(v) \/ StartVm(v)
           \/ LaunchFails(v) \/ StopVm(v) \/ ProcessDies(v)
    PROVE  VmInv'
<1> USE StoresAssumption DEF VmInv, VmTypes, VmStates
<1>1. CASE MakeRunDir(v)
  BY <1>1 DEF MakeRunDir, imgVars, Active, MarkerHeld, SweepSpares, SharedImageStays
<1>2. CASE ResolveShared(v)
  BY <1>2 DEF ResolveShared, imgVars, Active, MarkerHeld, SweepSpares, SharedImageStays
<1>3. CASE AcquireSharedRef(v)
  BY <1>3 DEF AcquireSharedRef, Active, MarkerHeld, SweepSpares, SharedImageStays
<1>4. CASE StartVm(v)
  BY <1>4 DEF StartVm, imgVars, Active, MarkerHeld, SweepSpares, SharedImageStays
<1>5. CASE LaunchFails(v)
  BY <1>5 DEF LaunchFails, imgVars, Active, MarkerHeld, SweepSpares, SharedImageStays
<1>6. CASE StopVm(v)
  BY <1>6 DEF StopVm, imgVars, Active, MarkerHeld, SweepSpares, SharedImageStays
<1>7. CASE ProcessDies(v)
  BY <1>7 DEF ProcessDies, imgVars, Active, MarkerHeld, SweepSpares, SharedImageStays
<1> QED BY <1>1, <1>2, <1>3, <1>4, <1>5, <1>6, <1>7

\* Listing and sweeping keep the markers of the VMs that are not exposed.
LEMMA SweepKeepsVms ==
    ASSUME VmInv, ListRunDirs \/ SweepSharedRefs
    PROVE  VmInv'
<1> USE StoresAssumption DEF VmInv, VmTypes, VmStates
<1>1. CASE ListRunDirs
  BY <1>1 DEF ListRunDirs, imgVars, Active, MarkerHeld, SweepSpares, SharedImageStays
<1>2. CASE SweepSharedRefs
  <2>1. \A v \in Vms : MarkerHeld(v)'
    BY <1>2 DEF SweepSharedRefs, Active, MarkerHeld, SweepSpares
  <2> QED BY <1>2, <2>1 DEF SweepSharedRefs, Active, SweepSpares, SharedImageStays
<1> QED BY <1>1, <1>2

\* Builders and template removers touch neither images nor VMs, nor do a scan and
\* the ends of a gc.
LEMMA TemplateStepsApart ==
    ASSUME \/ \E b \in Builders :
                 \/ Lookup(b) \/ Capture(b) \/ GiveUp(b) \/ CommitRename(b) \/ ReadIndex(b)
                 \/ WriteIndex(b) \/ Pin(b) \/ PinFails(b) \/ Evict(b) \/ EvictDone(b) \/ Unpin(b)
           \/ \E r \in Removers : RemoveTemplate(r) \/ ReadIndexToRemove(r) \/ WriteIndexRemoved(r)
           \/ \E o \in Operators : CheckReferences(o)
           \/ GcPlan \/ GcEnds \/ UNCHANGED vars
    PROVE  UNCHANGED <<img, refs, vmVars>>
BY DEF Lookup, Capture, GiveUp, CommitRename, ReadIndex, WriteIndex, Pin, PinFails, Evict,
       EvictDone, Unpin, RemoveTemplate, ReadIndexToRemove, WriteIndexRemoved, CheckReferences,
       GcPlan, GcEnds, vars, imgVars

\* A removal by `image rm` or gc is either none or a remove of a removable image.
LEMMA RemovalCases ==
    ASSUME \/ \E o \in Operators : RemoveImage(o)
           \/ \E d \in Digests : GcRemove(d)
    PROVE  /\ UNCHANGED <<refs, vmVars>>
           /\ \/ UNCHANGED img
              \/ \E d \in Digests : Removable(d) /\ Remove(d)
BY StoresAssumption DEF RemoveImage, GcRemove

\* Every step keeps VmInv.
LEMMA VmInvStep ==
    ASSUME VmInv, [Next]_vars
    PROVE  VmInv'
<1>1. CASE \E d \in Digests : ImportExisting(d)
  BY <1>1, ImportKeeps, StoreKeepsVms DEF VmInv, ImportExisting
<1>2. CASE \/ \E o \in Operators : RemoveImage(o)
           \/ \E d \in Digests : GcRemove(d)
  <2>1. UNCHANGED <<refs, vmVars>> BY <1>2, RemovalCases
  <2>2. ImagesKept
    BY <1>2, RemovalCases, RemoveKeeps DEF VmInv, VmTypes, ImagesKept
  <2> QED BY <2>1, <2>2, StoreKeepsVms
<1>3. CASE \E v \in Vms : \/ MakeRunDir(v) \/ ResolveShared(v) \/ AcquireSharedRef(v)
                          \/ StartVm(v) \/ LaunchFails(v) \/ StopVm(v) \/ ProcessDies(v)
  BY <1>3, VmStepKeepsVms
<1>4. CASE ListRunDirs \/ SweepSharedRefs
  BY <1>4, SweepKeepsVms
<1>5. CASE UNCHANGED <<img, refs, vmVars>>
  BY <1>5, StoreKeepsVms DEF VmInv, VmTypes, ImagesKept
<1> QED BY <1>1, <1>2, <1>3, <1>4, <1>5, TemplateStepsApart DEF Next

\* The image a running VM was launched over stays in the store whatever `image
\* rm`, gc, dying processes and other VMs do, unless its directory was made in
\* the window between the list and the sweep of a starting backend.
THEOREM SharedImageKept == Spec => []SharedImageStays
<1>1. Init => VmInv
  BY DEF Init, VmInv, VmTypes, ImageStates, VmStates, Active, MarkerHeld, SweepSpares,
         SharedImageStays
<1>2. VmInv /\ [Next]_vars => VmInv'
  BY VmInvStep
<1>3. VmInv => SharedImageStays
  BY DEF VmInv
<1> QED BY <1>1, <1>2, <1>3, PTL DEF Spec

-----------------------------------------------------------------------------
(* Images under templates.                                                  *)

BuildTypes ==
    /\ img \in [Digests -> ImageStates]
    /\ body \subseteq Templates
    /\ b_pc \in [Builders -> BuilderStates]
    /\ o_pc \in [Operators -> {"idle", "checked"}]

\* From the lookup to the index entry a builder holds the coordination lock, and
\* gc holds it against all of them.
LockInv ==
    /\ \A b \in Builders :
          b_pc[b] \in {"guarded", "captured", "renamed", "commit_write"} => b \in readers
    /\ gc = "locked" => readers = {}

\* A committed template is in the index, or its builder is about to put it there.
Indexed(t) ==
    t \in index \/ \E b \in Builders : Builds[b] = t /\ b_pc[b] \in {"renamed", "commit_write"}

\* While the history is clean: the index misses nothing that has no builder, no
\* `image rm` is under way beside a build or against a committed template, and
\* what was captured, or committed, has its image.
CleanInv ==
    /\ \A t \in body : Indexed(t)
    /\ readers # {} => \A o \in Operators : o_pc[o] = "idle"
    /\ \A o \in Operators : o_pc[o] = "checked" => \A t \in body : Base[t] # o
    /\ \A b \in Builders : b_pc[b] = "captured" => img[Base[Builds[b]]] = "full"
    /\ \A t \in body : img[Base[t]] = "full"

BuildInv == BuildTypes /\ LockInv /\ (clean => CleanInv)

\* Every builder builds a template.
LEMMA BuildsTemplate == \A b \in Builders : Builds[b] \in Templates
BY DEF Templates

\* Each step of a builder keeps the invariant.
LEMMA BuilderStep ==
    ASSUME BuildInv, NEW b \in Builders,
           \/ Lookup(b) \/ Capture(b) \/ GiveUp(b) \/ CommitRename(b) \/ ReadIndex(b)
           \/ WriteIndex(b) \/ Pin(b) \/ PinFails(b) \/ Evict(b) \/ EvictDone(b) \/ Unpin(b)
    PROVE  BuildInv'
<1> USE BuildsTemplate, StoresAssumption
    DEF BuildInv, BuildTypes, LockInv, CleanInv, Indexed, BuildStep, Unlock, BuilderStates,
        imgVars, operatorVars, gcVars, builderVars
<1>1. CASE Lookup(b)
  <2>1. CASE b_pc[b] = "idle" /\ b_pc' = [b_pc EXCEPT ![b] = "pin"] /\ UNCHANGED <<readers, clean>>
    BY <1>1, <2>1 DEF Lookup
  <2>2. CASE /\ gc = "idle" /\ b_pc[b] = "idle" /\ b_pc' = [b_pc EXCEPT ![b] = "guarded"]
             /\ readers' = readers \cup {b}
             /\ clean' = (clean /\ \A o \in Operators : o_pc[o] = "idle")
    <3>1. UNCHANGED <<img, body, index, o_pc, gc>> BY <1>1 DEF Lookup
    <3>2. BuildTypes' /\ LockInv' BY <2>2, <3>1
    <3>3. \A t \in body : Indexed(t) => Indexed(t)'
      BY <2>2, <3>1
    <3>4. \A c \in Builders : b_pc'[c] = "captured" => b_pc[c] = "captured"
      BY <2>2
    <3>5. clean' => clean /\ \A o \in Operators : o_pc[o] = "idle"
      BY <2>2
    <3>6. clean' => CleanInv'
      BY <3>1, <3>3, <3>4, <3>5
    <3> QED BY <3>2, <3>6
  <2> QED BY <1>1, <2>1, <2>2 DEF Lookup
<1>2. CASE Capture(b) BY <1>2 DEF Capture
<1>3. CASE GiveUp(b) BY <1>3 DEF GiveUp
<1>4. CASE CommitRename(b) BY <1>4 DEF CommitRename
<1>5. CASE ReadIndex(b) BY <1>5 DEF ReadIndex
<1>6. CASE WriteIndex(b)
  <2>1. UNCHANGED <<img, body, readers, o_pc, gc>> BY <1>6 DEF WriteIndex
  <2>2. \E to \in BuilderStates \ {"guarded", "captured", "renamed", "commit_write"} :
           b_pc' = [b_pc EXCEPT ![b] = to]
    BY <1>6 DEF WriteIndex
  <2>3. BuildTypes' /\ LockInv' BY <2>1, <2>2
  <2>4. ASSUME clean', NEW t \in body' PROVE Indexed(t)'
    <3>1. clean /\ (index \ index') \cap body = {} BY <1>6, <2>4 DEF WriteIndex, KeepsEntries
    <3>2. CASE t \in index BY <2>1, <2>4, <3>1, <3>2
    <3>3. CASE t = Builds[b] BY <1>6, <3>3 DEF WriteIndex
    <3>4. CASE \E c \in Builders \ {b} : Builds[c] = t /\ b_pc[c] \in {"renamed", "commit_write"}
      BY <2>2, <3>4
    <3> QED BY <2>1, <2>4, <3>1, <3>2, <3>3, <3>4
  <2>5. clean' => clean BY <1>6 DEF WriteIndex
  <2>6. clean' => CleanInv' BY <2>1, <2>2, <2>4, <2>5
  <2> QED BY <2>3, <2>6
<1>7. CASE Pin(b) BY <1>7 DEF Pin
<1>8. CASE PinFails(b) BY <1>8 DEF PinFails
<1>9. CASE Evict(b) BY <1>9 DEF Evict
<1>10. CASE EvictDone(b) BY <1>10 DEF EvictDone, KeepsEntries
<1>11. CASE Unpin(b) BY <1>11 DEF Unpin
<1> QED BY <1>1, <1>2, <1>3, <1>4, <1>5, <1>6, <1>7, <1>8, <1>9, <1>10, <1>11

\* Each step of a template remover keeps the invariant.
LEMMA RemoverStep ==
    ASSUME BuildInv, NEW r \in Removers,
           RemoveTemplate(r) \/ ReadIndexToRemove(r) \/ WriteIndexRemoved(r)
    PROVE  BuildInv'
<1> USE StoresAssumption
    DEF BuildInv, BuildTypes, LockInv, CleanInv, Indexed, imgVars, operatorVars, gcVars, builderVars
<1>1. CASE RemoveTemplate(r) BY <1>1 DEF RemoveTemplate
<1>2. CASE ReadIndexToRemove(r) BY <1>2 DEF ReadIndexToRemove
<1>3. CASE WriteIndexRemoved(r) BY <1>3 DEF WriteIndexRemoved, KeepsEntries
<1> QED BY <1>1, <1>2, <1>3

\* A scan, a removal and gc keep the invariant: what they remove is the base of
\* no committed template.
LEMMA OperatorStep ==
    ASSUME BuildInv,
           \/ \E o \in Operators : CheckReferences(o) \/ RemoveImage(o)
           \/ GcPlan \/ GcEnds
           \/ \E d \in Digests : GcRemove(d) \/ ImportExisting(d)
    PROVE  BuildInv'
<1> USE StoresAssumption
    DEF BuildInv, BuildTypes, LockInv, CleanInv, Indexed, imgVars, operatorVars, gcVars, builderVars
<1>1. ASSUME NEW o \in Operators, CheckReferences(o) PROVE BuildInv'
  BY <1>1 DEF CheckReferences, Referenced
<1>2. ASSUME NEW o \in Operators, RemoveImage(o) PROVE BuildInv'
  BY <1>2 DEF RemoveImage, Remove, Removable, ImageStates
<1>3. CASE GcPlan BY <1>3 DEF GcPlan
<1>4. CASE GcEnds BY <1>4 DEF GcEnds
<1>5. ASSUME NEW d \in Digests, GcRemove(d) PROVE BuildInv'
  BY <1>5 DEF GcRemove, Remove, Removable, Referenced, ImageStates
<1>6. ASSUME NEW d \in Digests, ImportExisting(d) PROVE BuildInv'
  <2>1. UNCHANGED <<body, index, readers, b_pc, o_pc, gc, clean>>
    BY <1>6 DEF ImportExisting
  <2>2. /\ img' \in [Digests -> ImageStates]
        /\ \A e \in Digests : img[e] = "full" => img'[e] = "full"
    BY <1>6 DEF ImportExisting, ImageStates
  <2>3. \A t \in Templates : Base[t] \in Digests OBVIOUS
  <2> QED BY <2>1, <2>2, <2>3, BuildsTemplate
<1> QED BY <1>1, <1>2, <1>3, <1>4, <1>5, <1>6

\* VMs and the sweep change nothing the templates rest on.
LEMMA VmStepsApart ==
    ASSUME \/ \E v \in Vms : \/ MakeRunDir(v) \/ ResolveShared(v) \/ AcquireSharedRef(v)
                             \/ StartVm(v) \/ LaunchFails(v) \/ StopVm(v) \/ ProcessDies(v)
           \/ ListRunDirs \/ SweepSharedRefs \/ UNCHANGED vars
    PROVE  UNCHANGED <<img, body, index, builderVars, operatorVars, gcVars, clean>>
BY DEF MakeRunDir, ResolveShared, AcquireSharedRef, StartVm, LaunchFails, StopVm, ProcessDies,
       ListRunDirs, SweepSharedRefs, vars, imgVars

\* Every step keeps BuildInv.
LEMMA BuildInvStep ==
    ASSUME BuildInv, [Next]_vars
    PROVE  BuildInv'
<1>1. CASE UNCHANGED <<img, body, index, builderVars, operatorVars, gcVars, clean>>
  BY <1>1 DEF BuildInv, BuildTypes, LockInv, CleanInv, Indexed, builderVars, operatorVars, gcVars
<1> QED BY <1>1, VmStepsApart, BuilderStep, RemoverStep, OperatorStep DEF Next

\* While no index entry was lost, no build died unindexed and no `image rm`
\* overlapped a build, every committed template keeps the image it is restored
\* over: the coordination lock and the index are enough for gc, however the
\* builds, the removals and the evictions interleave.
THEOREM TemplateImageKept == Spec => []TemplateImageStays
<1>1. Init => BuildInv
  BY DEF Init, BuildInv, BuildTypes, LockInv, CleanInv, Indexed, ImageStates, BuilderStates
<1>2. BuildInv /\ [Next]_vars => BuildInv'
  BY BuildInvStep
<1>3. BuildInv => TemplateImageStays
  BY DEF BuildInv, CleanInv, TemplateImageStays
<1> QED BY <1>1, <1>2, <1>3, PTL DEF Spec
=============================================================================
