--------------------------- MODULE ArtifactStores ---------------------------
(***************************************************************************)
(* The image store, the snapshot-template store, and who uses them: VMs    *)
(* that share an image, template builds, `m80 image rm` and `gc`, template *)
(* removal and eviction, and the sweep of Backend::new. Every operation of *)
(* the image store runs under its flock and is one step here, except that  *)
(* the process may die in the middle of it, which leaves the prefix it had *)
(* done. The template store has no lock: its steps are separate.           *)
(***************************************************************************)
EXTENDS Naturals, FiniteSets

CONSTANTS
    Digests,    \* images
    Vms,        \* vm_ids that may be launched with one shared image
    Layer,      \* the image of a VM
    Builders,   \* processes that look up or build a template
    Builds,     \* the template of a builder
    Base,       \* the image a template is restored over
    Removers,   \* templates that some process runs `m80 template rm` on
    Operators,  \* images that some process runs `m80 image rm` on
    Capacity,   \* capacity of the template store
    MaxCrashes  \* bound: processes that die in the middle of an operation

Templates == {Builds[b] : b \in Builders}

ASSUME StoresAssumption ==
    /\ Layer \in [Vms -> Digests]
    /\ Base \in [Templates -> Digests]
    /\ Removers \subseteq Templates /\ Operators \subseteq Digests
    /\ Capacity \in Nat \ {0} /\ MaxCrashes \in Nat

VARIABLES
    img,     \* entry of a digest: "absent", "dir" (no metadata), "full",
             \* "torn" (metadata without artifact)
    refs,    \* shared-image markers <<digest, vm>>
    dirs,    \* run directories under the run root
    vm,      \* "idle", "dir", "resolved", "held", "up", "dead"
    sweep,   \* the starting backend: "idle" or "listed"
    live,    \* the run directories it listed
    body,    \* committed template directories
    index,   \* templates in index.json
    readers, \* builders that hold the coordination lock shared
    b_pc, b_index, pins,   \* a builder: position, index it read, templates it pinned
    r_pc, r_index,         \* a template remover
    o_pc,                  \* an image remover
    gc, plan,              \* image gc: position and candidates left
    crashes,
    exposed, \* history: VMs whose directory was made between a backend's list and its sweep
    clean    \* history: no index entry was lost, no build died unindexed and no
             \* `image rm` overlapped a build

imgVars == <<img, refs>>
vmVars == <<dirs, vm, sweep, live, exposed>>
builderVars == <<readers, b_pc, b_index, pins>>
removerVars == <<r_pc, r_index>>
operatorVars == <<o_pc>>
gcVars == <<gc, plan>>
vars == <<imgVars, vmVars, body, index, builderVars, removerVars, operatorVars, gcVars, crashes, clean>>

Init ==
    /\ img = [d \in Digests |-> "absent"]
    /\ refs = {} /\ dirs = {} /\ vm = [v \in Vms |-> "idle"]
    /\ sweep = "idle" /\ live = {}
    /\ body = {} /\ index = {}
    /\ readers = {} /\ b_pc = [b \in Builders |-> "idle"]
    /\ b_index = [b \in Builders |-> {}] /\ pins = [b \in Builders |-> {}]
    /\ r_pc = [r \in Removers |-> "idle"] /\ r_index = [r \in Removers |-> {}]
    /\ o_pc = [o \in Operators |-> "idle"]
    /\ gc = "idle" /\ plan = {} /\ crashes = 0
    /\ exposed = {} /\ clean = TRUE

-----------------------------------------------------------------------------
(* The image store, each operation under its flock.                         *)

\* read_metadata succeeds.
Known(d) == img[d] \in {"full", "torn"}

Marked(d) == \E v \in Vms : <<d, v>> \in refs

\* import_existing: directories, artifact, metadata. A failure or a death on the
\* way leaves an entry without metadata; the next import completes it.
ImportExisting(d) ==
    /\ \/ img' = [img EXCEPT ![d] = "full"]
       \/ img[d] = "absent" /\ img' = [img EXCEPT ![d] = "dir"]
    /\ UNCHANGED <<refs, vmVars, body, index, builderVars, removerVars, operatorVars, gcVars, crashes, clean>>

\* Mutant: remove does not look at the markers.
RemovableAny(d) == img[d] = "full"

\* remove refuses a marked image and one whose records cannot be read.
Removable(d) == ~Marked(d) /\ img[d] = "full"

\* The artifact goes before the metadata.
Remove(d) ==
    \/ img' = [img EXCEPT ![d] = "absent"] /\ UNCHANGED crashes
    \/ /\ crashes < MaxCrashes
       /\ img' = [img EXCEPT ![d] = "torn"]
       /\ crashes' = crashes + 1

\* list fails on an entry it cannot describe.
Listable == \A d \in Digests : img[d] \in {"absent", "full"}

-----------------------------------------------------------------------------
(* A VM with a shared image.                                                *)

\* Launch makes the run directory before it prepares storage.
MakeRunDir(v) ==
    /\ vm[v] = "idle" /\ v \notin dirs
    /\ dirs' = dirs \cup {v}
    /\ vm' = [vm EXCEPT ![v] = "dir"]
    /\ exposed' = IF sweep = "listed" THEN exposed \cup {v} ELSE exposed
    /\ UNCHANGED <<imgVars, sweep, live, body, index, builderVars, removerVars, operatorVars, gcVars, crashes, clean>>

\* resolve_as opens the artifact and gives its path; the lock is let go.
ResolveShared(v) ==
    /\ vm[v] = "dir" /\ img[Layer[v]] = "full"
    /\ vm' = [vm EXCEPT ![v] = "resolved"]
    /\ UNCHANGED <<imgVars, dirs, sweep, live, exposed, body, index, builderVars, removerVars, operatorVars, gcVars, crashes, clean>>

\* acquire_shared_ref reads the metadata again, not the artifact, and creates
\* the marker exclusively.
AcquireSharedRef(v) ==
    /\ vm[v] = "resolved"
    /\ Known(Layer[v]) /\ <<Layer[v], v>> \notin refs
    /\ refs' = refs \cup {<<Layer[v], v>>}
    /\ vm' = [vm EXCEPT ![v] = "held"]
    /\ UNCHANGED <<img, dirs, sweep, live, exposed, body, index, builderVars, removerVars, operatorVars, gcVars, crashes, clean>>

\* Firecracker opens the path.
StartVm(v) ==
    /\ vm[v] = "held" /\ img[Layer[v]] = "full"
    /\ vm' = [vm EXCEPT ![v] = "up"]
    /\ UNCHANGED <<imgVars, dirs, sweep, live, exposed, body, index, builderVars, removerVars, operatorVars, gcVars, crashes, clean>>

\* A launch that fails removes its run directory. A SharedImageRef has no
\* Drop: if storage was prepared the marker stays.
LaunchFails(v) ==
    /\ vm[v] \in {"dir", "resolved", "held", "up"}
    /\ dirs' = dirs \ {v}
    /\ vm' = [vm EXCEPT ![v] = "idle"]
    /\ exposed' = exposed \ {v}
    /\ UNCHANGED <<imgVars, sweep, live, body, index, builderVars, removerVars, operatorVars, gcVars, crashes, clean>>

\* stop: release_shared_ref_marker after the jail is gone; delete takes the
\* directory. A marker that is gone makes stop fail, with the directory kept.
StopVm(v) ==
    /\ vm[v] = "up"
    /\ refs' = refs \ {<<Layer[v], v>>}
    /\ dirs' = IF <<Layer[v], v>> \in refs THEN dirs \ {v} ELSE dirs
    /\ vm' = [vm EXCEPT ![v] = IF <<Layer[v], v>> \in refs THEN "idle" ELSE "dead"]
    /\ exposed' = exposed \ {v}
    /\ UNCHANGED <<img, sweep, live, body, index, builderVars, removerVars, operatorVars, gcVars, crashes, clean>>

\* The m80 process and its VM die; directory and marker stay.
ProcessDies(v) ==
    /\ vm[v] \in {"dir", "resolved", "held", "up"} /\ crashes < MaxCrashes
    /\ vm' = [vm EXCEPT ![v] = "dead"]
    /\ crashes' = crashes + 1
    /\ exposed' = exposed \ {v}
    /\ UNCHANGED <<imgVars, dirs, sweep, live, body, index, builderVars, removerVars, operatorVars, gcVars, clean>>

\* Backend::new: recovery removes the directories of dead VMs, then the live
\* ones are listed, before the store lock is taken.
ListRunDirs ==
    /\ sweep = "idle"
    /\ dirs' = {v \in dirs : vm[v] # "dead"}
    /\ vm' = [v \in Vms |-> IF vm[v] = "dead" THEN "idle" ELSE vm[v]]
    /\ live' = {v \in dirs : vm[v] # "dead"}
    /\ sweep' = "listed"
    /\ UNCHANGED <<imgVars, exposed, body, index, builderVars, removerVars, operatorVars, gcVars, crashes, clean>>

\* Mutant: the sweep takes every marker.
SweepAll ==
    /\ sweep = "listed"
    /\ refs' = {}
    /\ sweep' = "idle" /\ live' = {}
    /\ UNCHANGED <<img, dirs, vm, exposed, body, index, builderVars, removerVars, operatorVars, gcVars, crashes, clean>>

\* sweep_shared_refs, under the store lock, with the list from before.
SweepSharedRefs ==
    /\ sweep = "listed"
    /\ refs' = {m \in refs : m[2] \in live}
    /\ sweep' = "idle" /\ live' = {}
    /\ UNCHANGED <<img, dirs, vm, exposed, body, index, builderVars, removerVars, operatorVars, gcVars, crashes, clean>>

-----------------------------------------------------------------------------
(* A template build: lookup_or_build_template.                              *)

\* (History.) The write of index.json keeps every committed template.
KeepsEntries == (index \ index') \cap body = {}

BuildStep(b, from, to) == b_pc[b] = from /\ b_pc' = [b_pc EXCEPT ![b] = to]

Unlock(b) == readers' = readers \ {b}

\* Mutant: the build does not take the coordination lock.
LookupUnguarded(b) ==
    /\ \/ Builds[b] \in body /\ BuildStep(b, "idle", "pin")
       \/ Builds[b] \notin body /\ BuildStep(b, "idle", "guarded")
    /\ UNCHANGED <<imgVars, vmVars, body, index, readers, b_index, pins, removerVars, operatorVars, gcVars, crashes, clean>>

\* lookup: a committed directory is pinned, otherwise the build begins with
\* the coordination lock held shared.
Lookup(b) ==
    /\ \/ Builds[b] \in body /\ BuildStep(b, "idle", "pin") /\ UNCHANGED <<readers, clean>>
       \/ /\ Builds[b] \notin body /\ gc = "idle"
          /\ BuildStep(b, "idle", "guarded")
          /\ readers' = readers \cup {b}
          /\ clean' = (clean /\ \A o \in Operators : o_pc[o] = "idle")
    /\ UNCHANGED <<imgVars, vmVars, body, index, b_index, pins, removerVars, operatorVars, gcVars, crashes>>

\* reserve, launch over the image, capture into staging, stop and delete.
Capture(b) ==
    /\ img[Base[Builds[b]]] = "full"
    /\ BuildStep(b, "guarded", "captured")
    /\ UNCHANGED <<imgVars, vmVars, body, index, readers, b_index, pins, removerVars, operatorVars, gcVars, crashes, clean>>

\* A failure, or a template that another build committed first: staging is
\* removed and the lock released. A process that dies releases it too, and
\* its pins.
GiveUp(b) ==
    /\ \/ b_pc[b] \in {"guarded", "captured"} /\ UNCHANGED crashes
       \/ /\ b_pc[b] # "idle" /\ crashes < MaxCrashes
          /\ crashes' = crashes + 1
    /\ b_pc' = [b_pc EXCEPT ![b] = "idle"]
    /\ pins' = [pins EXCEPT ![b] = {}]
    /\ b_index' = [b_index EXCEPT ![b] = {}]
    /\ Unlock(b)
    /\ clean' = (clean /\ b_pc[b] \notin {"renamed", "commit_write"})
    /\ UNCHANGED <<imgVars, vmVars, body, index, removerVars, operatorVars, gcVars>>

\* commit: the staging directory becomes visible.
CommitRename(b) ==
    /\ Builds[b] \notin body
    /\ BuildStep(b, "captured", "renamed")
    /\ body' = body \cup {Builds[b]}
    /\ UNCHANGED <<imgVars, vmVars, index, readers, b_index, pins, removerVars, operatorVars, gcVars, crashes, clean>>

\* update_index reads ...
ReadIndex(b) ==
    /\ \/ BuildStep(b, "renamed", "commit_write")
       \/ BuildStep(b, "pinned", "pin_write")
       \/ BuildStep(b, "evict", "evicting") /\ b \in readers
    /\ b_index' = [b_index EXCEPT ![b] = index]
    /\ UNCHANGED <<imgVars, vmVars, body, index, readers, pins, removerVars, operatorVars, gcVars, crashes, clean>>

\* ... and writes what it read, with its entry. A hit ends here.
WriteIndex(b) ==
    /\ \/ BuildStep(b, "commit_write", "pin")
       \/ b \in readers /\ BuildStep(b, "pin_write", "evict")
       \/ b \notin readers /\ BuildStep(b, "pin_write", "holding")
    /\ index' = b_index[b] \cup {Builds[b]}
    /\ clean' = (clean /\ KeepsEntries)
    /\ b_index' = [b_index EXCEPT ![b] = {}]
    /\ UNCHANGED <<imgVars, vmVars, body, readers, pins, removerVars, operatorVars, gcVars, crashes>>

\* pin reads and checks the body, then counts the pin.
Pin(b) ==
    /\ Builds[b] \in body
    /\ BuildStep(b, "pin", "pinned")
    /\ pins' = [pins EXCEPT ![b] = {Builds[b]}]
    /\ UNCHANGED <<imgVars, vmVars, body, index, readers, b_index, removerVars, operatorVars, gcVars, crashes, clean>>

PinFails(b) ==
    /\ Builds[b] \notin body
    /\ BuildStep(b, "pin", "idle")
    /\ Unlock(b)
    /\ UNCHANGED <<imgVars, vmVars, body, index, b_index, pins, removerVars, operatorVars, gcVars, crashes, clean>>

\* evict_lru_to_capacity: templates that this process has not pinned.
Evict(b) ==
    /\ b_pc[b] = "evicting" /\ Cardinality(b_index[b]) > Capacity
    /\ \E t \in b_index[b] \ pins[b] :
          /\ body' = body \ {t}
          /\ b_index' = [b_index EXCEPT ![b] = @ \ {t}]
    /\ UNCHANGED <<imgVars, vmVars, index, readers, b_pc, pins, removerVars, operatorVars, gcVars, crashes, clean>>

EvictDone(b) ==
    /\ Cardinality(b_index[b]) <= Capacity
    /\ BuildStep(b, "evicting", "holding")
    /\ index' = b_index[b]
    /\ clean' = (clean /\ KeepsEntries)
    /\ b_index' = [b_index EXCEPT ![b] = {}]
    /\ Unlock(b)
    /\ UNCHANGED <<imgVars, vmVars, body, pins, removerVars, operatorVars, gcVars, crashes>>

Unpin(b) ==
    /\ BuildStep(b, "holding", "idle")
    /\ pins' = [pins EXCEPT ![b] = {}]
    /\ UNCHANGED <<imgVars, vmVars, body, index, readers, b_index, removerVars, operatorVars, gcVars, crashes, clean>>

-----------------------------------------------------------------------------
(* `m80 template rm`, in a process whose pin table is empty.                *)

RemoveTemplate(r) ==
    /\ r_pc[r] = "idle" /\ r \in body
    /\ body' = body \ {r}
    /\ r_pc' = [r_pc EXCEPT ![r] = "removed"]
    /\ UNCHANGED <<imgVars, vmVars, index, builderVars, r_index, operatorVars, gcVars, crashes, clean>>

ReadIndexToRemove(r) ==
    /\ r_pc[r] = "removed"
    /\ r_index' = [r_index EXCEPT ![r] = index]
    /\ r_pc' = [r_pc EXCEPT ![r] = "read"]
    /\ UNCHANGED <<imgVars, vmVars, body, index, builderVars, operatorVars, gcVars, crashes, clean>>

WriteIndexRemoved(r) ==
    /\ r_pc[r] = "read"
    /\ index' = r_index[r] \ {r}
    /\ clean' = (clean /\ KeepsEntries)
    /\ r_index' = [r_index EXCEPT ![r] = {}]
    /\ r_pc' = [r_pc EXCEPT ![r] = "idle"]
    /\ UNCHANGED <<imgVars, vmVars, body, builderVars, operatorVars, gcVars, crashes>>

-----------------------------------------------------------------------------
(* `m80 image rm` and `m80 image gc`.                                       *)

\* templates_referencing_image goes through the index and fails when the
\* manifest of an entry cannot be read.
ScanWorks == index \subseteq body
Referenced(d) == \E t \in index : Base[t] = d

CheckReferences(o) ==
    /\ o_pc[o] = "idle"
    /\ ScanWorks /\ ~Referenced(o)
    /\ o_pc' = [o_pc EXCEPT ![o] = "checked"]
    /\ clean' = (clean /\ readers = {})
    /\ UNCHANGED <<imgVars, vmVars, body, index, builderVars, removerVars, gcVars, crashes>>

RemoveImage(o) ==
    /\ o_pc[o] = "checked"
    /\ o_pc' = [o_pc EXCEPT ![o] = "idle"]
    /\ IF Removable(o) THEN Remove(o) ELSE UNCHANGED <<img, crashes>>
    /\ UNCHANGED <<refs, vmVars, body, index, builderVars, removerVars, gcVars, clean>>

\* gc --execute: the coordination lock is taken exclusively, then the plan is made.
GcPlan ==
    /\ gc = "idle" /\ readers = {}
    /\ Listable /\ ScanWorks
    /\ plan' = {d \in Digests : img[d] = "full" /\ ~Marked(d) /\ ~Referenced(d)}
    /\ gc' = "locked"
    /\ UNCHANGED <<imgVars, vmVars, body, index, builderVars, removerVars, operatorVars, crashes, clean>>

\* Each candidate is checked against the templates again; remove checks the
\* markers. An error ends the pass.
GcRemove(d) ==
    /\ gc = "locked" /\ d \in plan
    /\ IF ScanWorks /\ ~Referenced(d) /\ Removable(d)
       THEN /\ Remove(d)
            /\ \/ img'[d] = "torn" /\ plan' = {} /\ gc' = "idle"
               \/ img'[d] = "absent" /\ plan' = plan \ {d} /\ UNCHANGED gc
       ELSE plan' = {} /\ gc' = "idle" /\ UNCHANGED <<img, crashes>>
    /\ UNCHANGED <<refs, vmVars, body, index, builderVars, removerVars, operatorVars, clean>>

GcEnds ==
    /\ gc = "locked" /\ plan = {}
    /\ gc' = "idle"
    /\ UNCHANGED <<imgVars, vmVars, body, index, builderVars, removerVars, operatorVars, plan, crashes, clean>>

-----------------------------------------------------------------------------
Next ==
    \/ \E d \in Digests : ImportExisting(d) \/ GcRemove(d)
    \/ \E v \in Vms : MakeRunDir(v) \/ ResolveShared(v) \/ AcquireSharedRef(v) \/ StartVm(v) \/ LaunchFails(v) \/ StopVm(v) \/ ProcessDies(v)
    \/ ListRunDirs \/ SweepSharedRefs
    \/ \E b \in Builders :
          \/ Lookup(b) \/ Capture(b) \/ GiveUp(b) \/ CommitRename(b) \/ ReadIndex(b) \/ WriteIndex(b)
          \/ Pin(b) \/ PinFails(b) \/ Evict(b) \/ EvictDone(b) \/ Unpin(b)
    \/ \E r \in Removers : RemoveTemplate(r) \/ ReadIndexToRemove(r) \/ WriteIndexRemoved(r)
    \/ \E o \in Operators : CheckReferences(o) \/ RemoveImage(o)
    \/ GcPlan \/ GcEnds

Spec == Init /\ [][Next]_vars

-----------------------------------------------------------------------------
(* Properties.                                                              *)

\* The image a running VM was launched over stays in the store whatever `image
\* rm`, `gc`, a dying process and other VMs do: its marker is there until it
\* stops. The exception is a VM whose directory was made after a starting
\* backend listed the run root and before it swept the markers.
SharedImageStays ==
    \A v \in Vms : vm[v] = "up" /\ v \notin exposed => img[Layer[v]] = "full"

\* A committed template keeps the image it is restored over: gc and builds
\* exclude each other, and gc goes by the index. It needs the index to be
\* complete: an entry lost to a concurrent update, a builder that died between
\* rename and index, or `image rm`, which takes no lock, end it.
TemplateImageStays ==
    clean => \A t \in body : img[Base[t]] = "full"
=============================================================================
