------------------------------ MODULE Install ------------------------------
(***************************************************************************)
(* `m80 install` and `m80 install-cleanup` on one install root: planning,  *)
(* the install-state lock and its repair, staging, the version directory,  *)
(* the flat projection, the selectors (profile and config), the PATH       *)
(* handoff, the active pointer, and what each failure rolls back. Releases *)
(* are numbered in the order of their tags; 0 is none. bin_dir is not the  *)
(* install root's own bin directory.                                       *)
(***************************************************************************)
EXTENDS Naturals, Sequences, FiniteSets

CONSTANTS
    Installers,   \* processes
    MaxTag,       \* releases are 1..MaxTag
    Official,     \* installers whose bundle is an official release
    Repairers,    \* installers run with --repair-stale-install-lock
    Adopters,     \* installers run with --adopt-existing-config
    CleanupAlone, \* the operator runs install-cleanup only while nobody installs
    MaxDeaths     \* bound: installers that are killed

ASSUME InstallAssumption ==
    /\ MaxTag \in Nat \ {0} /\ MaxDeaths \in Nat
    /\ Official \subseteq Installers /\ Repairers \subseteq Installers /\ Adopters \subseteq Installers
    /\ CleanupAlone \in BOOLEAN
    /\ Installers \cap {"free", "unwritten"} = {}

Tags == 1..MaxTag

\* The managed paths of the flat projection, in the order they are replaced.
Parts == <<"bin", "artifacts", "metadata", "proof", "manifest">>
PartSet == {"bin", "artifacts", "metadata", "proof", "manifest"}

Operator == MaxTag + 1   \* a profile that the operator wrote

VARIABLES
    active,    \* target of the active pointer
    versions,  \* version directories
    flat,      \* the release of each flat part
    profile,   \* the release in default.toml
    config,    \* config.toml: "none", "ours", "operator"
    link,      \* what bin_dir/m80 leads to
    lock,      \* "free", "unwritten", or the installer in its record
    staging,   \* installers whose staging directory is there
    pc, tag, n,   \* an installer: position, target, next flat part
    saved,     \* what it can put back
    base, late,   \* history: the root when it took the lock; a late error
    cl, clTag  \* install-cleanup

rootVars == <<active, versions, flat, profile, config, link>>
selfVars == <<tag, n, saved, base, late>>
cleanupVars == <<cl, clTag>>
vars == <<rootVars, lock, staging, pc, selfVars, cleanupVars>>

Root == [active |-> active, versions |-> versions, flat |-> flat,
         profile |-> profile, config |-> config, link |-> link]

Uniform(t) == [x \in PartSet |-> t]

Nothing == [active |-> 0, versions |-> {}, flat |-> Uniform(0), profile |-> 0, config |-> "none", link |-> 0]

\* A fresh host, one with an operator's profile, and one with release 1.
Init ==
    /\ \/ active = 0 /\ versions = {} /\ flat = Uniform(0) /\ link = 0
          /\ profile = 0 /\ config = "none"
       \/ active = 0 /\ versions = {} /\ flat = Uniform(0) /\ link = 0
          /\ profile = Operator /\ config = "operator"
       \/ active = 1 /\ versions = {1} /\ flat = Uniform(1) /\ link = 1
          /\ profile = 1 /\ config = "ours"
    /\ lock = "free" /\ staging = {}
    /\ pc = [p \in Installers |-> "idle"]
    /\ tag = [p \in Installers |-> 1] /\ n = [p \in Installers |-> 1]
    /\ saved = [p \in Installers |-> Nothing] /\ base = [p \in Installers |-> Nothing]
    /\ late = [p \in Installers |-> FALSE]
    /\ cl = "idle" /\ clTag = 1

-----------------------------------------------------------------------------
Goto(p, from, to) == pc[p] = from /\ pc' = [pc EXCEPT ![p] = to]

Dead(p) == pc[p] = "dead"

\* What an installer knows goes with its process.
Forget(p) ==
    /\ tag' = [tag EXCEPT ![p] = 1] /\ n' = [n EXCEPT ![p] = 1]
    /\ saved' = [saved EXCEPT ![p] = Nothing] /\ base' = [base EXCEPT ![p] = Nothing]
    /\ late' = [late EXCEPT ![p] = FALSE]

\* Positions at which an installer holds the lock.
Inside == {"record", "staging", "extract", "published", "flat", "selector", "config", "gate",
           "handoff", "link", "verify", "flip", "rb_selector", "rb_flat", "rb_version",
           "installed", "already", "failed"}

\* install_plan: the transition from the active release is judged now, before
\* the lock. An unofficial bundle URL names no tag and is not judged.
Plan(p) ==
    /\ Goto(p, "idle", "planned")
    /\ \E t \in Tags :
          /\ p \in Official => t >= active
          /\ tag' = [tag EXCEPT ![p] = t]
    /\ UNCHANGED <<rootVars, lock, staging, n, saved, base, late, cleanupVars>>

\* validate_existing_active_pointer and the verification of release material.
Verify(p) ==
    /\ \/ (active = 0 \/ active \in versions) /\ Goto(p, "planned", "lock") /\ UNCHANGED selfVars
       \/ Goto(p, "planned", "idle") /\ Forget(p)
    /\ UNCHANGED <<rootVars, lock, staging, cleanupVars>>

-----------------------------------------------------------------------------
(* The install-state lock: a file made exclusively, then its record.        *)

CreateLock(p) ==
    /\ lock = "free" /\ (CleanupAlone => cl = "idle")
    /\ Goto(p, "lock", "record") \/ Goto(p, "recreate", "record")
    /\ lock' = "unwritten"
    /\ UNCHANGED <<rootVars, staging, selfVars, cleanupVars>>

\* A failure to write the record leaves the file without a guard.
WriteRecord(p) ==
    /\ \/ /\ Goto(p, "record", "staging") /\ lock' = p
          /\ base' = [base EXCEPT ![p] = Root] /\ UNCHANGED <<tag, n, saved, late>>
       \/ Goto(p, "record", "idle") /\ UNCHANGED lock /\ Forget(p)
    /\ UNCHANGED <<rootVars, staging, cleanupVars>>

LockHeld(p) ==
    /\ lock # "free"
    /\ Goto(p, "lock", "idle") \/ Goto(p, "recreate", "idle")
    /\ Forget(p)
    /\ UNCHANGED <<rootVars, lock, staging, cleanupVars>>

\* Mutant: the repair does not look at the process in the record.
ReadStaleRecordAny(p) ==
    /\ p \in Repairers /\ lock \in Installers
    /\ Goto(p, "lock", "stale")
    /\ UNCHANGED <<rootVars, lock, staging, selfVars, cleanupVars>>

\* --repair-stale-install-lock: the record names a process that is gone ...
ReadStaleRecord(p) ==
    /\ p \in Repairers /\ lock \in Installers /\ Dead(lock)
    /\ Goto(p, "lock", "stale")
    /\ UNCHANGED <<rootVars, lock, staging, selfVars, cleanupVars>>

\* ... and whatever file is there now is removed.
RemoveStaleLock(p) ==
    /\ \/ lock # "free" /\ Goto(p, "stale", "recreate") /\ lock' = "free" /\ UNCHANGED selfVars
       \/ lock = "free" /\ Goto(p, "stale", "idle") /\ UNCHANGED lock /\ Forget(p)
    /\ UNCHANGED <<rootVars, staging, cleanupVars>>

\* The end of install_bundle_layout: the staging directory and then the lock,
\* if its record is still this process's, are dropped.
Return(p) ==
    /\ pc[p] \in {"installed", "already", "failed"}
    /\ pc' = [pc EXCEPT ![p] = "idle"]
    /\ staging' = staging \ {p}
    /\ lock' = IF lock = p THEN "free" ELSE lock
    /\ Forget(p)
    /\ UNCHANGED <<rootVars, cleanupVars>>

\* The process is killed: no guard runs.
Die(p) ==
    /\ pc[p] \notin {"idle", "dead"}
    /\ Cardinality({q \in Installers : Dead(q)}) < MaxDeaths
    /\ pc' = [pc EXCEPT ![p] = "dead"]
    /\ Forget(p)
    /\ UNCHANGED <<rootVars, lock, staging, cleanupVars>>

-----------------------------------------------------------------------------
(* Staging and the version directory.                                       *)

\* Mutant: abandoned staging directories stay.
PrepareStagingKeeps(p) ==
    /\ Goto(p, "staging", "extract")
    /\ staging' = staging \cup {p}
    /\ UNCHANGED <<rootVars, lock, selfVars, cleanupVars>>

\* Every abandoned staging directory goes, then this one is made.
PrepareStaging(p) ==
    /\ Goto(p, "staging", "extract")
    /\ staging' = {p}
    /\ UNCHANGED <<rootVars, lock, selfVars, cleanupVars>>

\* The verified tree becomes the version directory.
PublishVersion(p) ==
    /\ tag[p] \notin versions
    /\ Goto(p, "extract", "published")
    /\ versions' = versions \cup {tag[p]}
    /\ UNCHANGED <<active, flat, profile, config, link, lock, staging, selfVars, cleanupVars>>

\* Mutant: a reinstall looks only at the active pointer.
SameVersionActive(p) == active = tag[p]

\* verify_same_version_reinstall and the comparison of the proof caches.
SameVersion(p) ==
    /\ active = tag[p]
    /\ config = "ours" /\ profile = tag[p]
    /\ \A x \in PartSet \ {"proof"} : flat[x] = tag[p]

Reinstall(p) ==
    /\ tag[p] \in versions
    /\ \/ p \in Official /\ SameVersion(p) /\ Goto(p, "extract", "already")
       \/ ~(p \in Official /\ SameVersion(p)) /\ Goto(p, "extract", "failed")
    /\ UNCHANGED <<rootVars, lock, staging, selfVars, cleanupVars>>

-----------------------------------------------------------------------------
(* The flat projection, the selectors, the PATH handoff and the pointer.    *)

CaptureFlat(p) ==
    /\ Goto(p, "published", "flat")
    /\ saved' = [saved EXCEPT ![p].flat = flat]
    /\ UNCHANGED <<rootVars, lock, staging, tag, n, base, late, cleanupVars>>

\* A bundle without a proof cache leaves the one that is there.
PublishPart(p) ==
    /\ IF n[p] < Len(Parts) THEN Goto(p, "flat", "flat") ELSE Goto(p, "flat", "selector")
    /\ n' = [n EXCEPT ![p] = @ + 1]
    /\ flat' = IF Parts[n[p]] = "proof" /\ p \notin Official THEN flat
               ELSE [flat EXCEPT ![Parts[n[p]]] = tag[p]]
    /\ UNCHANGED <<active, versions, profile, config, link, lock, staging, tag, saved, base, late, cleanupVars>>

\* ensure_selector_write_allowed for both files, then the profile is written.
WriteProfile(p) ==
    /\ Goto(p, "selector", "config")
    /\ p \in Adopters \/ (profile # Operator /\ config # "operator")
    /\ saved' = [saved EXCEPT ![p].profile = profile, ![p].config = config]
    /\ profile' = tag[p]
    /\ UNCHANGED <<active, versions, flat, config, link, lock, staging, tag, n, base, late, cleanupVars>>

WriteConfig(p) ==
    /\ Goto(p, "config", "gate")
    /\ config' = "ours"
    /\ UNCHANGED <<active, versions, flat, profile, link, lock, staging, selfVars, cleanupVars>>

SmokeGate(p) ==
    /\ Goto(p, "gate", "handoff")
    /\ UNCHANGED <<rootVars, lock, staging, selfVars, cleanupVars>>

\* install_path_handoff: the old link is set aside ...
BackUpLink(p) ==
    /\ Goto(p, "handoff", "link")
    /\ saved' = [saved EXCEPT ![p].link = link]
    /\ link' = 0
    /\ UNCHANGED <<active, versions, flat, profile, config, lock, staging, tag, n, base, late, cleanupVars>>

\* ... the new one takes its place ...
PlaceLink(p) ==
    /\ Goto(p, "link", "verify")
    /\ link' = tag[p]
    /\ UNCHANGED <<active, versions, flat, profile, config, lock, staging, selfVars, cleanupVars>>

\* ... and is tried.
VerifyLink(p) ==
    /\ Goto(p, "verify", "flip")
    /\ UNCHANGED <<rootVars, lock, staging, selfVars, cleanupVars>>

\* The last step: the guards are disarmed after it.
FlipActivePointer(p) ==
    /\ Goto(p, "flip", "installed")
    /\ active' = tag[p]
    /\ UNCHANGED <<versions, flat, profile, config, link, lock, staging, selfVars, cleanupVars>>

-----------------------------------------------------------------------------
(* Failures.                                                                *)

\* Where an error at each position continues: the guards that are armed, in
\* the reverse order of their declaration.
Unwind(at) ==
    CASE at \in {"staging", "extract"} -> "failed"
      [] at = "published" -> "rb_version"
      [] at \in {"flat", "selector"} -> "rb_flat"
      [] at \in {"config", "gate", "handoff"} -> "rb_selector"

Fail(p) ==
    /\ pc[p] \in {"staging", "extract", "published", "flat", "selector", "config", "gate", "handoff"}
    /\ pc' = [pc EXCEPT ![p] = Unwind(pc[p])]
    /\ UNCHANGED <<rootVars, lock, staging, selfVars, cleanupVars>>

\* A failed trial, and a failed flip, put the old link back first.
LinkFails(p) ==
    /\ Goto(p, "verify", "rb_selector") \/ Goto(p, "flip", "rb_selector")
    /\ link' = saved[p].link
    /\ UNCHANGED <<active, versions, flat, profile, config, lock, staging, selfVars, cleanupVars>>

\* Two errors unwind less than the others: the second rename of the handoff
\* leaves no link, and previous_active_candidate leaves link and selectors.
FailLate(p) ==
    /\ Goto(p, "link", "rb_selector") \/ Goto(p, "flip", "rb_flat")
    /\ late' = [late EXCEPT ![p] = TRUE]
    /\ UNCHANGED <<rootVars, lock, staging, tag, n, saved, base, cleanupVars>>

\* InstalledProfileTransaction::rollback.
RollbackSelectors(p) ==
    /\ Goto(p, "rb_selector", "rb_flat")
    /\ profile' = saved[p].profile /\ config' = saved[p].config
    /\ UNCHANGED <<active, versions, flat, link, lock, staging, selfVars, cleanupVars>>

\* Mutant: the staging directory, with the backups, is dropped first.
RollbackFlatLate(p) ==
    /\ Goto(p, "rb_flat", "rb_version")
    /\ flat' = Uniform(0)
    /\ UNCHANGED <<active, versions, profile, config, link, lock, staging, selfVars, cleanupVars>>

\* FlatProjectionGuard: each path is removed, then its backup is renamed back;
\* the backups are in the staging directory.
RollbackFlat(p) ==
    /\ Goto(p, "rb_flat", "rb_version")
    /\ flat' = IF p \in staging THEN saved[p].flat ELSE Uniform(0)
    /\ UNCHANGED <<active, versions, profile, config, link, lock, staging, selfVars, cleanupVars>>

\* PublishedVersionGuard.
RollbackVersion(p) ==
    /\ Goto(p, "rb_version", "failed")
    /\ versions' = versions \ {tag[p]}
    /\ UNCHANGED <<active, flat, profile, config, link, lock, staging, selfVars, cleanupVars>>

-----------------------------------------------------------------------------
(* `m80 install-cleanup`, which takes no lock.                              *)

MayClean == CleanupAlone => \A p \in Installers : pc[p] \notin Inside

\* Mutant: the active release is not told from the others.
CleanupCheckAny(t) ==
    /\ cl = "idle" /\ MayClean /\ t \in versions
    /\ cl' = "checked" /\ clTag' = t
    /\ UNCHANGED <<rootVars, lock, staging, pc, selfVars>>

\* A release that is not active.
CleanupCheck(t) ==
    /\ cl = "idle" /\ MayClean /\ t \in versions /\ active # t
    /\ cl' = "checked" /\ clTag' = t
    /\ UNCHANGED <<rootVars, lock, staging, pc, selfVars>>

\* --remove-active: the pointer is set aside first.
CleanupActive(t) ==
    /\ cl = "idle" /\ MayClean /\ t \in versions /\ active = t
    /\ active' = 0
    /\ cl' = "unlinked" /\ clTag' = t
    /\ UNCHANGED <<versions, flat, profile, config, link, lock, staging, pc, selfVars>>

CleanupRemove ==
    /\ cl # "idle" /\ cl' = "idle" /\ clTag' = 1
    /\ versions' = versions \ {clTag}
    /\ UNCHANGED <<active, flat, profile, config, link, lock, staging, pc, selfVars>>

\* The directory cannot be removed: the pointer is put back.
CleanupFails ==
    /\ cl = "unlinked" /\ cl' = "idle" /\ clTag' = 1
    /\ active' = clTag
    /\ UNCHANGED <<versions, flat, profile, config, link, lock, staging, pc, selfVars>>

-----------------------------------------------------------------------------
Next ==
    \/ \E p \in Installers :
          \/ Plan(p) \/ Verify(p) \/ CreateLock(p) \/ WriteRecord(p) \/ LockHeld(p)
          \/ ReadStaleRecord(p) \/ RemoveStaleLock(p) \/ Return(p) \/ Die(p)
          \/ PrepareStaging(p) \/ PublishVersion(p) \/ Reinstall(p)
          \/ CaptureFlat(p) \/ PublishPart(p) \/ WriteProfile(p) \/ WriteConfig(p) \/ SmokeGate(p)
          \/ BackUpLink(p) \/ PlaceLink(p) \/ VerifyLink(p) \/ FlipActivePointer(p)
          \/ Fail(p) \/ LinkFails(p) \/ FailLate(p)
          \/ RollbackSelectors(p) \/ RollbackFlat(p) \/ RollbackVersion(p)
    \/ \E t \in Tags : CleanupCheck(t) \/ CleanupActive(t)
    \/ CleanupRemove \/ CleanupFails

Spec == Init /\ [][Next]_vars

-----------------------------------------------------------------------------
(* Properties.                                                              *)

\* Types; a staging directory belongs to one installer at a time, and an
\* installer past PrepareStaging has not lost its own.
TypeOK ==
    /\ active \in 0..MaxTag /\ versions \subseteq Tags /\ link \in 0..MaxTag
    /\ flat \in [PartSet -> 0..MaxTag] /\ profile \in 0..Operator
    /\ config \in {"none", "ours", "operator"}
    /\ lock \in {"free", "unwritten"} \cup Installers
    /\ pc \in [Installers -> Inside \cup {"idle", "planned", "lock", "stale", "recreate", "dead"}]
    /\ n \in [Installers -> 1..Len(Parts) + 1]
    /\ Cardinality(staging) <= 1
    /\ \A p \in Installers : pc[p] \in Inside \ {"record", "staging"} => p \in staging \/ pc[p] = "failed"

\* At most one installer is between taking the install-state lock and giving
\* it back, deaths and the repair of a stale lock included (one repair at a time).
OneWriter ==
    Cardinality({p \in Installers : pc[p] \in Inside}) <= 1

\* The active pointer leads to a version directory at all times: whatever step
\* an installer fails or is killed at, the directory is published before the
\* flip and no rollback takes the one that is active.
ActiveComplete == active # 0 => active \in versions

\* An install that reports success, also as "already installed", has left
\* active pointer, flat projection and selectors at its release. (A bundle
\* without a proof cache keeps the older one.)
SuccessMeansSelected ==
    \A p \in Installers : pc[p] \in {"installed", "already"} =>
        /\ active = tag[p] /\ tag[p] \in versions
        /\ profile = tag[p] /\ config = "ours"
        /\ \A x \in PartSet \ {"proof"} : flat[x] = tag[p]
        /\ pc[p] = "installed" => link = tag[p] /\ (p \in Official => flat["proof"] = tag[p])

\* An install that fails has left the root as it found it. Two late errors do
\* not restore the PATH link and the selectors.
FailureRestores ==
    \A p \in Installers : pc[p] = "failed" =>
        /\ active = base[p].active /\ versions = base[p].versions /\ flat = base[p].flat
        /\ ~late[p] => profile = base[p].profile /\ config = base[p].config /\ link = base[p].link
=============================================================================
