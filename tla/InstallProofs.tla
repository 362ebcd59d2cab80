--------------------------- MODULE InstallProofs ---------------------------
(***************************************************************************)
(* Theorems about the install transaction, for any number of installers    *)
(* and releases. Two conditions on how m80 is run are hypotheses of every  *)
(* theorem that needs them: at most one installer repairs stale locks, and *)
(* install-cleanup is not run during an install.                           *)
(***************************************************************************)
EXTENDS Install, FiniteSetTheorems, TLAPS

OneRepairer == \A p, q \in Repairers : p = q

-----------------------------------------------------------------------------
(* The inductive invariant.                                                *)

Configs == {"none", "ours", "operator"}

Roots == [active : 0..MaxTag, versions : SUBSET Tags, flat : [PartSet -> 0..MaxTag],
          profile : 0..Operator, config : Configs, link : 0..MaxTag]

Places == Inside \cup {"idle", "planned", "lock", "stale", "recreate", "dead"}

Types ==
    /\ active \in 0..MaxTag /\ versions \in SUBSET Tags /\ link \in 0..MaxTag
    /\ flat \in [PartSet -> 0..MaxTag] /\ profile \in 0..Operator
    /\ config \in Configs
    /\ lock \in {"free", "unwritten"} \cup Installers
    /\ pc \in [Installers -> Places]
    /\ tag \in [Installers -> Tags] /\ n \in [Installers -> 1..6]
    /\ saved \in [Installers -> Roots] /\ base \in [Installers -> Roots]
    /\ late \in [Installers -> BOOLEAN]
    /\ cl \in {"idle", "checked", "unlinked"} /\ clTag \in Tags

\* Who is inside is who the lock file says, and a repair under way has seen the
\* record of a dead installer.
LockInv ==
    /\ \A p \in Installers : pc[p] = "record" => lock = "unwritten"
    /\ \A p \in Installers : pc[p] \in Inside \ {"record"} => lock = p
    /\ \A p, q \in Installers : pc[p] = "record" /\ pc[q] = "record" => p = q
    /\ \A p \in Installers : pc[p] = "stale" => p \in Repairers /\ lock \in Installers /\ pc[lock] = "dead"

\* The staging directory of the one inside, or one that a dead installer left.
StagingInv ==
    /\ \A p, q \in staging : p = q
    /\ \A p \in Installers : pc[p] \in Inside \ {"record", "staging", "failed"} => p \in staging

\* install-cleanup runs alone, and what it found out is still so.
CleanInv ==
    /\ cl # "idle" => \A p \in Installers : pc[p] \notin Inside
    /\ cl = "checked" => active # clTag
    /\ cl = "unlinked" => active = 0 /\ clTag \in versions

Early == {"idle", "planned", "lock", "stale", "recreate", "dead", "record", "staging", "extract", "published"}

CountInv ==
    \A p \in Installers : /\ pc[p] \in Early => n[p] = 1
                          /\ pc[p] = "flat" => n[p] <= 5

\* Positions between the publication of the version directory and the outcome.
Advanced == {"published", "flat", "selector", "config", "gate", "handoff", "link", "verify", "flip",
             "rb_selector", "rb_flat", "rb_version"}
Selecting == {"config", "gate", "handoff", "link", "verify", "flip"}

\* A flat part that the installer has replaced, or need not.
Published(p, x) == flat[x] = tag[p] \/ (x = "proof" /\ p \notin Official)

\* What the installer at each position has done to the root it found, and what
\* it has saved to put back.
At(p) ==
    /\ pc[p] \in Advanced \cup {"staging", "extract", "failed"} => active = base[p].active
    /\ pc[p] \in {"staging", "extract", "failed"} => versions = base[p].versions
    /\ pc[p] \in Advanced => /\ versions = base[p].versions \cup {tag[p]}
                             /\ tag[p] \notin base[p].versions
                             /\ active # tag[p]
    /\ pc[p] \in {"staging", "extract", "published", "rb_version", "failed"} => flat = base[p].flat
    /\ pc[p] \in Selecting \cup {"flat", "selector", "rb_selector", "rb_flat"} => saved[p].flat = base[p].flat
    /\ pc[p] = "flat" => \A i \in 1..5 : i < n[p] => Published(p, Parts[i])
    /\ pc[p] \in Selecting \cup {"selector", "installed"} => \A x \in PartSet : Published(p, x)
    /\ pc[p] \in {"staging", "extract", "published", "flat", "selector"} => profile = base[p].profile
    /\ pc[p] \in {"staging", "extract", "published", "flat", "selector", "config"} => config = base[p].config
    /\ pc[p] \in Selecting \cup {"rb_selector"} =>
          saved[p].profile = base[p].profile /\ saved[p].config = base[p].config
    /\ pc[p] \in Selecting \cup {"installed"} => profile = tag[p]
    /\ pc[p] \in Selecting \cup {"installed"} => pc[p] = "config" \/ config = "ours"
    /\ pc[p] \in {"staging", "extract", "published", "flat", "selector", "config", "gate", "handoff"} =>
          link = base[p].link
    /\ pc[p] \in {"link", "verify", "flip"} => saved[p].link = base[p].link
    /\ pc[p] \in {"verify", "flip", "installed"} => link = tag[p]
    /\ pc[p] \in {"rb_selector", "rb_flat", "rb_version", "failed"} /\ ~late[p] => link = base[p].link
    /\ pc[p] \in {"rb_flat", "rb_version", "failed"} /\ ~late[p] =>
          profile = base[p].profile /\ config = base[p].config
    /\ pc[p] \in {"installed", "already"} => active = tag[p] /\ tag[p] \in versions
    /\ pc[p] = "already" => SameVersion(p)

RootInv == \A p \in Installers : At(p)

\* A step of one installer.
Installer(p) ==
    \/ Plan(p) \/ Verify(p) \/ CreateLock(p) \/ WriteRecord(p) \/ LockHeld(p)
    \/ ReadStaleRecord(p) \/ RemoveStaleLock(p) \/ Return(p) \/ Die(p)
    \/ PrepareStaging(p) \/ PublishVersion(p) \/ Reinstall(p)
    \/ CaptureFlat(p) \/ PublishPart(p) \/ WriteProfile(p) \/ WriteConfig(p) \/ SmokeGate(p)
    \/ BackUpLink(p) \/ PlaceLink(p) \/ VerifyLink(p) \/ FlipActivePointer(p)
    \/ Fail(p) \/ LinkFails(p) \/ FailLate(p)
    \/ RollbackSelectors(p) \/ RollbackFlat(p) \/ RollbackVersion(p)

\* What holds however install-cleanup is run, and what needs that it runs alone.
BaseInv == Types /\ LockInv /\ StagingInv /\ CountInv
IInv == BaseInv /\ CleanInv /\ ActiveComplete /\ RootInv

-----------------------------------------------------------------------------
(* Facts about the constants and the operators.                            *)

\* The five managed paths of the flat projection, by position.
LEMMA PartsFacts ==
    /\ Len(Parts) = 5
    /\ \A i \in 1..5 : Parts[i] \in PartSet
    /\ \A x \in PartSet : \E i \in 1..5 : Parts[i] = x
    /\ \A i, j \in 1..5 : Parts[i] = Parts[j] => i = j
<1>1. Len(Parts) = 5 /\ \A i \in 1..5 : i = 1 \/ i = 2 \/ i = 3 \/ i = 4 \/ i = 5
    BY DEF Parts
<1>2. Parts[1] = "bin" /\ Parts[2] = "artifacts" /\ Parts[3] = "metadata"
      /\ Parts[4] = "proof" /\ Parts[5] = "manifest"
    BY DEF Parts
<1> HIDE DEF Parts
<1> QED
    BY <1>1, <1>2 DEF PartSet

\* What an installer saves starts as the empty root.
LEMMA NothingTyped == Nothing \in Roots
    BY InstallAssumption DEF Nothing, Roots, Uniform, Tags, Operator, Configs

\* The root as it is has the type of a saved one.
LEMMA RootTyped == Types => Root \in Roots
    BY DEF Types, Root, Roots

\* The fields of a saved root, and a saved root with a field replaced.
LEMMA RootFields ==
    ASSUME NEW r \in Roots
    PROVE  /\ r.flat \in [PartSet -> 0..MaxTag] /\ r.profile \in 0..Operator
           /\ r.config \in Configs /\ r.link \in 0..MaxTag
           /\ \A f \in [PartSet -> 0..MaxTag] : [r EXCEPT !.flat = f] \in Roots
           /\ \A f \in 0..Operator, c \in Configs : [r EXCEPT !.profile = f, !.config = c] \in Roots
           /\ \A l \in 0..MaxTag : [r EXCEPT !.link = l] \in Roots
    BY DEF Roots

\* A release is a value that pointers, links, flat parts and the profile may have.
LEMMA TagRange ==
    /\ 0 \in 0..MaxTag /\ 1 \in Tags
    /\ \A t \in Tags : t \in 0..MaxTag /\ t \in 0..Operator /\ t # 0
    BY InstallAssumption DEF Tags, Operator

\* What is left of an installer that forgets.
LEMMA ForgetTyped ==
    ASSUME Types, NEW p \in Installers, Forget(p)
    PROVE  /\ tag' \in [Installers -> Tags] /\ n' \in [Installers -> 1..6]
           /\ saved' \in [Installers -> Roots] /\ base' \in [Installers -> Roots]
           /\ late' \in [Installers -> BOOLEAN]
<1>1. tag' \in [Installers -> Tags] /\ n' \in [Installers -> 1..6]
    BY TagRange DEF Types, Forget
<1>2. saved' \in [Installers -> Roots] /\ base' \in [Installers -> Roots]
    BY NothingTyped DEF Types, Forget
<1>3. late' \in [Installers -> BOOLEAN]
    BY Zenon DEF Types, Forget
<1> QED
    BY <1>1, <1>2, <1>3

\* Two installers inside are one.
LEMMA Alone ==
    ASSUME LockInv, NEW p \in Installers, NEW q \in Installers, pc[p] \in Inside, pc[q] \in Inside
    PROVE  p = q
    BY InstallAssumption DEF LockInv

\* Nothing is known of an installer that is not inside.
LEMMA OutsideAt ==
    ASSUME NEW q \in Installers, pc'[q] \notin Inside
    PROVE  At(q)'
    BY DEF At, Inside, Advanced, Selecting

\* What is known of an installer stays while neither it nor the root changes.
LEMMA FrameAt ==
    ASSUME NEW q \in Installers, At(q), UNCHANGED rootVars,
           pc'[q] = pc[q], tag'[q] = tag[q], n'[q] = n[q],
           saved'[q] = saved[q], base'[q] = base[q], late'[q] = late[q]
    PROVE  At(q)'
    BY DEF At, Published, SameVersion, rootVars

-----------------------------------------------------------------------------
(* Initial states.                                                         *)

\* At the start nobody installs, nothing is staged, and the root is fresh or complete.
LEMMA InitInv == Init => IInv
<1> SUFFICES ASSUME Init PROVE IInv
    OBVIOUS
<1> USE InstallAssumption DEF Init
<1>1. Types
    BY NothingTyped DEF Types, Uniform, Tags, Operator, Configs, Places, Inside
<1>2. LockInv /\ StagingInv /\ CleanInv
    BY DEF LockInv, StagingInv, CleanInv, Inside
<1>3. CountInv /\ ActiveComplete
    BY DEF CountInv, ActiveComplete, Early
<1>4. RootInv
    BY DEF RootInv, At, Advanced, Selecting
<1> QED
    BY <1>1, <1>2, <1>3, <1>4 DEF IInv, BaseInv

-----------------------------------------------------------------------------
(* Steps of an installer, one lemma per part of the invariant.             *)

\* Types.
LEMMA InstallerTypes ==
    ASSUME Types, CountInv, NEW p \in Installers, Installer(p)
    PROVE  Types'
<1> USE TagRange DEF Types, rootVars, selfVars, cleanupVars
<1>0. tag[p] \in Tags /\ saved[p] \in Roots /\ base[p] \in Roots /\ Root \in Roots
    BY RootTyped
<1>a. \A l \in Places : [pc EXCEPT ![p] = l] \in [Installers -> Places]
    OBVIOUS
<1>1. CASE Plan(p)
    BY <1>1, <1>0, <1>a DEF Plan, Goto, Places, Inside
<1>2. CASE Verify(p)
    BY <1>2, <1>0, <1>a, ForgetTyped DEF Verify, Goto, Places, Inside
<1>3. CASE CreateLock(p)
    BY <1>3, <1>0, <1>a DEF CreateLock, Goto, Places, Inside
<1>4. CASE WriteRecord(p)
    BY <1>4, <1>0, <1>a, ForgetTyped DEF WriteRecord, Goto, Places, Inside
<1>5. CASE LockHeld(p)
    BY <1>5, <1>0, <1>a, ForgetTyped DEF LockHeld, Goto, Places, Inside
<1>6. CASE ReadStaleRecord(p)
    BY <1>6, <1>0, <1>a DEF ReadStaleRecord, Goto, Places, Inside
<1>7. CASE RemoveStaleLock(p)
    BY <1>7, <1>0, <1>a, ForgetTyped DEF RemoveStaleLock, Goto, Places, Inside
<1>8. CASE Return(p)
    BY <1>8, <1>0, <1>a, ForgetTyped DEF Return, Places, Inside
<1>9. CASE Die(p)
    BY <1>9, <1>0, <1>a, ForgetTyped DEF Die, Places, Inside
<1>10. CASE PrepareStaging(p)
    BY <1>10, <1>0, <1>a DEF PrepareStaging, Goto, Places, Inside
<1>11. CASE PublishVersion(p)
    BY <1>11, <1>0, <1>a DEF PublishVersion, Goto, Places, Inside
<1>12. CASE Reinstall(p)
    BY <1>12, <1>0, <1>a DEF Reinstall, Goto, Places, Inside
<1>13. CASE CaptureFlat(p)
    BY <1>13, <1>0, <1>a, RootFields DEF CaptureFlat, Goto, Places, Inside
<1>14. CASE PublishPart(p)
    BY <1>14, <1>0, <1>a, PartsFacts DEF PublishPart, Goto, Places, Inside, CountInv
<1>15. CASE WriteProfile(p)
    BY <1>15, <1>0, <1>a, RootFields DEF WriteProfile, Goto, Places, Inside
<1>16. CASE WriteConfig(p)
    BY <1>16, <1>0, <1>a DEF WriteConfig, Goto, Places, Inside, Configs
<1>17. CASE SmokeGate(p)
    BY <1>17, <1>0, <1>a DEF SmokeGate, Goto, Places, Inside
<1>18. CASE BackUpLink(p)
    BY <1>18, <1>0, <1>a, RootFields DEF BackUpLink, Goto, Places, Inside
<1>19. CASE PlaceLink(p)
    BY <1>19, <1>0, <1>a DEF PlaceLink, Goto, Places, Inside
<1>20. CASE VerifyLink(p)
    BY <1>20, <1>0, <1>a DEF VerifyLink, Goto, Places, Inside
<1>21. CASE FlipActivePointer(p)
    BY <1>21, <1>0, <1>a DEF FlipActivePointer, Goto, Places, Inside
<1>22. CASE Fail(p)
    BY <1>22, <1>0, <1>a DEF Fail, Unwind, Places, Inside
<1>23. CASE LinkFails(p)
    BY <1>23, <1>0, <1>a, RootFields DEF LinkFails, Goto, Places, Inside
<1>24. CASE FailLate(p)
    BY <1>24, <1>0, <1>a DEF FailLate, Goto, Places, Inside
<1>25. CASE RollbackSelectors(p)
    BY <1>25, <1>0, <1>a, RootFields DEF RollbackSelectors, Goto, Places, Inside
<1>26. CASE RollbackFlat(p)
    BY <1>26, <1>0, <1>a, RootFields DEF RollbackFlat, Goto, Places, Inside, Uniform
<1>27. CASE RollbackVersion(p)
    BY <1>27, <1>0, <1>a DEF RollbackVersion, Goto, Places, Inside
<1> QED
    BY <1>1, <1>2, <1>3, <1>4, <1>5, <1>6, <1>7, <1>8, <1>9, <1>10, <1>11, <1>12, <1>13, <1>14,
       <1>15, <1>16, <1>17, <1>18, <1>19, <1>20, <1>21, <1>22, <1>23, <1>24, <1>25, <1>26, <1>27
       DEF Installer

\* The lock.
LEMMA InstallerLock ==
    ASSUME Types, LockInv, OneRepairer, NEW p \in Installers, Installer(p)
    PROVE  LockInv'
<1> USE InstallAssumption DEF Types, LockInv, OneRepairer, Inside, rootVars, selfVars, cleanupVars
<1>1. CASE Plan(p)
    BY <1>1 DEF Plan, Goto
<1>2. CASE Verify(p)
    BY <1>2 DEF Verify, Goto, Forget
<1>3. CASE CreateLock(p)
    BY <1>3 DEF CreateLock, Goto
<1>4. CASE WriteRecord(p)
    BY <1>4 DEF WriteRecord, Goto, Forget
<1>5. CASE LockHeld(p)
    BY <1>5 DEF LockHeld, Goto, Forget
<1>6. CASE ReadStaleRecord(p)
    BY <1>6 DEF ReadStaleRecord, Goto, Dead
<1>7. CASE RemoveStaleLock(p)
    BY <1>7 DEF RemoveStaleLock, Goto, Forget
<1>8. CASE Return(p)
    BY <1>8 DEF Return, Forget
<1>9. CASE Die(p)
    BY <1>9 DEF Die, Forget
<1>10. CASE PrepareStaging(p)
    BY <1>10 DEF PrepareStaging, Goto
<1>11. CASE PublishVersion(p)
    BY <1>11 DEF PublishVersion, Goto
<1>12. CASE Reinstall(p)
    BY <1>12 DEF Reinstall, Goto
<1>13. CASE CaptureFlat(p)
    BY <1>13 DEF CaptureFlat, Goto
<1>14. CASE PublishPart(p)
    BY <1>14 DEF PublishPart, Goto
<1>15. CASE WriteProfile(p)
    BY <1>15 DEF WriteProfile, Goto
<1>16. CASE WriteConfig(p)
    BY <1>16 DEF WriteConfig, Goto
<1>17. CASE SmokeGate(p)
    BY <1>17 DEF SmokeGate, Goto
<1>18. CASE BackUpLink(p)
    BY <1>18 DEF BackUpLink, Goto
<1>19. CASE PlaceLink(p)
    BY <1>19 DEF PlaceLink, Goto
<1>20. CASE VerifyLink(p)
    BY <1>20 DEF VerifyLink, Goto
<1>21. CASE FlipActivePointer(p)
    BY <1>21 DEF FlipActivePointer, Goto
<1>22. CASE Fail(p)
    BY <1>22 DEF Fail, Unwind
<1>23. CASE LinkFails(p)
    BY <1>23 DEF LinkFails, Goto
<1>24. CASE FailLate(p)
    BY <1>24 DEF FailLate, Goto
<1>25. CASE RollbackSelectors(p)
    BY <1>25 DEF RollbackSelectors, Goto
<1>26. CASE RollbackFlat(p)
    BY <1>26 DEF RollbackFlat, Goto
<1>27. CASE RollbackVersion(p)
    BY <1>27 DEF RollbackVersion, Goto
<1> QED
    BY <1>1, <1>2, <1>3, <1>4, <1>5, <1>6, <1>7, <1>8, <1>9, <1>10, <1>11, <1>12, <1>13, <1>14,
       <1>15, <1>16, <1>17, <1>18, <1>19, <1>20, <1>21, <1>22, <1>23, <1>24, <1>25, <1>26, <1>27
       DEF Installer

\* The staging directory.
LEMMA InstallerStaging ==
    ASSUME Types, LockInv, StagingInv, NEW p \in Installers, Installer(p)
    PROVE  StagingInv'
<1> USE InstallAssumption DEF Types, LockInv, StagingInv, Inside, rootVars, selfVars, cleanupVars
<1>1. CASE Plan(p)
    BY <1>1 DEF Plan, Goto
<1>2. CASE Verify(p)
    BY <1>2 DEF Verify, Goto, Forget
<1>3. CASE CreateLock(p)
    BY <1>3 DEF CreateLock, Goto
<1>4. CASE WriteRecord(p)
    BY <1>4 DEF WriteRecord, Goto, Forget
<1>5. CASE LockHeld(p)
    BY <1>5 DEF LockHeld, Goto, Forget
<1>6. CASE ReadStaleRecord(p)
    BY <1>6 DEF ReadStaleRecord, Goto, Dead
<1>7. CASE RemoveStaleLock(p)
    BY <1>7 DEF RemoveStaleLock, Goto, Forget
<1>8. CASE Return(p)
    BY <1>8 DEF Return, Forget
<1>9. CASE Die(p)
    BY <1>9 DEF Die, Forget
<1>10. CASE PrepareStaging(p)
    BY <1>10 DEF PrepareStaging, Goto
<1>11. CASE PublishVersion(p)
    BY <1>11 DEF PublishVersion, Goto
<1>12. CASE Reinstall(p)
    BY <1>12 DEF Reinstall, Goto
<1>13. CASE CaptureFlat(p)
    BY <1>13 DEF CaptureFlat, Goto
<1>14. CASE PublishPart(p)
    BY <1>14 DEF PublishPart, Goto
<1>15. CASE WriteProfile(p)
    BY <1>15 DEF WriteProfile, Goto
<1>16. CASE WriteConfig(p)
    BY <1>16 DEF WriteConfig, Goto
<1>17. CASE SmokeGate(p)
    BY <1>17 DEF SmokeGate, Goto
<1>18. CASE BackUpLink(p)
    BY <1>18 DEF BackUpLink, Goto
<1>19. CASE PlaceLink(p)
    BY <1>19 DEF PlaceLink, Goto
<1>20. CASE VerifyLink(p)
    BY <1>20 DEF VerifyLink, Goto
<1>21. CASE FlipActivePointer(p)
    BY <1>21 DEF FlipActivePointer, Goto
<1>22. CASE Fail(p)
    BY <1>22 DEF Fail, Unwind
<1>23. CASE LinkFails(p)
    BY <1>23 DEF LinkFails, Goto
<1>24. CASE FailLate(p)
    BY <1>24 DEF FailLate, Goto
<1>25. CASE RollbackSelectors(p)
    BY <1>25 DEF RollbackSelectors, Goto
<1>26. CASE RollbackFlat(p)
    BY <1>26 DEF RollbackFlat, Goto
<1>27. CASE RollbackVersion(p)
    BY <1>27 DEF RollbackVersion, Goto
<1> QED
    BY <1>1, <1>2, <1>3, <1>4, <1>5, <1>6, <1>7, <1>8, <1>9, <1>10, <1>11, <1>12, <1>13, <1>14,
       <1>15, <1>16, <1>17, <1>18, <1>19, <1>20, <1>21, <1>22, <1>23, <1>24, <1>25, <1>26, <1>27
       DEF Installer

\* install-cleanup.
LEMMA InstallerClean ==
    ASSUME Types, CleanInv, CleanupAlone, NEW p \in Installers, Installer(p)
    PROVE  CleanInv'
<1> USE InstallAssumption DEF Types, CleanInv, Inside, rootVars, selfVars, cleanupVars
<1>1. CASE Plan(p)
    BY <1>1 DEF Plan, Goto
<1>2. CASE Verify(p)
    BY <1>2 DEF Verify, Goto, Forget
<1>3. CASE CreateLock(p)
    BY <1>3 DEF CreateLock, Goto
<1>4. CASE WriteRecord(p)
    BY <1>4 DEF WriteRecord, Goto, Forget
<1>5. CASE LockHeld(p)
    BY <1>5 DEF LockHeld, Goto, Forget
<1>6. CASE ReadStaleRecord(p)
    BY <1>6 DEF ReadStaleRecord, Goto, Dead
<1>7. CASE RemoveStaleLock(p)
    BY <1>7 DEF RemoveStaleLock, Goto, Forget
<1>8. CASE Return(p)
    BY <1>8 DEF Return, Forget
<1>9. CASE Die(p)
    BY <1>9 DEF Die, Forget
<1>10. CASE PrepareStaging(p)
    BY <1>10 DEF PrepareStaging, Goto
<1>11. CASE PublishVersion(p)
    BY <1>11 DEF PublishVersion, Goto
<1>12. CASE Reinstall(p)
    BY <1>12 DEF Reinstall, Goto
<1>13. CASE CaptureFlat(p)
    BY <1>13 DEF CaptureFlat, Goto
<1>14. CASE PublishPart(p)
    BY <1>14 DEF PublishPart, Goto
<1>15. CASE WriteProfile(p)
    BY <1>15 DEF WriteProfile, Goto
<1>16. CASE WriteConfig(p)
    BY <1>16 DEF WriteConfig, Goto
<1>17. CASE SmokeGate(p)
    BY <1>17 DEF SmokeGate, Goto
<1>18. CASE BackUpLink(p)
    BY <1>18 DEF BackUpLink, Goto
<1>19. CASE PlaceLink(p)
    BY <1>19 DEF PlaceLink, Goto
<1>20. CASE VerifyLink(p)
    BY <1>20 DEF VerifyLink, Goto
<1>21. CASE FlipActivePointer(p)
    BY <1>21 DEF FlipActivePointer, Goto
<1>22. CASE Fail(p)
    BY <1>22 DEF Fail, Unwind
<1>23. CASE LinkFails(p)
    BY <1>23 DEF LinkFails, Goto
<1>24. CASE FailLate(p)
    BY <1>24 DEF FailLate, Goto
<1>25. CASE RollbackSelectors(p)
    BY <1>25 DEF RollbackSelectors, Goto
<1>26. CASE RollbackFlat(p)
    BY <1>26 DEF RollbackFlat, Goto
<1>27. CASE RollbackVersion(p)
    BY <1>27 DEF RollbackVersion, Goto
<1> QED
    BY <1>1, <1>2, <1>3, <1>4, <1>5, <1>6, <1>7, <1>8, <1>9, <1>10, <1>11, <1>12, <1>13, <1>14,
       <1>15, <1>16, <1>17, <1>18, <1>19, <1>20, <1>21, <1>22, <1>23, <1>24, <1>25, <1>26, <1>27
       DEF Installer

\* The counter of flat parts.
LEMMA InstallerCount ==
    ASSUME Types, CountInv, NEW p \in Installers, Installer(p)
    PROVE  CountInv'
<1> USE PartsFacts DEF Types, CountInv, Early, rootVars, selfVars, cleanupVars
<1>1. CASE Plan(p)
    BY <1>1 DEF Plan, Goto
<1>2. CASE Verify(p)
    BY <1>2 DEF Verify, Goto, Forget
<1>3. CASE CreateLock(p)
    BY <1>3 DEF CreateLock, Goto
<1>4. CASE WriteRecord(p)
    BY <1>4 DEF WriteRecord, Goto, Forget
<1>5. CASE LockHeld(p)
    BY <1>5 DEF LockHeld, Goto, Forget
<1>6. CASE ReadStaleRecord(p)
    BY <1>6 DEF ReadStaleRecord, Goto, Dead
<1>7. CASE RemoveStaleLock(p)
    BY <1>7 DEF RemoveStaleLock, Goto, Forget
<1>8. CASE Return(p)
    BY <1>8 DEF Return, Forget
<1>9. CASE Die(p)
    BY <1>9 DEF Die, Forget
<1>10. CASE PrepareStaging(p)
    BY <1>10 DEF PrepareStaging, Goto
<1>11. CASE PublishVersion(p)
    BY <1>11 DEF PublishVersion, Goto
<1>12. CASE Reinstall(p)
    BY <1>12 DEF Reinstall, Goto
<1>13. CASE CaptureFlat(p)
    BY <1>13 DEF CaptureFlat, Goto
<1>14. CASE PublishPart(p)
    BY <1>14 DEF PublishPart, Goto
<1>15. CASE WriteProfile(p)
    BY <1>15 DEF WriteProfile, Goto
<1>16. CASE WriteConfig(p)
    BY <1>16 DEF WriteConfig, Goto
<1>17. CASE SmokeGate(p)
    BY <1>17 DEF SmokeGate, Goto
<1>18. CASE BackUpLink(p)
    BY <1>18 DEF BackUpLink, Goto
<1>19. CASE PlaceLink(p)
    BY <1>19 DEF PlaceLink, Goto
<1>20. CASE VerifyLink(p)
    BY <1>20 DEF VerifyLink, Goto
<1>21. CASE FlipActivePointer(p)
    BY <1>21 DEF FlipActivePointer, Goto
<1>22. CASE Fail(p)
    BY <1>22 DEF Fail, Unwind
<1>23. CASE LinkFails(p)
    BY <1>23 DEF LinkFails, Goto
<1>24. CASE FailLate(p)
    BY <1>24 DEF FailLate, Goto
<1>25. CASE RollbackSelectors(p)
    BY <1>25 DEF RollbackSelectors, Goto
<1>26. CASE RollbackFlat(p)
    BY <1>26 DEF RollbackFlat, Goto
<1>27. CASE RollbackVersion(p)
    BY <1>27 DEF RollbackVersion, Goto
<1> QED
    BY <1>1, <1>2, <1>3, <1>4, <1>5, <1>6, <1>7, <1>8, <1>9, <1>10, <1>11, <1>12, <1>13, <1>14,
       <1>15, <1>16, <1>17, <1>18, <1>19, <1>20, <1>21, <1>22, <1>23, <1>24, <1>25, <1>26, <1>27
       DEF Installer

\* The active pointer.
LEMMA InstallerActive ==
    ASSUME Types, RootInv, ActiveComplete, NEW p \in Installers, Installer(p)
    PROVE  ActiveComplete'
<1>0. At(p)
    BY DEF RootInv
<1>1. CASE PublishVersion(p)
    BY <1>1 DEF PublishVersion, ActiveComplete
<1>2. CASE FlipActivePointer(p)
    BY <1>0, <1>2 DEF FlipActivePointer, Goto, ActiveComplete, At, Advanced
<1>3. CASE RollbackVersion(p)
    BY <1>0, <1>3 DEF RollbackVersion, Goto, ActiveComplete, At, Advanced
<1>4. CASE UNCHANGED <<active, versions>>
    BY <1>4 DEF ActiveComplete
<1> QED
    BY <1>1, <1>2, <1>3, <1>4 DEF Installer, rootVars, Plan, Verify, CreateLock, WriteRecord, LockHeld, ReadStaleRecord,
        RemoveStaleLock, Return, Die, PrepareStaging, Reinstall, CaptureFlat, PublishPart, WriteProfile,
        WriteConfig, SmokeGate, BackUpLink, PlaceLink, VerifyLink, Fail, LinkFails, FailLate,
        RollbackSelectors, RollbackFlat

\* An installer that changes only itself, and is outside before or after, leaves
\* what is known of the others as it was.
LEMMA SelfStep ==
    ASSUME Types, RootInv, NEW p \in Installers, UNCHANGED rootVars, pc'[p] \notin Inside,
           \A q \in Installers \ {p} : /\ pc'[q] = pc[q] /\ tag'[q] = tag[q] /\ n'[q] = n[q]
                                       /\ saved'[q] = saved[q] /\ base'[q] = base[q] /\ late'[q] = late[q]
    PROVE  RootInv'
<1> SUFFICES ASSUME NEW q \in Installers PROVE At(q)'
    BY DEF RootInv
<1>1. CASE q = p
    BY <1>1, OutsideAt
<1>2. CASE q # p
    BY <1>2, FrameAt DEF RootInv
<1> QED
    BY <1>1, <1>2

\* Whatever the one inside does to the root, nothing was known of the others.
LEMMA InsideStep ==
    ASSUME LockInv, NEW p \in Installers, pc[p] \in Inside, At(p)',
           \A q \in Installers \ {p} : pc'[q] = pc[q]
    PROVE  RootInv'
<1> SUFFICES ASSUME NEW q \in Installers PROVE At(q)'
    BY DEF RootInv
<1>1. CASE q = p
    BY <1>1
<1>2. CASE q # p
    BY <1>2, Alone, OutsideAt
<1> QED
    BY <1>1, <1>2

\* The root and what the one inside knows of it.
LEMMA InstallerRoot ==
    ASSUME Types, LockInv, StagingInv, CountInv, ActiveComplete, RootInv, NEW p \in Installers, Installer(p)
    PROVE  RootInv'
<1>0. At(p)
    BY DEF RootInv
<1>1. CASE Plan(p)
    BY <1>1, SelfStep DEF Plan, Goto, Types, selfVars, Inside
<1>2. CASE Verify(p)
    BY <1>2, SelfStep DEF Verify, Goto, Forget, Types, selfVars, Inside
<1>3. CASE CreateLock(p)
  <2>1. \A q \in Installers : At(q)'
    <3> SUFFICES ASSUME NEW q \in Installers PROVE At(q)'
        OBVIOUS
    <3>1. CASE q = p
        BY <1>3, <3>1 DEF CreateLock, Goto, Types, At, Advanced, Selecting
    <3>2. CASE q # p
        BY <1>3, <3>2, FrameAt DEF CreateLock, Goto, Types, selfVars, RootInv
    <3> QED
        BY <3>1, <3>2
  <2> QED
    BY <2>1 DEF RootInv
<1>4. CASE WriteRecord(p)
  <2>1. At(p)'
    BY <1>0, <1>4 DEF WriteRecord, Goto, Forget, Types, At, Advanced, Selecting, Published,
       SameVersion, rootVars, selfVars, Root
  <2>2. pc[p] \in Inside /\ \A q \in Installers \ {p} : pc'[q] = pc[q]
    BY <1>4 DEF WriteRecord, Goto, Forget, Types, Inside
  <2> QED
    BY <2>1, <2>2, InsideStep
<1>5. CASE LockHeld(p)
    BY <1>5, SelfStep DEF LockHeld, Goto, Forget, Types, selfVars, Inside
<1>6. CASE ReadStaleRecord(p)
    BY <1>6, SelfStep DEF ReadStaleRecord, Goto, Dead, Types, selfVars, Inside
<1>7. CASE RemoveStaleLock(p)
    BY <1>7, SelfStep DEF RemoveStaleLock, Goto, Forget, Types, selfVars, Inside
<1>8. CASE Return(p)
    BY <1>8, SelfStep DEF Return, Forget, Types, selfVars, Inside
<1>9. CASE Die(p)
    BY <1>9, SelfStep DEF Die, Forget, Types, selfVars, Inside
<1>10. CASE PrepareStaging(p)
  <2>1. At(p)'
    BY <1>0, <1>10 DEF PrepareStaging, Goto, Types, At, Advanced, Selecting, Published,
       SameVersion, rootVars, selfVars
  <2>2. pc[p] \in Inside /\ \A q \in Installers \ {p} : pc'[q] = pc[q]
    BY <1>10 DEF PrepareStaging, Goto, Types, Inside
  <2> QED
    BY <2>1, <2>2, InsideStep
<1>11. CASE PublishVersion(p)
  <2>1. At(p)'
    BY <1>0, <1>11, TagRange DEF PublishVersion, Goto, Types, At, Advanced, Selecting,
       Published, SameVersion, rootVars, selfVars, ActiveComplete
  <2>2. pc[p] \in Inside /\ \A q \in Installers \ {p} : pc'[q] = pc[q]
    BY <1>11 DEF PublishVersion, Goto, Types, Inside
  <2> QED
    BY <2>1, <2>2, InsideStep
<1>12. CASE Reinstall(p)
  <2>1. At(p)'
    BY <1>0, <1>12 DEF Reinstall, Goto, Types, At, Advanced, Selecting, Published, SameVersion,
       rootVars, selfVars
  <2>2. pc[p] \in Inside /\ \A q \in Installers \ {p} : pc'[q] = pc[q]
    BY <1>12 DEF Reinstall, Goto, Types, Inside
  <2> QED
    BY <2>1, <2>2, InsideStep
<1>13. CASE CaptureFlat(p)
  <2>1. At(p)'
    BY <1>0, <1>13 DEF CaptureFlat, Goto, Types, Roots, CountInv, Early, At, Advanced,
       Selecting, Published, SameVersion, rootVars, selfVars
  <2>2. pc[p] \in Inside /\ \A q \in Installers \ {p} : pc'[q] = pc[q]
    BY <1>13 DEF CaptureFlat, Goto, Types, Inside
  <2> QED
    BY <2>1, <2>2, InsideStep
<1>14. CASE PublishPart(p)
  <2>1. At(p)'
    BY <1>0, <1>14, PartsFacts DEF PublishPart, Goto, Types, At, Advanced, Selecting,
       Published, SameVersion, rootVars, selfVars, CountInv
  <2>2. pc[p] \in Inside /\ \A q \in Installers \ {p} : pc'[q] = pc[q]
    BY <1>14 DEF PublishPart, Goto, Types, Inside
  <2> QED
    BY <2>1, <2>2, InsideStep
<1>15. CASE WriteProfile(p)
  <2>1. At(p)'
    BY <1>0, <1>15 DEF WriteProfile, Goto, Types, At, Advanced, Selecting, Published,
       SameVersion, rootVars, selfVars
  <2>2. pc[p] \in Inside /\ \A q \in Installers \ {p} : pc'[q] = pc[q]
    BY <1>15 DEF WriteProfile, Goto, Types, Inside
  <2> QED
    BY <2>1, <2>2, InsideStep
<1>16. CASE WriteConfig(p)
  <2>1. At(p)'
    BY <1>0, <1>16 DEF WriteConfig, Goto, Types, At, Advanced, Selecting, Published,
       SameVersion, rootVars, selfVars
  <2>2. pc[p] \in Inside /\ \A q \in Installers \ {p} : pc'[q] = pc[q]
    BY <1>16 DEF WriteConfig, Goto, Types, Inside
  <2> QED
    BY <2>1, <2>2, InsideStep
<1>17. CASE SmokeGate(p)
  <2>1. At(p)'
    BY <1>0, <1>17 DEF SmokeGate, Goto, Types, At, Advanced, Selecting, Published, SameVersion,
       rootVars, selfVars
  <2>2. pc[p] \in Inside /\ \A q \in Installers \ {p} : pc'[q] = pc[q]
    BY <1>17 DEF SmokeGate, Goto, Types, Inside
  <2> QED
    BY <2>1, <2>2, InsideStep
<1>18. CASE BackUpLink(p)
  <2>1. At(p)'
    BY <1>0, <1>18 DEF BackUpLink, Goto, Types, At, Advanced, Selecting, Published,
       SameVersion, rootVars, selfVars
  <2>2. pc[p] \in Inside /\ \A q \in Installers \ {p} : pc'[q] = pc[q]
    BY <1>18 DEF BackUpLink, Goto, Types, Inside
  <2> QED
    BY <2>1, <2>2, InsideStep
<1>19. CASE PlaceLink(p)
  <2>1. At(p)'
    BY <1>0, <1>19 DEF PlaceLink, Goto, Types, At, Advanced, Selecting, Published, SameVersion,
       rootVars, selfVars
  <2>2. pc[p] \in Inside /\ \A q \in Installers \ {p} : pc'[q] = pc[q]
    BY <1>19 DEF PlaceLink, Goto, Types, Inside
  <2> QED
    BY <2>1, <2>2, InsideStep
<1>20. CASE VerifyLink(p)
  <2>1. At(p)'
    BY <1>0, <1>20 DEF VerifyLink, Goto, Types, At, Advanced, Selecting, Published,
       SameVersion, rootVars, selfVars
  <2>2. pc[p] \in Inside /\ \A q \in Installers \ {p} : pc'[q] = pc[q]
    BY <1>20 DEF VerifyLink, Goto, Types, Inside
  <2> QED
    BY <2>1, <2>2, InsideStep
<1>21. CASE FlipActivePointer(p)
  <2>1. At(p)'
    BY <1>0, <1>21 DEF FlipActivePointer, Goto, Types, At, Advanced, Selecting, Published,
       SameVersion, rootVars, selfVars
  <2>2. pc[p] \in Inside /\ \A q \in Installers \ {p} : pc'[q] = pc[q]
    BY <1>21 DEF FlipActivePointer, Goto, Types, Inside
  <2> QED
    BY <2>1, <2>2, InsideStep
<1>22. CASE Fail(p)
  <2>1. At(p)'
    BY <1>0, <1>22 DEF Fail, Unwind, Types, At, Advanced, Selecting, Published, SameVersion,
       rootVars, selfVars
  <2>2. pc[p] \in Inside /\ \A q \in Installers \ {p} : pc'[q] = pc[q]
    BY <1>22 DEF Fail, Unwind, Types, Inside
  <2> QED
    BY <2>1, <2>2, InsideStep
<1>23. CASE LinkFails(p)
  <2>1. At(p)'
    BY <1>0, <1>23 DEF LinkFails, Goto, Types, At, Advanced, Selecting, Published, SameVersion,
       rootVars, selfVars
  <2>2. pc[p] \in Inside /\ \A q \in Installers \ {p} : pc'[q] = pc[q]
    BY <1>23 DEF LinkFails, Goto, Types, Inside
  <2> QED
    BY <2>1, <2>2, InsideStep
<1>24. CASE FailLate(p)
  <2>1. At(p)'
    BY <1>0, <1>24 DEF FailLate, Goto, Types, At, Advanced, Selecting, Published, SameVersion,
       rootVars, selfVars
  <2>2. pc[p] \in Inside /\ \A q \in Installers \ {p} : pc'[q] = pc[q]
    BY <1>24 DEF FailLate, Goto, Types, Inside
  <2> QED
    BY <2>1, <2>2, InsideStep
<1>25. CASE RollbackSelectors(p)
  <2>1. At(p)'
    BY <1>0, <1>25 DEF RollbackSelectors, Goto, Types, At, Advanced, Selecting, Published,
       SameVersion, rootVars, selfVars
  <2>2. pc[p] \in Inside /\ \A q \in Installers \ {p} : pc'[q] = pc[q]
    BY <1>25 DEF RollbackSelectors, Goto, Types, Inside
  <2> QED
    BY <2>1, <2>2, InsideStep
<1>26. CASE RollbackFlat(p)
  <2>1. At(p)'
    BY <1>0, <1>26 DEF RollbackFlat, Goto, Types, At, Advanced, Selecting, Published,
       SameVersion, rootVars, selfVars, StagingInv, Inside
  <2>2. pc[p] \in Inside /\ \A q \in Installers \ {p} : pc'[q] = pc[q]
    BY <1>26 DEF RollbackFlat, Goto, Types, Inside
  <2> QED
    BY <2>1, <2>2, InsideStep
<1>27. CASE RollbackVersion(p)
  <2>1. At(p)'
    BY <1>0, <1>27 DEF RollbackVersion, Goto, Types, At, Advanced, Selecting, Published,
       SameVersion, rootVars, selfVars
  <2>2. pc[p] \in Inside /\ \A q \in Installers \ {p} : pc'[q] = pc[q]
    BY <1>27 DEF RollbackVersion, Goto, Types, Inside
  <2> QED
    BY <2>1, <2>2, InsideStep
<1> QED
    BY <1>1, <1>2, <1>3, <1>4, <1>5, <1>6, <1>7, <1>8, <1>9, <1>10, <1>11, <1>12, <1>13, <1>14,
       <1>15, <1>16, <1>17, <1>18, <1>19, <1>20, <1>21, <1>22, <1>23, <1>24, <1>25, <1>26, <1>27
       DEF Installer

-----------------------------------------------------------------------------
(* Steps of install-cleanup.                                               *)

Cleanup == (\E t \in Tags : CleanupCheck(t) \/ CleanupActive(t)) \/ CleanupRemove \/ CleanupFails

\* install-cleanup touches neither the lock nor an installer.
LEMMA CleanupBase ==
    ASSUME BaseInv, Cleanup
    PROVE  BaseInv'
<1> USE DEF BaseInv, Types
<1>1. UNCHANGED <<flat, profile, config, link, lock, staging, pc, tag, n, saved, base, late>>
    BY DEF Cleanup, CleanupCheck, CleanupActive, CleanupRemove, CleanupFails, rootVars, selfVars
<1>2. /\ active' \in 0..MaxTag /\ versions' \in SUBSET Tags
      /\ cl' \in {"idle", "checked", "unlinked"} /\ clTag' \in Tags
    BY TagRange DEF Cleanup, CleanupCheck, CleanupActive, CleanupRemove, CleanupFails, rootVars
<1>3. Types'
    BY <1>1, <1>2
<1>4. LockInv' /\ StagingInv' /\ CountInv'
    BY <1>1 DEF LockInv, StagingInv, CountInv
<1> QED
    BY <1>3, <1>4

\* Nobody is inside when install-cleanup starts, and it is alone until it ends.
LEMMA CleanupInv ==
    ASSUME IInv, CleanupAlone, Cleanup
    PROVE  IInv'
<1> USE DEF IInv, BaseInv, Types, CleanInv, MayClean, rootVars, selfVars
<1>1. \A p \in Installers : pc[p] \notin Inside
    BY DEF Cleanup, CleanupCheck, CleanupActive, CleanupRemove, CleanupFails
<1>2. UNCHANGED pc
    BY DEF Cleanup, CleanupCheck, CleanupActive, CleanupRemove, CleanupFails
<1>3. CleanInv'
    BY <1>1, <1>2 DEF Cleanup, CleanupCheck, CleanupActive, CleanupRemove, CleanupFails
<1>4. ActiveComplete'
    BY DEF ActiveComplete, Cleanup, CleanupCheck, CleanupActive, CleanupRemove, CleanupFails
<1>5. RootInv'
    BY <1>1, <1>2, OutsideAt DEF RootInv
<1> QED
    BY <1>3, <1>4, <1>5, CleanupBase

-----------------------------------------------------------------------------
(* The theorems.                                                           *)

\* Every step is one of an installer, one of install-cleanup, or none.
LEMMA NextCases ==
    ASSUME [Next]_vars
    PROVE  (\E p \in Installers : Installer(p)) \/ Cleanup \/ UNCHANGED vars
    BY DEF Next, Installer, Cleanup

\* The invariant that needs only OneRepairer is kept by every step.
LEMMA BaseStep ==
    ASSUME OneRepairer, BaseInv, [Next]_vars
    PROVE  BaseInv'
<1>1. ASSUME NEW p \in Installers, Installer(p) PROVE BaseInv'
    BY <1>1, InstallerTypes, InstallerLock, InstallerStaging, InstallerCount DEF BaseInv
<1>2. CASE Cleanup
    BY <1>2, CleanupBase
<1>3. CASE UNCHANGED vars
    BY <1>3 DEF vars, rootVars, selfVars, cleanupVars, BaseInv, Types, LockInv, StagingInv, CountInv
<1> QED
    BY <1>1, <1>2, <1>3, NextCases

\* With CleanupAlone the full invariant is.
LEMMA FullStep ==
    ASSUME OneRepairer, CleanupAlone, IInv, [Next]_vars
    PROVE  IInv'
<1>1. ASSUME NEW p \in Installers, Installer(p) PROVE IInv'
    BY <1>1, BaseStep, InstallerClean, InstallerActive, InstallerRoot DEF IInv, BaseInv
<1>2. CASE Cleanup
    BY <1>2, CleanupInv
<1>3. CASE UNCHANGED vars
  <2>1. CleanInv' /\ ActiveComplete'
    BY <1>3 DEF vars, rootVars, selfVars, cleanupVars, IInv, CleanInv, ActiveComplete
  <2>2. RootInv'
    BY <1>3, FrameAt DEF vars, rootVars, selfVars, cleanupVars, IInv, RootInv
  <2> QED
    BY <2>1, <2>2, BaseStep DEF IInv
<1> QED
    BY <1>1, <1>2, <1>3, NextCases

\* Lock, staging directory and types, however install-cleanup is run.
LEMMA BaseInvariance ==
    ASSUME OneRepairer
    PROVE  Spec => []BaseInv
<1>1. Init => BaseInv
    BY InitInv DEF IInv
<1>2. BaseInv /\ [Next]_vars => BaseInv'
    BY BaseStep
<1> QED
    BY <1>1, <1>2, PTL DEF Spec

\* The whole inductive invariant, when install-cleanup runs alone.
LEMMA Invariance ==
    ASSUME OneRepairer, CleanupAlone
    PROVE  Spec => []IInv
<1>1. IInv /\ [Next]_vars => IInv'
    BY FullStep
<1> QED
    BY InitInv, <1>1, PTL DEF Spec

\* At most one installer is ever between taking the install-state lock and giving
\* it back, although the lock is made and filled in two steps, its owner may be
\* killed at any step and another removes what the dead one left.
THEOREM SingleWriter ==
    ASSUME OneRepairer
    PROVE  Spec => []OneWriter
<1>1. BaseInv => OneWriter
  <2> SUFFICES ASSUME BaseInv PROVE Cardinality({p \in Installers : pc[p] \in Inside}) <= 1
    BY DEF OneWriter
  <2>1. CASE {p \in Installers : pc[p] \in Inside} = {}
    BY <2>1, FS_EmptySet
  <2>2. CASE \E q \in Installers : pc[q] \in Inside
    <3>1. PICK q \in Installers : pc[q] \in Inside
        BY <2>2
    <3>2. {p \in Installers : pc[p] \in Inside} = {q}
        BY <3>1, Alone DEF BaseInv
    <3> QED
        BY <3>2, FS_Singleton
  <2> QED
    BY <2>1, <2>2
<1> QED
    BY <1>1, BaseInvariance, PTL

\* Types hold, at most one staging directory exists, and the installer that needs
\* one has it.
THEOREM TypeCorrect ==
    ASSUME OneRepairer
    PROVE  Spec => []TypeOK
<1>1. BaseInv => TypeOK
  <2> SUFFICES ASSUME BaseInv PROVE TypeOK
    OBVIOUS
  <2>1. Cardinality(staging) <= 1
    <3>1. CASE staging = {}
        BY <3>1, FS_EmptySet
    <3>2. CASE \E q : q \in staging
      <4>1. PICK q : q \in staging
        BY <3>2
      <4>2. staging = {q}
        BY <4>1 DEF BaseInv, StagingInv
      <4>3. Cardinality({q}) = 1
        BY FS_Singleton
      <4> QED
        BY <4>2, <4>3
    <3> QED
        BY <3>1, <3>2
  <2>2. \A p \in Installers : pc[p] \in Inside \ {"record", "staging"} => p \in staging \/ pc[p] = "failed"
    BY DEF BaseInv, StagingInv
  <2> QED
    BY <2>1, <2>2, PartsFacts DEF TypeOK, BaseInv, Types, Places, Configs
<1> QED
    BY <1>1, BaseInvariance, PTL

\* The active pointer always leads to a version directory: publication comes
\* before the flip, no rollback removes the active release, and install-cleanup
\* takes the pointer away first.
THEOREM ActiveIsComplete ==
    ASSUME OneRepairer, CleanupAlone
    PROVE  Spec => []ActiveComplete
<1>1. IInv => ActiveComplete
    BY DEF IInv
<1> QED
    BY <1>1, Invariance, PTL

\* An install that reports success has left pointer, version directory, flat
\* projection, selectors and PATH link at its release.
THEOREM SuccessIsSelection ==
    ASSUME OneRepairer, CleanupAlone
    PROVE  Spec => []SuccessMeansSelected
<1>1. IInv => SuccessMeansSelected
    BY DEF IInv, RootInv, At, Published, SameVersion, Selecting, SuccessMeansSelected, PartSet
<1> QED
    BY <1>1, Invariance, PTL

\* An install that fails has restored pointer, version directories and flat
\* projection, and unless one of two late errors happened also the selectors and
\* the PATH link, wherever it failed.
THEOREM FailureIsRollback ==
    ASSUME OneRepairer, CleanupAlone
    PROVE  Spec => []FailureRestores
<1>1. IInv => FailureRestores
    BY DEF IInv, RootInv, At, FailureRestores
<1> QED
    BY <1>1, Invariance, PTL
=============================================================================
