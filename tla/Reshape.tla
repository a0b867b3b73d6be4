------------------------------ MODULE Reshape ------------------------------
(***************************************************************************)
(* mdadm --grow on an array: reshape_array in Grow.c hands it to the       *)
(* metadata handler's manage_reshape if the metadata is external, and to   *)
(* child_monitor if it is native; assembly asks recover_backup or          *)
(* Grow_restart.  Both promise the same of the same driver.                *)
(***************************************************************************)
EXTENDS ReshapeKernel

CONSTANTS Migrations,   \* the shapes of IMSM volumes; Shapes are those of native arrays
          Slide, Larger, Depth, MaxCrashes, Happens

NativeEvents == {"early", "sigterm", "overwrite", "passed"}
ImsmEvents   == {"sigterm", "kill", "hasty", "overwrite", "unsuspended", "last", "slow",
                 "reorder"}

ASSUME LargerAssumption == Larger \in Nat \ {0}
ASSUME SlideAssumption == Slide \in Nat /\ Slide >= 2 * Larger
ASSUME DepthAssumption == Depth \in Nat \ {0}
ASSUME MaxCrashesAssumption == MaxCrashes \in Nat
ASSUME HappensAssumption == Happens \subseteq NativeEvents \cup ImsmEvents
ASSUME MigrationsAssumption ==
    Migrations \subseteq {s \in (Nat \ {0}) \X (Nat \ {0}) \X (Nat \ {0}) : s[1] <= s[2]}

VARIABLES
    external,   \* st->ss->external
    pc, progress, crashes,
    backupPoint, suspendPoint, part, maxProgress, more, hdr, two, held,
    step, mem, rec, first, todo, copy

nativeVars == <<backupPoint, suspendPoint, part, maxProgress, more, hdr, two, held>>
imsmVars   == <<step, mem, rec, first, todo, copy>>
vars == <<kernelVars, external, pc, progress, crashes, nativeVars, imsmVars>>

Native == INSTANCE ReshapeBackup
Imsm   == INSTANCE GeneralMigration WITH Shapes <- Migrations

NoNative ==
    /\ backupPoint = 0 /\ suspendPoint = 0 /\ part = 0 /\ maxProgress = 0 /\ more = 0
    /\ hdr = [p \in Native!Half |-> Native!Empty] /\ two = FALSE
    /\ held = [p \in Native!Half |-> {}]

NoImsm ==
    /\ step = 0 /\ mem = Imsm!NoRecord /\ rec = [s \in Imsm!Slot |-> Imsm!NoRecord]
    /\ first = 1 /\ todo = {} /\ copy = [unit |-> 0, held |-> {}]

Init ==
    \/ external = FALSE /\ Native!Init /\ NoImsm
    \/ external = TRUE /\ Imsm!Init /\ NoNative

ByMdadm(A)   == ~ external /\ A /\ UNCHANGED <<external, imsmVars>>
ByHandler(A) == external /\ A /\ UNCHANGED <<external, nativeVars>>

Next == ByMdadm(Native!Next) \/ ByHandler(Imsm!Next)

Spec == Init /\ [][Next]_vars

\* What each of the two specifications says of its own steps.
FairSpec ==
    /\ Spec
    /\ WF_vars(ByMdadm(Native!Driver)) /\ WF_vars(ByMdadm(Native!Child))
    /\ WF_vars(ByMdadm(Native!Restart))
    /\ WF_vars(ByHandler(Imsm!Driver)) /\ WF_vars(ByHandler(Imsm!EndMigration))
    /\ WF_vars(ByHandler(Imsm!Mdadm)) /\ WF_vars(ByHandler(Imsm!Restart))
-----------------------------------------------------------------------------
TypeOK == IF external THEN Imsm!TypeOK ELSE Native!TypeOK

\* Crash safety of both (Grow.c:3288, "so that we can restore data after a crash";
\* super-intel.c:326): at every instant the devices together with the backup file, or
\* with the copy area, hold the present data of every address, and the next assembly
\* finds it.
NothingLost == IF external THEN Imsm!NothingLost ELSE Native!NothingLost

\* What the backup file covers, and child_monitor has not released, does not grow stale
\* while the array is watched (Grow.c:4625).
BackupIsCurrent == external \/ Native!BackupIsCurrent

\* Every reshape ends, unless it is aborted or assembly refuses it: mdadm, the driver and
\* mdmon never wait for each other.
ReshapeEnds ==
    /\ ~ external => Native!ReshapeEnds
    /\ external => Imsm!ReshapeEnds
=============================================================================
