----------------------------- MODULE LPKBuild -----------------------------
(***************************************************************************)
(* One call of build.Builder.Build (internal/build/build.go): the LPK is   *)
(* assembled under a temporary name, reopened and verified there, and only *)
(* then renamed to the output.  The files it packs are the workspace; the  *)
(* project's buildscript and the toolkit are external.                     *)
(***************************************************************************)
EXTENDS Integers

CONSTANTS
  PackageVersion, \* versions a package.yml may name; 0 is none
  License,
  Images,         \* what the manifest says of the images
  NoFile

ASSUME BuildAssumption ==
  /\ PackageVersion \subseteq Nat /\ 0 \in PackageVersion

Workspace == [version : PackageVersion, license : License, images : Images]

\* An LPK, and whether it passes deploy-parameter validation and lint.
LPK == [content : Workspace, sound : BOOLEAN]

ASSUME NoFileIsNone == NoFile \notin LPK

VARIABLES
  ws,        \* package.yml and the manifest
  temporary, \* the file .lazycat-action-*.lpk, or NoFile
  output,    \* the file at Project.Output, or NoFile
  build      \* the call: its step and the version it was asked for

buildVars == <<temporary, output, build>>

BuildPC == {"idle", "assemble", "verify", "install", "sync", "built", "failed"}

BuildInit ==
  /\ ws \in Workspace
  /\ temporary = NoFile
  /\ output = NoFile
  /\ build = [pc |-> "idle", version |-> 0]

BuildTo(pc) == build' = [build EXCEPT !.pc = pc]

\* The deferred function removes the temporary file of a failed call.
BuildFails == BuildTo("failed") /\ temporary' = NoFile /\ UNCHANGED output

-----------------------------------------------------------------------------
\* Build is called for a version; the inspected package must have it, and the
\* project's deploy parameters must be valid.
StartBuild(version) ==
  /\ build.pc = "idle"
  /\ \/ /\ version # 0 /\ ws.version = version
        /\ build' = [pc |-> "assemble", version |-> version]
     \/ build' = [pc |-> "failed", version |-> version]
  /\ UNCHANGED <<ws, temporary, output>>

\* BuildFile: the buildscript and the image builds run, and an LPK is packed.
\* The buildscript may stamp another version into what is packed.
Assemble ==
  /\ build.pc = "assemble"
  /\ \/ BuildFails
     \/ \E sound \in BOOLEAN, stamped \in PackageVersion :
          /\ temporary' = [content |-> [ws EXCEPT !.version = stamped],
                           sound |-> sound]
          /\ BuildTo("verify")
          /\ UNCHANGED output
  /\ UNCHANGED ws

\* The reopened LPK must have the version asked for; deploy parameters and lint.
Acceptable_AnyVersion(lpk) == lpk.sound
Acceptable(lpk) == lpk.sound /\ lpk.content.version = build.version

VerifyBuilt ==
  /\ build.pc = "verify"
  /\ IF Acceptable(temporary)
     THEN BuildTo("install") /\ UNCHANGED <<temporary, output>>
     ELSE BuildFails
  /\ UNCHANGED ws

\* The rename, after the hash of the temporary file.
InstallOutput ==
  /\ build.pc = "install"
  /\ \/ BuildFails
     \/ /\ output' = temporary
        /\ temporary' = NoFile
        /\ BuildTo("sync")
  /\ UNCHANGED ws

\* The directory is synchronised; if that fails the call fails, and the output
\* has been replaced nevertheless.
SyncOutput ==
  /\ build.pc = "sync"
  /\ BuildTo("built") \/ BuildTo("failed")
  /\ UNCHANGED <<ws, temporary, output>>

BuildStep == Assemble \/ VerifyBuilt \/ InstallOutput \/ SyncOutput

BuildTypeOK ==
  /\ ws \in Workspace
  /\ temporary \in LPK \cup {NoFile}
  /\ output \in LPK \cup {NoFile}
  /\ build \in [pc : BuildPC, version : PackageVersion]

\* An LPK gets the name of the output only after it was verified, and no
\* temporary file survives the call, wherever it fails.
OutputIsVerified ==
  /\ output # NoFile =>
       output.sound /\ output.content.version = build.version
  /\ build.pc \in {"built", "failed"} => temporary = NoFile
=============================================================================
