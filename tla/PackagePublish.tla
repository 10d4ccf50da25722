--------------------------- MODULE PackagePublish ---------------------------
(***************************************************************************)
(* How trace_repository (pipeline.py) and triage_sarif (triage.py) publish *)
(* a package: the output path has to be free when the command starts; much *)
(* later its files are written, one by one, to a staging directory of the  *)
(* command's own beside the output path, and the staging directory is      *)
(* renamed to the output path (Path.replace).                              *)
(*                                                                         *)
(* Several commands may have been given the same output path, each may be  *)
(* interrupted at any point and run again, and the user may create, fill   *)
(* and remove what is there at any time.                                   *)
(***************************************************************************)
EXTENDS Integers

CONSTANTS
    Commands,           \* commands that were given the same output path
    Artifacts,          \* the names of the files of a package, without its manifest
    MaxInterruptions,   \* bound on interruptions
    MaxHostSteps        \* bound on what the user does at the output path

ASSUME PublishAssumption ==
    /\ "host" \notin Commands
    /\ "manifest" \notin Artifacts
    /\ Artifacts # {}
    /\ MaxInterruptions \in Nat
    /\ MaxHostSteps \in Nat

VARIABLES
    kind,           \* "trace" or "triage"
    pc,
    staged,         \* the files in each command's staging directory
    result,         \* how each command ends: "ok" or "error"
    output,         \* what is at the output path
    interruptions,
    hostSteps,
    removed         \* history: commands whose package the user removed

vars == <<kind, pc, staged, result, output, interruptions, hostSteps, removed>>

Files == Artifacts \cup {"manifest"}

\* A file of a package is known by the command that wrote it.
Package == [c \in Commands |-> {<<c, name>> : name \in Files}]

\* The commands of whose package something is at the output path.
Owners == {c \in Commands : \E name \in Files : <<c, name>> \in output.entries}

Concluded == {c \in Commands : pc[c] \in {"cleanup", "ended", "interrupted"}}

Contract == INSTANCE AtomicOutput WITH concluded <- Concluded

Init ==
    /\ kind \in [Commands -> {"trace", "triage"}]
    /\ pc = [c \in Commands |-> "check"]
    /\ staged = [c \in Commands |-> {}]
    /\ result = [c \in Commands |-> "none"]
    /\ output = Contract!Absent
    /\ interruptions = 0
    /\ hostSteps = 0
    /\ removed = {}

-----------------------------------------------------------------------------
Goto(c, from, to) == pc[c] = from /\ pc' = [pc EXCEPT ![c] = to]

NothingElse == UNCHANGED <<kind, interruptions, hostSteps, removed>>

Fail(c, from, to) ==
    /\ Goto(c, from, to)
    /\ result' = [result EXCEPT ![c] = "error"]
    /\ UNCHANGED <<staged, output>>
    /\ NothingElse

\* output_directory.exists()
Check(c) ==
    /\ output = Contract!Absent
    /\ Goto(c, "check", "work")
    /\ UNCHANGED <<staged, result, output>>
    /\ NothingElse

Refuse(c) == output # Contract!Absent /\ Fail(c, "check", "ended")

\* Import, snapshot, index, localisation, reproduction, bundle: no file of the
\* package is written before all of them are done.
WorkFails(c) == Fail(c, "work", "ended")

MakeStaging(c) ==
    /\ Goto(c, "work", "stage")
    /\ staged' = [staged EXCEPT ![c] = {}]
    /\ UNCHANGED <<result, output>>
    /\ NothingElse

\* dump_json, which puts a whole file at its name.  The order is left open.
StageArtifact(c) ==
    /\ Goto(c, "stage", "stage")
    /\ \E name \in Artifacts \ staged[c] : staged' = [staged EXCEPT ![c] = @ \cup {name}]
    /\ UNCHANGED <<result, output>>
    /\ NothingElse

\* Mutation: the manifest is added to the package after its publication.
WriteManifestLater(c) ==
    /\ Artifacts \subseteq staged[c]
    /\ Goto(c, "stage", IF kind[c] = "triage" THEN "verify" ELSE "replace")
    /\ UNCHANGED <<staged, result, output>>
    /\ NothingElse

WriteManifest(c) ==
    /\ Artifacts \subseteq staged[c]
    /\ Goto(c, "stage", IF kind[c] = "triage" THEN "verify" ELSE "replace")
    /\ staged' = [staged EXCEPT ![c] = @ \cup {"manifest"}]
    /\ UNCHANGED <<result, output>>
    /\ NothingElse

\* No space is left, say.
StageFails(c) == Fail(c, "stage", "cleanup")

\* verify_triage_package(staging): see module Triage.
Verify(c) ==
    /\ Goto(c, "verify", "replace")
    /\ UNCHANGED <<staged, result, output>>
    /\ NothingElse

VerifyFails(c) == Fail(c, "verify", "cleanup")

\* Mutation: what is in the way is removed first.
RenamesOverAnything == TRUE

\* rename(2) replaces an empty directory and no other.
Renames == Contract!Vacant

Replace(c) ==
    /\ Renames
    /\ Goto(c, "replace", "cleanup")
    /\ output' = Contract!Directory({<<c, name>> : name \in staged[c]})
    /\ result' = [result EXCEPT ![c] = "ok"]
    /\ UNCHANGED staged
    /\ NothingElse

\* Mutation: a package that is there already is taken to be the one.
ReplaceFailsQuietly(c) ==
    /\ output # Contract!Absent
    /\ Goto(c, "replace", "cleanup")
    /\ result' = [result EXCEPT ![c] = "ok"]
    /\ UNCHANGED <<staged, output>>
    /\ NothingElse

\* A file or a directory is in the way.  (An empty one is not, but on Windows.)
ReplaceFails(c) == output # Contract!Absent /\ Fail(c, "replace", "cleanup")

\* TemporaryDirectory.__exit__
Cleanup(c) ==
    /\ Goto(c, "cleanup", "ended")
    /\ staged' = [staged EXCEPT ![c] = {}]
    /\ UNCHANGED <<result, output>>
    /\ NothingElse

Command(c) ==
    \/ Check(c) \/ Refuse(c)
    \/ WorkFails(c) \/ MakeStaging(c)
    \/ StageArtifact(c) \/ WriteManifest(c) \/ StageFails(c)
    \/ Verify(c) \/ VerifyFails(c)
    \/ Replace(c) \/ ReplaceFails(c)
    \/ Cleanup(c)

-----------------------------------------------------------------------------
\* Killed: no cleanup.  (A loss of power is not modelled: nothing is fsynced.)
Interrupt(c) ==
    /\ interruptions < MaxInterruptions
    /\ pc[c] \notin {"ended", "interrupted"}
    /\ pc' = [pc EXCEPT ![c] = "interrupted"]
    /\ interruptions' = interruptions + 1
    /\ UNCHANGED <<kind, staged, result, output, hostSteps, removed>>

\* The next attempt has a staging directory of its own.
RunAgain(c) ==
    /\ Goto(c, "interrupted", "check")
    /\ staged' = [staged EXCEPT ![c] = {}]
    /\ result' = [result EXCEPT ![c] = "none"]
    /\ UNCHANGED output
    /\ NothingElse

HostActs ==
    /\ hostSteps < MaxHostSteps
    /\ hostSteps' = hostSteps + 1
    /\ UNCHANGED <<kind, pc, staged, result, interruptions>>

HostCreates ==
    /\ output = Contract!Absent
    /\ output' \in {Contract!File, Contract!Directory({})}
    /\ HostActs
    /\ UNCHANGED removed

HostAddsFile ==
    /\ output.type = "directory"
    /\ output' = Contract!Directory(output.entries \cup {Contract!Foreign})
    /\ HostActs
    /\ UNCHANGED removed

HostRemoves ==
    /\ output # Contract!Absent
    /\ output' = Contract!Absent
    /\ removed' = removed \cup Owners
    /\ HostActs

Next ==
    \/ \E c \in Commands : Command(c) \/ Interrupt(c) \/ RunAgain(c)
    \/ HostCreates \/ HostAddsFile \/ HostRemoves

Spec == Init /\ [][Next]_vars

-----------------------------------------------------------------------------
TypeOK ==
    /\ kind \in [Commands -> {"trace", "triage"}]
    /\ pc \in [Commands -> {"check", "work", "stage", "verify", "replace", "cleanup",
                            "ended", "interrupted"}]
    /\ staged \in [Commands -> SUBSET Files]
    /\ result \in [Commands -> {"none", "ok", "error"}]
    /\ output \in [type : {"absent", "file", "directory"},
                   entries : SUBSET ((UNION {Package[c] : c \in Commands}) \cup {Contract!Foreign})]
    /\ interruptions \in Nat
    /\ hostSteps \in Nat
    /\ removed \subseteq Commands

\* What a command put at the output path is never part of a package, nor mixed with
\* another command's, at any point of an interruption or of a race for the path.
OutputWhole ==
    /\ \A c \in Owners : Package[c] \subseteq output.entries
    /\ \A c, d \in Owners : c = d

\* A command that reports success published: its package is at the output path until
\* the user removes it.  Of two commands for one path only one can tell so.
SuccessMeansPublished ==
    \A c \in Commands : pc[c] = "ended" /\ result[c] = "ok" => c \in Owners \cup removed

\* Every step of a command is one of its contract: it publishes all or nothing, and it
\* replaces nothing but an empty directory.
PublishesAtomically == Contract!AtomicSpec
=============================================================================
