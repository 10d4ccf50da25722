------------------------------ MODULE Snapshot ------------------------------
(***************************************************************************)
(* RepositoryWorkspace.__enter__ (repository.py): a repository that other  *)
(* processes may be writing to becomes a private copy with an identity.    *)
(*                                                                         *)
(* A directory is listed and hashed (repository_manifest), then copied,    *)
(* each copied file compared with its hash (_copy_repository).  An archive *)
(* is hashed, extracted, and hashed again.                                 *)
(*                                                                         *)
(* The source is a set of units, each read in one go: a unit is a piece of *)
(* a file, as small as its writers make it necessary.  All that the code   *)
(* compares is content: a writer may give a unit any content, one that it  *)
(* had before included (a change undone, a branch switched to and back).   *)
(* The order in which the code goes through the units is left open.        *)
(***************************************************************************)
EXTENDS Integers

CONSTANTS
    Units,      \* the units the source may have
    Payloads,   \* the contents of a unit
    Absent,     \* what a unit holds that is not there
    MaxWrites   \* bound on the writes and deletions of other processes

ASSUME SnapshotAssumption ==
    /\ Absent \notin Payloads
    /\ MaxWrites \in Nat

VARIABLES
    kind,       \* "directory" or "archive"
    phase,
    source,     \* the content of each unit
    writes,     \* how many changes other processes made
    scanned,    \* units whose directory has been listed
    listed,     \* units the listing found
    hashed,     \* the content that was hashed of a unit, if any
    copied,     \* the content that was copied or extracted, if any
    compared,   \* units found unchanged since they were hashed
    boundary,   \* history: the source at the end of the (first) hashing
    gone,       \* history: units that were absent at some time
    returned    \* history: units that had the content that was hashed back after the
                \* hashing, and before it was compared

sourceVars == <<source, writes, gone, returned>>
snapshotVars ==
    <<kind, phase, sourceVars, scanned, listed, hashed, copied, compared, boundary>>

NoContent == [u \in Units |-> Absent]

SnapshotInit ==
    /\ kind \in {"directory", "archive"}
    /\ source \in [Units -> Payloads \cup {Absent}]
    /\ writes = 0
    /\ \/ kind = "directory" /\ phase = "scan" /\ scanned = {} /\ listed = {}
       \/ /\ kind = "archive" /\ phase = "hash" /\ scanned = Units /\ listed = Units
          /\ \A u \in Units : source[u] # Absent
    /\ hashed = NoContent
    /\ copied = NoContent
    /\ compared = {}
    /\ boundary = NoContent
    /\ gone = {u \in Units : source[u] = Absent}
    /\ returned = {}

-----------------------------------------------------------------------------
(* Another process.                                                        *)

Change(u, content) ==
    /\ writes < MaxWrites
    /\ content # source[u]
    /\ writes' = writes + 1
    /\ source' = [source EXCEPT ![u] = content]
    /\ UNCHANGED <<kind, phase, scanned, listed, hashed, copied, compared, boundary>>

\* The hashed content is there again, and has yet to be compared.
Returns(u, content) ==
    /\ phase \in {"copy", "rehash"}
    /\ content = hashed[u]
    /\ u \notin compared

Write(u) ==
    \E content \in Payloads :
        /\ Change(u, content)
        /\ returned' = IF Returns(u, content) THEN returned \cup {u} ELSE returned
        /\ UNCHANGED gone

\* The units of an archive are ranges of its bytes; to cut it is to write to it.
Delete(u) ==
    /\ kind = "directory"
    /\ Change(u, Absent)
    /\ gone' = gone \cup {u}
    /\ UNCHANGED returned

-----------------------------------------------------------------------------
(* Listing a directory: os.scandir of one directory after the other.       *)

Scan(u) ==
    /\ phase = "scan"
    /\ u \notin scanned
    /\ scanned' = scanned \cup {u}
    /\ listed' = IF source[u] # Absent THEN listed \cup {u} ELSE listed
    /\ UNCHANGED <<kind, phase, sourceVars, hashed, copied, compared, boundary>>

\* Mutation: the listing ends with directories still pending.
ScanEndsEarly ==
    /\ phase = "scan"
    /\ scanned # {}
    /\ phase' = "hash"
    /\ UNCHANGED <<kind, sourceVars, scanned, listed, hashed, copied, compared, boundary>>

ScanEnds ==
    /\ phase = "scan"
    /\ scanned = Units
    /\ phase' = "hash"
    /\ UNCHANGED <<kind, sourceVars, scanned, listed, hashed, copied, compared, boundary>>

-----------------------------------------------------------------------------
Hash(u) ==
    /\ phase = "hash"
    /\ u \in listed
    /\ hashed[u] = Absent
    /\ source[u] # Absent
    /\ hashed' = [hashed EXCEPT ![u] = source[u]]
    /\ UNCHANGED <<kind, phase, sourceVars, scanned, listed, copied, compared, boundary>>

HashEnds ==
    /\ phase = "hash"
    /\ \A u \in listed : hashed[u] # Absent
    /\ phase' = "copy"
    /\ boundary' = source
    /\ UNCHANGED <<kind, sourceVars, scanned, listed, hashed, copied, compared>>

-----------------------------------------------------------------------------
(* Copying a directory compares as it goes; extracting an archive does not. *)

\* Mutation: copied bytes are not compared with the manifest.
MatchesUnchecked(u) == TRUE

Matches(u) == source[u] = hashed[u]

Copy(u) ==
    /\ phase = "copy"
    /\ u \in listed
    /\ copied[u] = Absent
    /\ source[u] # Absent
    /\ kind = "directory" => Matches(u)
    /\ copied' = [copied EXCEPT ![u] = source[u]]
    /\ compared' = IF kind = "directory" THEN compared \cup {u} ELSE compared
    /\ UNCHANGED <<kind, phase, sourceVars, scanned, listed, hashed, boundary>>

CopyEnds ==
    /\ phase = "copy"
    /\ \A u \in listed : copied[u] # Absent
    /\ phase' = IF kind = "directory" THEN "ready" ELSE "rehash"
    /\ UNCHANGED <<kind, sourceVars, scanned, listed, hashed, copied, compared, boundary>>

\* The second sha256_file of an archive; both digests have to agree.
Rehash(u) ==
    /\ phase = "rehash"
    /\ u \in listed \ compared
    /\ Matches(u)
    /\ compared' = compared \cup {u}
    /\ UNCHANGED <<kind, phase, sourceVars, scanned, listed, hashed, copied, boundary>>

RehashEnds ==
    /\ phase = "rehash"
    /\ listed \subseteq compared
    /\ phase' = "ready"
    /\ UNCHANGED <<kind, sourceVars, scanned, listed, hashed, copied, compared, boundary>>

\* An entry that is unsupported, over a limit, gone or changed: any phase can
\* end in an error, and one that meets a changed unit has no other way on.
Fails ==
    /\ phase \in {"scan", "hash", "copy", "rehash"}
    /\ phase' = "failed"
    /\ UNCHANGED <<kind, sourceVars, scanned, listed, hashed, copied, compared, boundary>>

-----------------------------------------------------------------------------
Enter ==
    \/ \E u \in Units : Scan(u) \/ Hash(u) \/ Copy(u) \/ Rehash(u)
    \/ ScanEnds \/ HashEnds \/ CopyEnds \/ RehashEnds
    \/ Fails

SnapshotNext ==
    \/ Enter
    \/ \E u \in Units : Write(u) \/ Delete(u)

SnapshotSpec == SnapshotInit /\ [][SnapshotNext]_snapshotVars

-----------------------------------------------------------------------------
SnapshotTypeOK ==
    /\ kind \in {"directory", "archive"}
    /\ phase \in {"scan", "hash", "copy", "rehash", "ready", "failed"}
    /\ writes \in Nat
    /\ {source, hashed, copied, boundary} \subseteq [Units -> Payloads \cup {Absent}]
    /\ scanned \subseteq Units
    /\ listed \subseteq scanned
    /\ compared \subseteq listed
    /\ gone \subseteq Units
    /\ returned \subseteq Units

\* A workspace that was entered holds the source as it was at one instant, that
\* of the end of the hashing, however its writers and the three passes of reads
\* interleave, and that is the content its identity was computed from.  Comparing
\* contents cannot tell this of a unit whose content was changed and then put back
\* between the end of the hashing and its second reading; of a directory even such
\* a unit is copied as it was hashed.  (For the files it lists: see
\* NothingStableMissed.)
SnapshotOfOneInstant ==
    phase = "ready" =>
        /\ \A u \in listed \ returned : copied[u] = boundary[u] /\ hashed[u] = boundary[u]
        /\ kind = "directory" => \A u \in listed : copied[u] = hashed[u]

\* A unit that was there all along is never missing from the workspace, and
\* nothing is copied that was not listed.
NothingStableMissed ==
    phase = "ready" =>
        /\ Units \ gone \subseteq listed
        /\ \A u \in Units : copied[u] # Absent => u \in listed
=============================================================================
