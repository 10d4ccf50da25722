---------------------------- MODULE AtomicOutput ----------------------------
(***************************************************************************)
(* What publication promises: a command puts its whole package at its      *)
(* output path in one step, once, and only where nothing is in the way, or *)
(* it leaves the path alone.                                               *)
(***************************************************************************)
CONSTANTS
    Commands,       \* commands that were given the same output path
    Package         \* Package[c]: the files of the package of c

VARIABLES
    output,         \* what is at the output path
    concluded       \* commands that published or never will

Absent == [type |-> "absent", entries |-> {}]
File == [type |-> "file", entries |-> {}]
Directory(entries) == [type |-> "directory", entries |-> entries]

\* An empty directory is as good as nothing: there is nothing in it to lose.
Vacant == output \in {Absent, Directory({})}

AtomicInit == output = Absent /\ concluded = {}

Publish(c) ==
    /\ c \in Commands \ concluded
    /\ Vacant
    /\ output' = Directory(Package[c])
    /\ concluded' = concluded \cup {c}

GiveUp(c) ==
    /\ c \in Commands \ concluded
    /\ concluded' = concluded \cup {c}
    /\ UNCHANGED output

\* A command that was interrupted is run again.
Again(c) ==
    /\ c \in concluded
    /\ concluded' = concluded \ {c}
    /\ UNCHANGED output

\* The user, or another program, at the output path.
Foreign == <<"host", "file">>

Occupies ==
    \/ output = Absent /\ output' \in {File, Directory({})}
    \/ output.type = "directory" /\ output' = Directory(output.entries \cup {Foreign})
    \/ output' = Absent

Host == Occupies /\ UNCHANGED concluded

AtomicNext == Host \/ \E c \in Commands : Publish(c) \/ GiveUp(c) \/ Again(c)

AtomicSpec == AtomicInit /\ [][AtomicNext]_<<output, concluded>>
=============================================================================
