---------------------------- MODULE OutputBudget ----------------------------
(***************************************************************************)
(* The capture of one container's output (sandbox.py, _SharedBudget and    *)
(* _Stream).  Two daemon threads drain the two pipes of the `docker start  *)
(* --attach` process.  Each one hashes and counts every byte it reads, and *)
(* asks a budget that both share how many bytes of the chunk it may retain *)
(* for the witnesses and the preview.  A byte is only counted here: what   *)
(* the properties tell apart is how many were hashed, counted and retained.*)
(***************************************************************************)
EXTENDS Integers

CONSTANTS
    Limit,      \* _SharedBudget.limit: limits.output_bytes of the plan
    ReadSize,   \* the 65_536 of stream.read
    MaxBytes    \* bound: bytes one stream carries in all

ASSUME BudgetAssumption ==
    /\ Limit \in Nat \ {0}
    /\ ReadSize \in Nat \ {0}
    /\ MaxBytes \in Nat

VARIABLES
    pipe,       \* bytes the attach process wrote and no read has returned
    eof,        \* the write ends of the pipes are closed
    tpc,        \* where each drain thread is
    chunk,      \* len(chunk) of each thread
    keep,       \* what reserve returned to each thread
    digested,   \* bytes fed to _Stream.digest
    count,      \* _Stream.count
    retained,   \* len(_Stream.retained)
    total,      \* _SharedBudget.total
    exceeded    \* _SharedBudget.exceeded

budgetVars ==
    <<pipe, eof, tpc, chunk, keep, digested, count, retained, total, exceeded>>

Streams == {"stdout", "stderr"}

BudgetInit ==
    /\ pipe = [s \in Streams |-> 0]
    /\ eof = FALSE
    /\ tpc = [s \in Streams |-> "read"]
    /\ chunk = [s \in Streams |-> 0]
    /\ keep = [s \in Streams |-> 0]
    /\ digested = [s \in Streams |-> 0]
    /\ count = [s \in Streams |-> 0]
    /\ retained = [s \in Streams |-> 0]
    /\ total = 0
    /\ exceeded = FALSE

-----------------------------------------------------------------------------
(* The attach process, at the other end of the pipes. *)

Deliver(s, n) ==
    /\ ~eof
    /\ digested[s] + pipe[s] + n <= MaxBytes
    /\ pipe' = [pipe EXCEPT ![s] = @ + n]
    /\ UNCHANGED <<eof, tpc, chunk, keep, digested, count, retained, total, exceeded>>

\* Both pipes close when the process that holds them ends.
ClosePipes ==
    /\ eof' = TRUE
    /\ UNCHANGED <<pipe, tpc, chunk, keep, digested, count, retained, total, exceeded>>

-----------------------------------------------------------------------------
(* One drain thread.  BufferedReader.read(n) blocks until n bytes are there *)
(* or the pipe is at its end, so a short chunk is always the last one.      *)

\* Mutation: a short last chunk is never returned.
ReadableWholeOnly(s) == IF pipe[s] >= ReadSize THEN ReadSize ELSE 0

Readable(s) ==
    IF pipe[s] >= ReadSize THEN ReadSize ELSE IF eof THEN pipe[s] ELSE 0

ReadAndDigest(s) ==
    /\ tpc[s] = "read"
    /\ Readable(s) > 0
    /\ tpc' = [tpc EXCEPT ![s] = "count"]
    /\ chunk' = [chunk EXCEPT ![s] = Readable(s)]
    /\ pipe' = [pipe EXCEPT ![s] = @ - Readable(s)]
    /\ digested' = [digested EXCEPT ![s] = @ + Readable(s)]
    /\ UNCHANGED <<eof, keep, count, retained, total, exceeded>>

ReadEnd(s) ==
    /\ tpc[s] = "read"
    /\ eof
    /\ pipe[s] = 0
    /\ tpc' = [tpc EXCEPT ![s] = "done"]
    /\ UNCHANGED <<pipe, eof, chunk, keep, digested, count, retained, total, exceeded>>

Count(s) ==
    /\ tpc[s] = "count"
    /\ tpc' = [tpc EXCEPT ![s] = "reserve"]
    /\ count' = [count EXCEPT ![s] = @ + chunk[s]]
    /\ UNCHANGED <<pipe, eof, chunk, keep, digested, retained, total, exceeded>>

\* reserve holds the lock from its first line to its last: one step.
Available == IF total < Limit THEN Limit - total ELSE 0

Granted(s) == IF chunk[s] <= Available THEN chunk[s] ELSE Available

\* Mutation: a chunk that does not fit is dropped and charged nothing.
ReserveSkipsOversized(s) ==
    /\ tpc[s] = "reserve"
    /\ LET fits == chunk[s] <= Available
       IN /\ keep' = [keep EXCEPT ![s] = IF fits THEN chunk[s] ELSE 0]
          /\ total' = IF fits THEN total + chunk[s] ELSE total
          /\ exceeded' = (exceeded \/ ~fits)
          /\ tpc' = [tpc EXCEPT ![s] = IF fits THEN "extend" ELSE "read"]
    /\ UNCHANGED <<pipe, eof, chunk, digested, count, retained>>

Reserve(s) ==
    /\ tpc[s] = "reserve"
    /\ keep' = [keep EXCEPT ![s] = Granted(s)]
    /\ total' = total + chunk[s]
    /\ exceeded' = (exceeded \/ total + chunk[s] > Limit)
    /\ tpc' = [tpc EXCEPT ![s] = IF Granted(s) > 0 THEN "extend" ELSE "read"]
    /\ UNCHANGED <<pipe, eof, chunk, digested, count, retained>>

Extend(s) ==
    /\ tpc[s] = "extend"
    /\ retained' = [retained EXCEPT ![s] = @ + keep[s]]
    /\ tpc' = [tpc EXCEPT ![s] = "read"]
    /\ UNCHANGED <<pipe, eof, chunk, keep, digested, count, total, exceeded>>

Drain(s) == ReadAndDigest(s) \/ ReadEnd(s) \/ Count(s) \/ Reserve(s) \/ Extend(s)

Drained == \A s \in Streams : tpc[s] = "done"

BudgetNext ==
    \/ \E s \in Streams, n \in 1..MaxBytes : Deliver(s, n)
    \/ ClosePipes
    \/ \E s \in Streams : Drain(s)

BudgetSafety == BudgetInit /\ [][BudgetNext]_budgetVars

\* The operating system schedules both threads.
BudgetSpec == BudgetSafety /\ \A s \in Streams : WF_budgetVars(Drain(s))

-----------------------------------------------------------------------------
BudgetTypeOK ==
    /\ pipe \in [Streams -> Nat]
    /\ eof \in BOOLEAN
    /\ tpc \in [Streams -> {"read", "count", "reserve", "extend", "done"}]
    /\ chunk \in [Streams -> Nat]
    /\ keep \in [Streams -> Nat]
    /\ digested \in [Streams -> Nat]
    /\ count \in [Streams -> Nat]
    /\ retained \in [Streams -> Nat]
    /\ total \in Nat
    /\ exceeded \in BOOLEAN

\* What a thread has retained or is about to.
Held(s) == retained[s] + (IF tpc[s] = "extend" THEN keep[s] ELSE 0)

\* However the two threads interleave, together they never retain more than
\* limits.output_bytes (sandbox.py, _SharedBudget.reserve).
RetainedWithinLimit == Held("stdout") + Held("stderr") <= Limit

\* Once both threads have ended the verdict and the retained bytes are exact:
\* output is over the limit iff more bytes were counted than the limit, it is
\* whole if not, and it is cut at exactly the limit if so; and the recorded
\* byte count is that of the recorded digest.
VerdictExact ==
    Drained =>
        /\ exceeded <=> count["stdout"] + count["stderr"] > Limit
        /\ ~exceeded => \A s \in Streams : retained[s] = count[s]
        /\ exceeded => retained["stdout"] + retained["stderr"] = Limit
        /\ \A s \in Streams : digested[s] = count[s] /\ pipe[s] = 0

\* What is retained of a stream is a prefix of it: bytes are only appended while
\* no earlier byte was dropped.  A witness is searched in the retained bytes, and
\* across a gap it could match text the program never wrote.
ExtendsPrefix ==
    [][\A s \in Streams : retained'[s] # retained[s]
                             => retained[s] = count[s] - chunk[s]]_budgetVars

\* A closed pipe ends its thread, which is what lets the two joins return.
ClosedPipesDrain == eof ~> Drained
=============================================================================
