--------------------------- MODULE RepositoryProofs ---------------------------
(***************************************************************************)
(* Proofs about the repository a trace works on.  Snapshot: for every set  *)
(* of units and contents and every number of writes, the private copy is   *)
(* the source at one instant, up to what was put back between two reads.   *)
(* IndexBudget: for any files, limits and contents, the index that is      *)
(* built of it passes its verifier, its flags tell what the files lost,    *)
(* and no file goes short of what a file of lower priority has.            *)
(***************************************************************************)
EXTENDS Snapshot, IndexBudget, InductionLemmas, TLAPS

-----------------------------------------------------------------------------
(* Snapshot.                                                               *)

\* What is not there now was absent at some time.
GoneInv == \A u \in Units : source[u] = Absent => u \in gone

\* The listing is of what was there.
ListingInv ==
    /\ \A u \in scanned : u \in gone \/ u \in listed
    /\ phase \in {"hash", "copy", "rehash", "ready"} => scanned = Units
    /\ \A u \in Units : copied[u] # Absent => u \in listed

\* From the end of the hashing on, a unit that still has the content that was
\* hashed has had it all the time, and so was copied with it, unless it came back.
HashedInv ==
    phase \in {"copy", "rehash", "ready"} =>
        \A u \in listed :
            /\ hashed[u] # Absent
            /\ source[u] = hashed[u] /\ u \notin returned \cup compared =>
                  /\ boundary[u] = hashed[u]
                  /\ copied[u] # Absent => copied[u] = hashed[u]

\* A unit that was compared is a copy of what was hashed; of an archive the second
\* hash is compared and not what was extracted, so there only if it did not come back.
ComparedInv ==
    /\ phase \in {"scan", "hash"} => compared = {} /\ \A u \in Units : copied[u] = Absent
    /\ phase \in {"copy", "rehash", "ready"} =>
          /\ \A u \in compared \ returned : copied[u] = hashed[u] /\ boundary[u] = hashed[u]
          /\ kind = "directory" => \A u \in compared : copied[u] = hashed[u]
    /\ phase \in {"copy", "rehash", "ready"} /\ kind = "directory" =>
          \A u \in listed : copied[u] # Absent => u \in compared
    /\ phase = "copy" /\ kind = "archive" => compared = {}
    /\ phase = "rehash" => \A u \in listed : copied[u] # Absent
    /\ phase = "rehash" => kind = "archive"
    /\ phase = "ready" => listed \subseteq compared

SnapshotInv == SnapshotTypeOK /\ GoneInv /\ ListingInv /\ HashedInv /\ ComparedInv

LEMMA SnapshotInitInv == SnapshotInit => SnapshotInv
BY DEF SnapshotInit, SnapshotInv, SnapshotTypeOK, GoneInv, ListingInv, HashedInv, ComparedInv, NoContent

LEMMA WriterStepInv ==
    ASSUME SnapshotInv, NEW u \in Units, Write(u) \/ Delete(u)
    PROVE  SnapshotInv'
BY SnapshotAssumption DEF Write, Delete, Change, Returns, SnapshotInv, SnapshotTypeOK, GoneInv, ListingInv, HashedInv, ComparedInv

LEMMA EnterStepInv ==
    ASSUME SnapshotInv, Enter
    PROVE  SnapshotInv'
<1> USE DEF SnapshotInv, SnapshotTypeOK, GoneInv, ListingInv, HashedInv, ComparedInv, sourceVars
<1>1. ASSUME NEW u \in Units, Scan(u) PROVE SnapshotInv'
  BY <1>1 DEF Scan
<1>2. ASSUME NEW u \in Units, Hash(u) PROVE SnapshotInv'
  BY <1>2, SnapshotAssumption DEF Hash
<1>3. ASSUME NEW u \in Units, Copy(u) PROVE SnapshotInv'
  BY <1>3 DEF Copy, Matches
<1>4. ASSUME NEW u \in Units, Rehash(u) PROVE SnapshotInv'
  BY <1>4 DEF Rehash, Matches
<1>5. CASE ScanEnds   BY <1>5 DEF ScanEnds
<1>6. CASE HashEnds   BY <1>6 DEF HashEnds
<1>7. CASE CopyEnds   BY <1>7 DEF CopyEnds
<1>8. CASE RehashEnds BY <1>8 DEF RehashEnds
<1>9. CASE Fails      BY <1>9 DEF Fails
<1> QED BY <1>1, <1>2, <1>3, <1>4, <1>5, <1>6, <1>7, <1>8, <1>9 DEF Enter

LEMMA SnapshotNextInv == SnapshotInv /\ [SnapshotNext]_snapshotVars => SnapshotInv'
<1>1. SnapshotInv /\ UNCHANGED snapshotVars => SnapshotInv'
  BY DEF snapshotVars, sourceVars, SnapshotInv, SnapshotTypeOK, GoneInv, ListingInv, HashedInv, ComparedInv
<1> QED BY <1>1, WriterStepInv, EnterStepInv DEF SnapshotNext

\* The inductive invariant.
THEOREM SnapshotInvariant == SnapshotSpec => []SnapshotInv
BY SnapshotInitInv, SnapshotNextInv, PTL DEF SnapshotSpec

\* Every variable keeps its type.
THEOREM SnapshotTypeCorrect == SnapshotSpec => []SnapshotTypeOK
BY SnapshotInvariant, PTL DEF SnapshotInv

\* A workspace that was entered is the source at one instant, but for units that were put
\* back between their two readings; of a directory it is what the identity was computed from.
THEOREM SnapshotIsAtomic == SnapshotSpec => []SnapshotOfOneInstant
<1>1. SnapshotInv => SnapshotOfOneInstant
  BY DEF SnapshotInv, SnapshotTypeOK, ComparedInv, SnapshotOfOneInstant
<1> QED BY <1>1, SnapshotInvariant, PTL

\* No unit that was there all along is missing from it.
THEOREM SnapshotIsComplete == SnapshotSpec => []NothingStableMissed
<1>1. SnapshotInv => NothingStableMissed
  BY DEF SnapshotInv, ListingInv, NothingStableMissed
<1> QED BY <1>1, SnapshotInvariant, PTL

-----------------------------------------------------------------------------
(* IndexBudget.                                                            *)

\* A file is only cut by a global budget that it exhausts.
Exhausted ==
    \A f \in Files :
        /\ LostTokens(f) => token_entry_count = MaxTotalTokens
        /\ LostSymbols(f) => symbol_count = MaxTotalSymbols

\* The files that are done come before those that are not, which have nothing yet.
ReadInOrder ==
    \A f \in Files, g \in Pending :
        /\ files[g].tokens = 0
        /\ files[g].symbols = 0
        /\ f \notin Pending => content[f].priority <= content[g].priority

IndexInv ==
    /\ TypeOK
    /\ Exhausted
    /\ ReadInOrder
    /\ LimitsTell
    /\ NothingStarvedByLess

-----------------------------------------------------------------------------
\* The priorities are numbers.
LEMMA PriorityType == TypeOK => \A f \in Files : content[f].priority \in Nat
  BY IndexAssumption DEF TypeOK, Contents

\* What a file keeps of its tokens leaves the count within its limit; the file loses some
\* to the global budget exactly when the flag is raised, and the budget is spent then.
LEMMA TokensKept ==
    ASSUME TypeOK, NEW h \in Files
    PROVE  LET c == content[h] IN
           /\ KeptTokens(c) \in Nat
           /\ token_entry_count + KeptTokens(c) \in 0..MaxTotalTokens
           /\ KeptTokens(c) < OwnTokens(h) <=> TokenLimit(c) /\ TokenBudget < MaxUniqueTokens
           /\ KeptTokens(c) < OwnTokens(h) =>
                 token_entry_count + KeptTokens(c) = MaxTotalTokens
           /\ token_entry_count = MaxTotalTokens => KeptTokens(c) = 0
<1>1. content[h].tokens \in Nat /\ token_entry_count \in 0..MaxTotalTokens
  BY IndexAssumption DEF TypeOK, Contents
<1>2. TokenBudget = IF MaxUniqueTokens <= MaxTotalTokens - token_entry_count
                    THEN MaxUniqueTokens ELSE MaxTotalTokens - token_entry_count
  BY <1>1, IndexAssumption DEF TokenBudget, Least, Remainder
<1> DEFINE n == content[h].tokens
           kept == Least(n, TokenBudget)
           own == Least(n, MaxUniqueTokens)
<1>3. /\ kept \in Nat
      /\ token_entry_count + kept \in 0..MaxTotalTokens
      /\ kept < own <=> n > TokenBudget /\ TokenBudget < MaxUniqueTokens
      /\ kept < own => token_entry_count + kept = MaxTotalTokens
      /\ token_entry_count = MaxTotalTokens => kept = 0
  <2>1. MaxUniqueTokens \in Nat /\ MaxTotalTokens \in Nat
    BY IndexAssumption
  <2> HIDE DEF n
  <2>2. n \in Nat
    BY <1>1 DEF n
  <2> QED BY <1>1, <1>2, <2>1, <2>2 DEF Least
<1> QED
  BY <1>3 DEF KeptTokens, OwnTokens, TokenLimit

\* The same of its symbols, but that a name which is too long raises the flag too.
LEMMA SymbolsKept ==
    ASSUME TypeOK, NEW h \in Files
    PROVE  LET c == content[h] IN
           /\ KeptSymbols(c) \in Nat
           /\ symbol_count + KeptSymbols(c) \in 0..MaxTotalSymbols
           /\ KeptSymbols(c) < OwnSymbols(h) => SymbolLimit(c) /\ SymbolBudget < MaxFileSymbols
           /\ SymbolLimit(c) /\ SymbolBudget < MaxFileSymbols =>
                 KeptSymbols(c) < OwnSymbols(h) \/ (c.broken /\ ~c.python)
           /\ KeptSymbols(c) < OwnSymbols(h) =>
                 symbol_count + KeptSymbols(c) = MaxTotalSymbols
           /\ symbol_count = MaxTotalSymbols => KeptSymbols(c) = 0
<1>1. content[h].declared \in Nat /\ symbol_count \in 0..MaxTotalSymbols
  BY IndexAssumption DEF TypeOK, Contents
<1>2. CASE SymbolIssue(content[h])
  <2>1. KeptSymbols(content[h]) = 0 /\ OwnSymbols(h) = 0 /\ ~SymbolLimit(content[h])
    BY <1>2 DEF KeptSymbols, OwnSymbols, SymbolLimit, SymbolIssue
  <2> QED
    BY <1>1, <2>1, IndexAssumption
<1>3. CASE ~SymbolIssue(content[h])
  <2>1. KeptSymbols(content[h]) = Least(content[h].declared, SymbolBudget)
    BY <1>3 DEF KeptSymbols
  <2>2. OwnSymbols(h) = Least(content[h].declared, MaxFileSymbols)
    BY <1>3 DEF OwnSymbols, SymbolIssue
  <2>3. SymbolLimit(content[h]) <=> content[h].declared > SymbolBudget \/ content[h].broken
    BY <1>3 DEF SymbolLimit
  <2>4. content[h].broken => ~content[h].python
    BY <1>3 DEF SymbolIssue
  <2>5. SymbolBudget = IF MaxFileSymbols <= MaxTotalSymbols - symbol_count
                       THEN MaxFileSymbols ELSE MaxTotalSymbols - symbol_count
    BY <1>1, IndexAssumption DEF SymbolBudget, Least, Remainder
  <2> DEFINE n == content[h].declared
             kept == Least(n, SymbolBudget)
             own == Least(n, MaxFileSymbols)
  <2>6. /\ kept \in Nat
        /\ symbol_count + kept \in 0..MaxTotalSymbols
        /\ kept < own <=> n > SymbolBudget /\ SymbolBudget < MaxFileSymbols
        /\ kept < own => symbol_count + kept = MaxTotalSymbols
        /\ symbol_count = MaxTotalSymbols => kept = 0
    <3>1. /\ n \in Nat
          /\ MaxFileSymbols \in Nat
          /\ MaxTotalSymbols \in Nat
          /\ symbol_count \in 0..MaxTotalSymbols
      BY <1>1, IndexAssumption
    <3> HIDE DEF n
    <3> QED
      BY <2>5, <3>1 DEF Least
  <2> QED
    BY <2>1, <2>2, <2>3, <2>4, <2>6
<1> QED
  BY <1>2, <1>3

-----------------------------------------------------------------------------
LEMMA InitIInv == Init => IndexInv
<1> SUFFICES ASSUME Init
             PROVE  IndexInv
  OBVIOUS
<1>1. TypeOK
  BY IndexAssumption DEF Init, TypeOK, Records, Unread
<1>2. \A f \in Files : ~LostTokens(f) /\ ~LostSymbols(f)
  BY DEF Init, LostTokens, LostSymbols, Indexed, Unread
<1>3. Exhausted
  BY <1>2 DEF Exhausted
<1>4. ReadInOrder
  BY DEF Init, ReadInOrder, Pending, Unread
<1>5. LimitsTell
  BY <1>2 DEF Init, LimitsTell, Indexed, Unread
<1>6. NothingStarvedByLess
  BY <1>2 DEF NothingStarvedByLess
<1> QED
  BY <1>1, <1>3, <1>4, <1>5, <1>6 DEF IndexInv

\* A file that is excluded keeps nothing and loses nothing.
LEMMA ExcludeIInv ==
    ASSUME IndexInv, NEW h \in Files, Exclude(h)
    PROVE  IndexInv'
<1> USE DEF Exclude
<1>0. TypeOK /\ Exhausted /\ ReadInOrder /\ LimitsTell /\ NothingStarvedByLess
  BY DEF IndexInv
<1>1. TypeOK'
  BY <1>0 DEF TypeOK, Records
<1>2. h \in Pending
  BY DEF First
<1>3. \A f \in Files : /\ files'[f].tokens = files[f].tokens
                       /\ files'[f].symbols = files[f].symbols
                       /\ files'[f].status = IF f = h THEN "excluded" ELSE files[f].status
  BY <1>0 DEF TypeOK, Records
<1>4. Indexed' = Indexed
  BY <1>2, <1>3 DEF Indexed, Pending
<1>5. Pending' = Pending \ {h}
  BY <1>3 DEF Pending
<1>6. \A f \in Files : /\ LostTokens(f)' <=> LostTokens(f)
                       /\ LostSymbols(f)' <=> LostSymbols(f)
  BY <1>3, <1>4 DEF LostTokens, LostSymbols, OwnTokens, OwnSymbols
<1>7. Exhausted'
  BY <1>0, <1>6 DEF Exhausted
<1>8. ReadInOrder'
  <2>1. \A g \in Pending : content[h].priority <= content[g].priority
    BY <1>0, PriorityType DEF First, Pending
  <2> QED
    BY <1>0, <1>3, <1>5, <2>1 DEF ReadInOrder, Pending
<1>9. LimitsTell'
  BY <1>0, <1>4, <1>6 DEF LimitsTell, Indexed
<1>10. NothingStarvedByLess'
  BY <1>0, <1>3, <1>6 DEF NothingStarvedByLess
<1> QED
  BY <1>1, <1>7, <1>8, <1>9, <1>10 DEF IndexInv

-----------------------------------------------------------------------------
LEMMA IndexFileIInv ==
    ASSUME IndexInv, NEW h \in Files, IndexFile(h)
    PROVE  IndexInv'
<1>0. TypeOK /\ Exhausted /\ ReadInOrder /\ LimitsTell /\ NothingStarvedByLess
  BY DEF IndexInv
<1> DEFINE c == content[h]
<1> HIDE DEF c
<1>1. First(h) /\ h \in Pending /\ h \notin Indexed
  BY DEF IndexFile, First, Pending, Indexed
<1>2. \A f \in Files : f # h => files'[f] = files[f]
  BY <1>0 DEF IndexFile, TypeOK
<1>3. /\ files'[h].status = "indexed"
      /\ files'[h].tokens = KeptTokens(c)
      /\ files'[h].symbols = KeptSymbols(c)
  BY <1>0 DEF IndexFile, TypeOK, Record, c
<1>4. Indexed' = Indexed \cup {h} /\ Pending' = Pending \ {h}
  BY <1>1, <1>2, <1>3 DEF Indexed, Pending
<1>4a. /\ token_entry_count' = token_entry_count + KeptTokens(c)
      /\ symbol_count' = symbol_count + KeptSymbols(c)
      /\ global_limit_reached' = GlobalLimits(c)
      /\ content' = content
      /\ files' = [files EXCEPT ![h] = Record(c)]
      /\ pc' = pc
  BY DEF IndexFile, c
<1>5. \A f \in Files \ {h} : /\ LostTokens(f)' <=> LostTokens(f)
                             /\ LostSymbols(f)' <=> LostSymbols(f)
  BY <1>2, <1>4, <1>4a DEF LostTokens, LostSymbols, OwnTokens, OwnSymbols
<1>6. ~LostTokens(h) /\ ~LostSymbols(h)
  BY <1>1 DEF LostTokens, LostSymbols
<1>7. /\ LostTokens(h)' <=> KeptTokens(c) < OwnTokens(h)
      /\ LostSymbols(h)' <=> KeptSymbols(c) < OwnSymbols(h)
  BY <1>3, <1>4, <1>4a DEF LostTokens, LostSymbols, OwnTokens, OwnSymbols
<1>9. \A g \in Pending : content[h].priority <= content[g].priority
  BY <1>0, <1>1, PriorityType DEF First, Pending
<1>10. TypeOK'
  <2>1. Record(c) \in Records
    BY <1>0, TokensKept, SymbolsKept
    DEF Record, Records, TypeOK, Contents, TokenLimit, SymbolLimit, SymbolIssue, c
  <2>2. GlobalLimits(c) \in [token_entries : BOOLEAN, symbols : BOOLEAN]
    BY DEF GlobalLimits
  <2> QED
    BY <1>0, <1>4a, <2>1, <2>2, TokensKept, SymbolsKept DEF TypeOK, c
<1>11. Exhausted'
  <2>1. \A f \in Files : LostTokens(f)' => token_entry_count' = MaxTotalTokens
    BY <1>0, <1>5, <1>7, <1>4a, TokensKept, IndexAssumption DEF Exhausted, c, TypeOK
  <2>2. \A f \in Files : LostSymbols(f)' => symbol_count' = MaxTotalSymbols
    BY <1>0, <1>5, <1>7, <1>4a, SymbolsKept, IndexAssumption DEF Exhausted, c, TypeOK
  <2> QED
    BY <2>1, <2>2 DEF Exhausted
<1>12. ReadInOrder'
  BY <1>0, <1>2, <1>4, <1>4a, <1>9 DEF ReadInOrder, Pending
<1>13. LimitsTell'
  <2>1. global_limit_reached'.token_entries <=>
           global_limit_reached.token_entries \/ LostTokens(h)'
    BY <1>0, <1>7, <1>4a, TokensKept DEF GlobalLimits, TypeOK, c
  <2>2. LostSymbols(h)' => global_limit_reached'.symbols
    BY <1>0, <1>7, <1>4a, SymbolsKept DEF GlobalLimits, TypeOK, c
  <2>3. global_limit_reached.symbols => global_limit_reached'.symbols
    BY <1>4a DEF GlobalLimits
  <2>4. global_limit_reached'.symbols =>
           \/ global_limit_reached.symbols
           \/ LostSymbols(h)'
           \/ (content[h].broken /\ ~content[h].python)
    BY <1>0, <1>7, <1>4a, SymbolsKept DEF GlobalLimits, TypeOK, c
  <2>5. global_limit_reached'.token_entries <=> \E f \in Files : LostTokens(f)'
    BY <1>0, <1>5, <1>6, <2>1 DEF LimitsTell
  <2>6. (\E f \in Files : LostSymbols(f)') => global_limit_reached'.symbols
    BY <1>0, <1>5, <2>2, <2>3 DEF LimitsTell
  <2>7. global_limit_reached'.symbols =>
           \E f \in Indexed' : LostSymbols(f)' \/ (content[f].broken /\ ~content[f].python)
    <3>1. CASE LostSymbols(h)' \/ (content[h].broken /\ ~content[h].python)
      BY <1>4, <3>1
    <3>2. CASE global_limit_reached.symbols
      <4>1. PICK f \in Indexed : LostSymbols(f) \/ (content[f].broken /\ ~content[f].python)
        BY <1>0, <3>2 DEF LimitsTell
      <4>2. f \in Files \ {h} /\ f \in Indexed'
        BY <1>1, <1>4 DEF Indexed
      <4> QED
        BY <1>5, <4>1, <4>2
    <3> QED
      BY <2>4, <3>1, <3>2
  <2> QED
    BY <1>4a, <2>5, <2>6, <2>7 DEF LimitsTell
<1>14. NothingStarvedByLess'
  <2> SUFFICES ASSUME NEW f \in Files, NEW g \in Files,
                      content[f].priority < content[g].priority
               PROVE  /\ LostTokens(f)' => files'[g].tokens = 0
                      /\ LostSymbols(f)' => files'[g].symbols = 0
    BY <1>4a DEF NothingStarvedByLess
  <2>1. content[f].priority \in Nat /\ content[g].priority \in Nat /\ f # g
    BY <1>0, PriorityType
  \* The budget is spent: there is nothing for h.
  <2>2. CASE g = h
    BY <1>0, <1>3, <1>5, <2>1, <2>2, TokensKept, SymbolsKept DEF Exhausted, c
  \* A file of lower priority than h is not done.
  <2>3. CASE f = h
    <3>1. g \in Pending
      BY <1>0, <1>1, <2>1, <2>3 DEF ReadInOrder
    <3> QED
      BY <1>0, <1>2, <2>1, <2>3, <3>1 DEF ReadInOrder
  <2>4. CASE f # h /\ g # h
    BY <1>0, <1>2, <1>5, <2>4 DEF NothingStarvedByLess
  <2> QED
    BY <2>2, <2>3, <2>4
<1> QED
  BY <1>10, <1>11, <1>12, <1>13, <1>14 DEF IndexInv

-----------------------------------------------------------------------------
\* Every step of the indexing keeps the invariant.
LEMMA NextIInv == IndexInv /\ [Next]_vars => IndexInv'
<1> SUFFICES ASSUME IndexInv, [Next]_vars
             PROVE  IndexInv'
  OBVIOUS
<1>1. ASSUME NEW h \in Files, Exclude(h)
      PROVE  IndexInv'
  BY <1>1, ExcludeIInv
<1>2. ASSUME NEW h \in Files, IndexFile(h)
      PROVE  IndexInv'
  BY <1>2, IndexFileIInv
<1>3. ASSUME UNCHANGED <<content, files, token_entry_count, symbol_count, global_limit_reached>>,
             pc' \in {"files", "built", "unsupported"}
      PROVE  IndexInv'
  <2>1. TypeOK' /\ Pending' = Pending /\ Indexed' = Indexed
    BY <1>3 DEF IndexInv, TypeOK, Pending, Indexed
  <2>2. \A f \in Files : /\ LostTokens(f)' <=> LostTokens(f)
                         /\ LostSymbols(f)' <=> LostSymbols(f)
    BY <1>3, <2>1 DEF LostTokens, LostSymbols, OwnTokens, OwnSymbols
  <2>3. Exhausted' /\ ReadInOrder'
    BY <1>3, <2>1, <2>2 DEF IndexInv, Exhausted, ReadInOrder
  <2>4. LimitsTell'
    BY <1>3, <2>1, <2>2 DEF IndexInv, LimitsTell, Indexed
  <2>5. NothingStarvedByLess'
    BY <1>3, <2>2 DEF IndexInv, NothingStarvedByLess
  <2> QED
    BY <2>1, <2>3, <2>4, <2>5 DEF IndexInv
<1>4. CASE Finish
  BY <1>3, <1>4 DEF Finish
<1>5. CASE UNCHANGED vars
  BY <1>3, <1>5 DEF vars, IndexInv, TypeOK
<1> QED
  BY <1>1, <1>2, <1>4, <1>5 DEF Next

LEMMA Invariance == Spec => []IndexInv
<1> QED
  BY InitIInv, NextIInv, PTL DEF Spec

\* The state has its type: in particular neither count exceeds its limit, so the budgets
\* that build_repository_index computes are never negative before their max(0, ...).
THEOREM IndexTypeCorrect == Spec => []TypeOK
<1>1. IndexInv => TypeOK
  BY DEF IndexInv
<1> QED
  BY <1>1, Invariance, PTL

\* global_limit_reached of a repository index tells what its files lost to the global
\* budgets, whatever the files and the limits.
THEOREM LimitsToldAlways == Spec => []LimitsTell
<1>1. IndexInv => LimitsTell
  BY DEF IndexInv
<1> QED
  BY <1>1, Invariance, PTL

\* _index_priority works: no file goes short of tokens or symbols that a file of lower
\* priority was given.
THEOREM NothingStarved == Spec => []NothingStarvedByLess
<1>1. IndexInv => NothingStarvedByLess
  BY DEF IndexInv
<1> QED
  BY <1>1, Invariance, PTL

-----------------------------------------------------------------------------
(* The counts of the index are the sums over its files.                    *)

TokensOf(records) == [f \in Files |-> records[f].tokens]
SymbolsOf(records) == [f \in Files |-> records[f].symbols]

FilesInv ==
    \A f \in Files :
        /\ files[f].tokens <= MaxUniqueTokens
        /\ files[f].symbols <= MaxFileSymbols
        /\ files[f].issue => files[f].symbols = 0
        /\ f \notin Indexed => files[f].tokens = 0 /\ files[f].symbols = 0

SumsInv ==
    /\ token_entry_count = Total(TokensOf(files))
    /\ symbol_count = Total(SymbolsOf(files))

LEMMA SumsInit == Init => FilesInv /\ SumsInv
<1> SUFFICES ASSUME Init PROVE FilesInv /\ SumsInv
  OBVIOUS
<1>1. \A f \in Files : files[f] = Unread
  BY DEF Init
<1>2. FilesInv
  BY <1>1, IndexAssumption DEF FilesInv, Unread
<1>3. TokensOf(files) = [f \in Files |-> 0] /\ SymbolsOf(files) = [f \in Files |-> 0]
  BY <1>1 DEF TokensOf, SymbolsOf, Unread
<1>4. token_entry_count = 0 /\ symbol_count = 0
  BY DEF Init
<1> QED BY <1>2, <1>3, <1>4, SumZero, IndexAssumption DEF SumsInv, Total

\* What one file is given is added to both counts.
LEMMA SumsIndexFile ==
    ASSUME TypeOK, TypeOK', FilesInv, SumsInv, NEW h \in Files, IndexFile(h)
    PROVE  FilesInv' /\ SumsInv'
<1> DEFINE c == content[h]
<1>1. /\ files' = [files EXCEPT ![h] = Record(c)]
      /\ token_entry_count' = token_entry_count + KeptTokens(c)
      /\ symbol_count' = symbol_count + KeptSymbols(c)
  BY DEF IndexFile
<1>2. /\ files'[h] = Record(c)
      /\ \A f \in Files : f # h => files'[f] = files[f]
  BY <1>1 DEF TypeOK
<1>3. files[h].tokens = 0 /\ files[h].symbols = 0
  BY DEF IndexFile, First, Pending, FilesInv, Indexed
<1>4. KeptTokens(c) \in Nat /\ KeptSymbols(c) \in Nat
  BY TokensKept, SymbolsKept
<1>5. FilesInv'
  <2>1. KeptTokens(c) <= MaxUniqueTokens /\ KeptSymbols(c) <= MaxFileSymbols
    <3>1. /\ c.tokens \in Nat /\ c.declared \in Nat
          /\ token_entry_count \in Nat /\ symbol_count \in Nat
      <4>1. Counts \subseteq Nat /\ MaxTotalTokens \in Nat /\ MaxTotalSymbols \in Nat
        BY IndexAssumption
      <4>2. c \in Contents
        BY DEF TypeOK
      <4> HIDE DEF c
      <4>3. c.tokens \in Nat /\ c.declared \in Nat
        BY <4>1, <4>2 DEF Contents
      <4>4. token_entry_count \in 0..MaxTotalTokens /\ symbol_count \in 0..MaxTotalSymbols
        BY DEF TypeOK
      <4> QED BY <4>1, <4>3, <4>4
    <3>2. TokenBudget <= MaxUniqueTokens /\ TokenBudget \in Nat
      BY <3>1, IndexAssumption DEF TokenBudget, Least, Remainder
    <3>3. SymbolBudget <= MaxFileSymbols /\ SymbolBudget \in Nat
      BY <3>1, IndexAssumption DEF SymbolBudget, Least, Remainder
    <3> HIDE DEF c
    <3> QED BY <3>1, <3>2, <3>3, IndexAssumption DEF KeptTokens, KeptSymbols, Least
  <2>2. Record(c).issue => KeptSymbols(c) = 0
    BY DEF Record, KeptSymbols, SymbolIssue
  <2>3. /\ files'[h].tokens = KeptTokens(c) /\ files'[h].symbols = KeptSymbols(c)
        /\ files'[h].issue => KeptSymbols(c) = 0
        /\ h \in Indexed'
    BY <1>2, <2>2 DEF Record, Indexed
  <2>4. \A f \in Files : f # h => (f \in Indexed' <=> f \in Indexed)
    BY <1>2 DEF Indexed
  <2> HIDE DEF c
  <2> QED BY <1>2, <2>1, <2>3, <2>4 DEF FilesInv
<1>6. /\ TokensOf(files) \in [Files -> Nat] /\ TokensOf(files') \in [Files -> Nat]
      /\ SymbolsOf(files) \in [Files -> Nat] /\ SymbolsOf(files') \in [Files -> Nat]
  BY DEF TypeOK, Records, TokensOf, SymbolsOf
<1>7. /\ \A f \in Files : f # h => TokensOf(files')[f] = TokensOf(files)[f]
                                 /\ SymbolsOf(files')[f] = SymbolsOf(files)[f]
      /\ TokensOf(files)[h] = 0 /\ SymbolsOf(files)[h] = 0
      /\ TokensOf(files')[h] = KeptTokens(c) /\ SymbolsOf(files')[h] = KeptSymbols(c)
  BY <1>2, <1>3 DEF TokensOf, SymbolsOf, Record
<1> HIDE DEF c
<1>8. /\ Total(TokensOf(files')) = Total(TokensOf(files)) + KeptTokens(c)
      /\ Total(SymbolsOf(files')) = Total(SymbolsOf(files)) + KeptSymbols(c)
  <2> DEFINE t == TokensOf(files)
             u == TokensOf(files')
             v == SymbolsOf(files)
             w == SymbolsOf(files')
  <2>1. /\ t \in [Files -> Nat] /\ u \in [Files -> Nat]
        /\ v \in [Files -> Nat] /\ w \in [Files -> Nat]
        /\ \A f \in Files : f # h => u[f] = t[f]
        /\ \A f \in Files : f # h => w[f] = v[f]
        /\ t[h] = 0 /\ v[h] = 0 /\ u[h] = KeptTokens(c) /\ w[h] = KeptSymbols(c)
    BY <1>6, <1>7
  <2> HIDE DEF t, u, v, w
  <2>0. IsFiniteSet(Files)
    BY IndexAssumption
  <2>2. SumFunction(t) \in Nat /\ SumFunction(u) = SumFunction(t) - t[h] + u[h]
    BY <2>0, <2>1, SumUpdate
  <2>3. SumFunction(v) \in Nat /\ SumFunction(w) = SumFunction(v) - v[h] + w[h]
    BY <2>0, <2>1, SumUpdate
  <2>4. /\ SumFunction(u) = SumFunction(t) + KeptTokens(c)
        /\ SumFunction(w) = SumFunction(v) + KeptSymbols(c)
    BY <1>4, <2>1, <2>2, <2>3
  <2> QED BY <2>4 DEF Total, t, u, v, w
<1> QED BY <1>1, <1>5, <1>8 DEF SumsInv

LEMMA SumsNext == TypeOK /\ TypeOK' /\ FilesInv /\ SumsInv /\ [Next]_vars => FilesInv' /\ SumsInv'
<1> SUFFICES ASSUME TypeOK, TypeOK', FilesInv, SumsInv, [Next]_vars
             PROVE  FilesInv' /\ SumsInv'
  OBVIOUS
<1>1. ASSUME NEW h \in Files, IndexFile(h) PROVE FilesInv' /\ SumsInv'
  BY <1>1, SumsIndexFile
<1>2. ASSUME NEW h \in Files, Exclude(h) PROVE FilesInv' /\ SumsInv'
  <2>1. /\ files' = [files EXCEPT ![h].status = "excluded"]
        /\ UNCHANGED <<token_entry_count, symbol_count>>
        /\ files[h].status = "pending"
    BY <1>2 DEF Exclude, First, Pending
  <2>2. \A f \in Files : /\ files'[f].tokens = files[f].tokens
                         /\ files'[f].symbols = files[f].symbols
                         /\ files'[f].issue = files[f].issue
                         /\ f \in Indexed' <=> f \in Indexed
    BY <2>1 DEF TypeOK, Records, Indexed
  <2>3. TokensOf(files') = TokensOf(files) /\ SymbolsOf(files') = SymbolsOf(files)
    BY <2>2 DEF TokensOf, SymbolsOf
  <2> QED BY <2>1, <2>2, <2>3 DEF FilesInv, SumsInv
<1>3. CASE Finish \/ UNCHANGED vars
  BY <1>3 DEF Finish, vars, FilesInv, SumsInv, Indexed
<1> QED BY <1>1, <1>2, <1>3 DEF Next

\* Every index that is built passes verify_repository_index, whatever the files and the
\* limits: no more is kept than the limits allow, and the counts are the sums over the files.
THEOREM IndexPassesVerifier == Spec => []IndexVerifies
<1>1. FilesInv /\ SumsInv /\ TypeOK => IndexVerifies
  <2> SUFFICES ASSUME FilesInv, SumsInv, TypeOK PROVE Verifies
    BY DEF IndexVerifies
  <2>1. token_entry_count <= MaxTotalTokens /\ symbol_count <= MaxTotalSymbols
    BY IndexAssumption DEF TypeOK
  <2> QED BY <2>1 DEF FilesInv, SumsInv, Verifies, TokensOf, SymbolsOf
<1> QED BY <1>1, SumsInit, SumsNext, IndexTypeCorrect, PTL DEF Spec
=============================================================================
