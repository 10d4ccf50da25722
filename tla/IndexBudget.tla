---------------------------- MODULE IndexBudget ----------------------------
(***************************************************************************)
(* How build_repository_index (indexing.py) spends its budgets of token    *)
(* entries and symbols: file by file, implementation source first, so much *)
(* to each file as its own limit and what is left for all allow; and what  *)
(* verify_repository_index asks of the index that is built.                *)
(*                                                                         *)
(* A token or a symbol is only counted.  Files are numbers, which stand    *)
(* for the order of their paths.                                           *)
(***************************************************************************)
EXTENDS Integers, FiniteSets, Functions

CONSTANTS
    Files,              \* the files of the manifest, a set of numbers
    Priorities,         \* those of _index_priority, 0 the first
    Counts,             \* how many tokens or declarations a text may have
    MaxUniqueTokens,    \* MAX_UNIQUE_TOKENS, for a file
    MaxTotalTokens,     \* MAX_TOTAL_TOKEN_ENTRIES
    MaxFileSymbols,     \* MAX_SYMBOLS_PER_FILE
    MaxTotalSymbols     \* MAX_TOTAL_SYMBOLS

ASSUME IndexAssumption ==
    /\ Files \subseteq Nat /\ IsFiniteSet(Files)
    /\ Priorities \subseteq Nat
    /\ Counts \subseteq Nat
    /\ MaxUniqueTokens \in Nat
    /\ MaxTotalTokens \in Nat
    /\ MaxFileSymbols \in Nat
    /\ MaxTotalSymbols \in Nat

VARIABLES
    pc,
    content,                \* what each file is
    files,                  \* the record of each file
    token_entry_count,
    symbol_count,
    global_limit_reached

vars == <<pc, content, files, token_entry_count, symbol_count, global_limit_reached>>

\* A name that is too long ends the extraction; "declared" counts the declarations
\* before it.  A Python text with one, or with a syntax error, is "broken".
Contents ==
    [priority : Priorities, text : BOOLEAN, python : BOOLEAN, tokens : Counts,
     declared : Counts, broken : BOOLEAN]

Records ==
    [status : {"pending", "excluded", "indexed"}, tokens : Nat, token_limit_reached : BOOLEAN,
     symbols : Nat, symbol_limit_reached : BOOLEAN, issue : BOOLEAN]

Unread ==
    [status |-> "pending", tokens |-> 0, token_limit_reached |-> FALSE,
     symbols |-> 0, symbol_limit_reached |-> FALSE, issue |-> FALSE]

Init ==
    /\ pc = "files"
    /\ content \in [Files -> Contents]
    /\ files = [f \in Files |-> Unread]
    /\ token_entry_count = 0
    /\ symbol_count = 0
    /\ global_limit_reached = [token_entries |-> FALSE, symbols |-> FALSE]

-----------------------------------------------------------------------------
Least(a, b) == IF a <= b THEN a ELSE b

Remainder(limit, used) == IF used <= limit THEN limit - used ELSE 0

Pending == {f \in Files : files[f].status = "pending"}

\* Mutation: the manifest's order is kept.
FirstByPath(f) == f \in Pending /\ \A g \in Pending : f <= g

\* processing_order: by priority, then by path.
First(f) ==
    /\ f \in Pending
    /\ \A g \in Pending :
          \/ content[f].priority < content[g].priority
          \/ (content[f].priority = content[g].priority /\ f <= g)

TokenBudget == Least(MaxUniqueTokens, Remainder(MaxTotalTokens, token_entry_count))

SymbolBudget == Least(MaxFileSymbols, Remainder(MaxTotalSymbols, symbol_count))

\* _bounded_token_counts: how many are kept, and whether some are not.
KeptTokens(c) == Least(c.tokens, TokenBudget)
TokenLimit(c) == c.tokens > TokenBudget

\* Mutation: the declarations before the failure are kept.
SymbolIssueKeepingSymbols(c) == FALSE

\* scan_python_declarations returns none after a failure.
SymbolIssue(c) == c.python /\ c.broken

KeptSymbols(c) == IF SymbolIssue(c) THEN 0 ELSE Least(c.declared, SymbolBudget)

\* _lexical_symbols stops at an over-long name as it does at the limit.
SymbolLimit(c) == ~SymbolIssue(c) /\ (c.declared > SymbolBudget \/ c.broken)

\* Mutation: a file that exceeds its own limit exhausts the global budget.
GlobalLimitsOfAnyFile(c) ==
    [token_entries |-> global_limit_reached.token_entries \/ TokenLimit(c),
     symbols |-> global_limit_reached.symbols \/ SymbolLimit(c)]

GlobalLimits(c) ==
    [token_entries |-> global_limit_reached.token_entries
                          \/ (TokenLimit(c) /\ TokenBudget < MaxUniqueTokens),
     symbols |-> global_limit_reached.symbols
                    \/ (SymbolLimit(c) /\ SymbolBudget < MaxFileSymbols)]

Record(c) ==
    [status |-> "indexed", tokens |-> KeptTokens(c), token_limit_reached |-> TokenLimit(c),
     symbols |-> KeptSymbols(c), symbol_limit_reached |-> SymbolLimit(c),
     issue |-> c.python /\ c.broken]

\* Oversized, binary or of another encoding.
Exclude(f) ==
    /\ pc = "files"
    /\ First(f)
    /\ ~content[f].text
    /\ files' = [files EXCEPT ![f].status = "excluded"]
    /\ UNCHANGED <<pc, content, token_entry_count, symbol_count, global_limit_reached>>

IndexFile(f) ==
    /\ pc = "files"
    /\ First(f)
    /\ content[f].text
    /\ files' = [files EXCEPT ![f] = Record(content[f])]
    /\ token_entry_count' = token_entry_count + KeptTokens(content[f])
    /\ symbol_count' = symbol_count + KeptSymbols(content[f])
    /\ global_limit_reached' = GlobalLimits(content[f])
    /\ UNCHANGED <<pc, content>>

\* The size of the document is within its limits, or it is not.
Finish ==
    /\ pc = "files"
    /\ Pending = {}
    /\ pc' \in {"built", "unsupported"}
    /\ UNCHANGED <<content, files, token_entry_count, symbol_count, global_limit_reached>>

Next == Finish \/ \E f \in Files : Exclude(f) \/ IndexFile(f)

Spec == Init /\ [][Next]_vars

-----------------------------------------------------------------------------
(* verify_repository_index: the checks a built index could fail.           *)

Indexed == {f \in Files : files[f].status = "indexed"}

Total(values) == SumFunction(values)

Verifies ==
    /\ \A f \in Files :
          /\ files[f].tokens <= MaxUniqueTokens
          /\ files[f].symbols <= MaxFileSymbols
          /\ files[f].issue => files[f].symbols = 0
          /\ f \notin Indexed => files[f].tokens = 0 /\ files[f].symbols = 0
    /\ Total([f \in Files |-> files[f].tokens]) <= MaxTotalTokens
    /\ Total([f \in Files |-> files[f].symbols]) <= MaxTotalSymbols
    /\ symbol_count = Total([f \in Files |-> files[f].symbols])

-----------------------------------------------------------------------------
TypeOK ==
    /\ pc \in {"files", "built", "unsupported"}
    /\ content \in [Files -> Contents]
    /\ files \in [Files -> Records]
    /\ token_entry_count \in 0..MaxTotalTokens
    /\ symbol_count \in 0..MaxTotalSymbols
    /\ global_limit_reached \in [token_entries : BOOLEAN, symbols : BOOLEAN]

\* Every index that is built passes the verifier of the packages it goes into.
IndexVerifies == pc = "built" => Verifies

\* What a file would keep if it were the only one.
OwnTokens(f) == Least(content[f].tokens, MaxUniqueTokens)
OwnSymbols(f) == IF content[f].python /\ content[f].broken
                 THEN 0 ELSE Least(content[f].declared, MaxFileSymbols)

LostTokens(f) == f \in Indexed /\ files[f].tokens < OwnTokens(f)
LostSymbols(f) == f \in Indexed /\ files[f].symbols < OwnSymbols(f)

\* The flags of the index tell what its files lost to the global budgets (docs/
\* ARCHITECTURE.md: "any global budget exhaustion are recorded in the index"), and tell
\* it of no index that lost nothing, but for a name that is too long.
LimitsTell ==
    /\ global_limit_reached.token_entries <=> \E f \in Files : LostTokens(f)
    /\ (\E f \in Files : LostSymbols(f)) => global_limit_reached.symbols
    /\ global_limit_reached.symbols =>
          \E f \in Indexed : LostSymbols(f) \/ (content[f].broken /\ ~content[f].python)

\* A file never goes short of what a file of lower priority has: observations do not
\* starve implementation source, wherever their paths are in the order.
NothingStarvedByLess ==
    \A f, g \in Files :
        content[f].priority < content[g].priority =>
            /\ LostTokens(f) => files[g].tokens = 0
            /\ LostSymbols(f) => files[g].symbols = 0
=============================================================================
