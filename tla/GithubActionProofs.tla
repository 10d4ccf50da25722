-------------------------- MODULE GithubActionProofs --------------------------
(***************************************************************************)
(* For any report, any number of paths and whatever fails: what a batch    *)
(* publishes accounts for every result, nothing but a localisation that    *)
(* fails costs it its package, the pages that a reader collects are the    *)
(* queue, and a job that passes passes over a package that was verified.   *)
(***************************************************************************)
EXTENDS GithubAction, InductionLemmas, TLAPS

-----------------------------------------------------------------------------
(* The contributions of the completed results.                             *)

\* What the loop enters for a result.
Done(i) ==
    [result_key |-> ResultKey(i, TRUE), source |-> i, severity |-> report[i].severity,
     candidates |-> report[i].shortlist]

Failed(i, code) == [result_key |-> ImportedKey(i), source |-> i, error_code |-> code]

Codes == {"NORMALIZATION_FAILED", "LOCALIZATION_FAILED"}
Fine == {i \in DOMAIN report : report[i].kind = "fine"}
DoneResults == {Done(i) : i \in Fine}
FailedResults == {Failed(i, code) : i \in DOMAIN report, code \in Codes}

Sources(items) == {items[k].source : k \in DOMAIN items}
OneEach(items) == \A j, k \in DOMAIN items : items[j].source = items[k].source => j = k

Results ==
    [kind : {"fine", "malformed", "unlocalizable"}, severity : Nat,
     shortlist : {s \in Seq(Nat) : IsInjective(s)}]

\* The request, and what is known of it once it is imported.
RequestInv ==
    /\ report \in Seq(Results)
    /\ max_findings \in Nat /\ top_k \in Nat
    /\ \A i \in DOMAIN report : Len(report[i].shortlist) <= top_k
    /\ position > 0 \/ pc \notin {"import", "refused"} =>
          Len(report) <= max_findings /\ max_findings * top_k <= MaxContributions

\* Every result the loop is done with is completed or failed, once.
LoopInv ==
    /\ position \in 0..Len(report)
    /\ completed \in Seq(DoneResults)
    /\ errors \in Seq(FailedResults)
    /\ OneEach(completed) /\ OneEach(errors)
    /\ Sources(completed) \cup Sources(errors) = 1..position
    /\ Sources(completed) \cap Sources(errors) = {}
    /\ Len(completed) + Len(errors) = position
    /\ \A k \in DOMAIN errors :
          errors[k].error_code = "NORMALIZATION_FAILED" <=> ~HasFinding(errors[k].source)

PackageInv ==
    /\ pc \in {"import", "materialise", "localize", "verify", "published"} \/ Ended
    /\ pc \in {"verify", "published", "read", "rejected"} =>
          LET queue == BuildReviewQueue(completed)
          IN /\ position = Len(report)
             /\ package = [artifacts |-> "staged", findings |-> completed, errors |-> errors,
                           queue |-> queue, summary |-> Summary(queue)]
    /\ pc \in {"published", "read"} => Verifies(package)
    /\ pc = "rejected" => ~Verifies(package)
    /\ pc = "raised" => ~OverContributions

BatchInv == RequestInv /\ LoopInv /\ PackageInv

LEMMA ProductMonotone ==
    ASSUME NEW a \in Nat, NEW b \in Nat, NEW c \in Nat, NEW d \in Nat, a <= b, b * c <= d
    PROVE  a * c <= d
<1>1. b * c = a * c + (b - a) * c
  OBVIOUS
<1>2. (b - a) * c \in Nat /\ a * c \in Nat
  OBVIOUS
<1> DEFINE p == a * c
           q == (b - a) * c
<1> HIDE DEF p, q
<1> QED BY <1>1, <1>2 DEF p, q

\* What the results completed so far have for a candidate.
LEMMA CompletedIs ==
    ASSUME RequestInv, LoopInv, NEW i \in DOMAIN completed
    PROVE  /\ completed[i].source \in DOMAIN report
           /\ completed[i] = Done(completed[i].source)
           /\ completed[i].result_key = ResultKey(completed[i].source, TRUE)
           /\ completed[i].severity \in Nat
           /\ completed[i].candidates \in Seq(Nat) /\ IsInjective(completed[i].candidates)
           /\ Len(completed[i].candidates) <= top_k
<1>1. completed[i] \in DoneResults
  BY DEF LoopInv
<1>2. PICK j \in DOMAIN report : completed[i] = Done(j) /\ HasFinding(j) = TRUE
  BY <1>1 DEF DoneResults, Fine, HasFinding
<1>3. /\ completed[i].source = j /\ completed[i].severity = report[j].severity
      /\ completed[i].candidates = report[j].shortlist
      /\ completed[i].result_key = ResultKey(j, TRUE)
  BY <1>2 DEF Done
<1>4. /\ report[j].severity \in Nat /\ report[j].shortlist \in Seq(Nat)
      /\ IsInjective(report[j].shortlist) /\ Len(report[j].shortlist) <= top_k
  <2>1. report[j] \in Results
    BY DEF RequestInv
  <2> QED BY <2>1 DEF RequestInv, Results
<1> QED BY <1>2, <1>3, <1>4

\* They are no more than there are places in as many shortlists.
LEMMA ContributionsCounted ==
    ASSUME RequestInv, LoopInv
    PROVE  /\ IsFiniteSet(Contributions(completed))
           /\ Cardinality(Contributions(completed)) <= Len(completed) * top_k
<1> DEFINE n == Len(completed)
           all == (1..n) \X (1..top_k)
           P == {p \in all : p[2] \in DOMAIN completed[p[1]].candidates}
           f == [p \in P |-> Contribution(completed[p[1]], p[2])]
<1>1. n \in Nat /\ DOMAIN completed = 1..n /\ top_k \in Nat
  BY DEF LoopInv, RequestInv
<1>2. IsFiniteSet(all) /\ Cardinality(all) = n * top_k
  <2>1. ASSUME NEW k \in Nat PROVE IsFiniteSet(1..k) /\ Cardinality(1..k) = k
    <3>1. IsFiniteSet(1..k) /\ Cardinality(1..k) = IF 1 > k THEN 0 ELSE k - 1 + 1
      BY FS_Interval
    <3> QED BY <3>1
  <2> HIDE DEF n
  <2>2. /\ IsFiniteSet(1..n) /\ Cardinality(1..n) = n
        /\ IsFiniteSet(1..top_k) /\ Cardinality(1..top_k) = top_k
    BY <1>1, <2>1
  <2>3. IsFiniteSet(all) /\ Cardinality(all) = Cardinality(1..n) * Cardinality(1..top_k)
    BY <2>2, FS_Product
  <2> QED BY <2>2, <2>3
<1>3. IsFiniteSet(P) /\ Cardinality(P) <= n * top_k
  BY <1>2, FS_Subset
<1>4. f \in Surjection(P, Contributions(completed))
  <2>1. ASSUME NEW i \in DOMAIN completed, NEW rank \in DOMAIN completed[i].candidates
        PROVE  <<i, rank>> \in P
    <3>1. completed[i].candidates \in Seq(Nat) /\ Len(completed[i].candidates) <= top_k
      BY CompletedIs
    <3>2. rank \in 1..top_k
      BY <1>1, <3>1
    <3> QED BY <1>1, <3>2
  <2>2. \A p \in P : f[p] \in Contributions(completed)
    BY <1>1 DEF Contributions
  <2>3. \A c \in Contributions(completed) : \E p \in P : f[p] = c
    <3> SUFFICES ASSUME NEW i \in DOMAIN completed, NEW rank \in DOMAIN completed[i].candidates
                 PROVE  \E p \in P : f[p] = Contribution(completed[i], rank)
      BY DEF Contributions
    <3>1. f[<<i, rank>>] = Contribution(completed[i], rank)
      BY <2>1
    <3> HIDE DEF f, P
    <3> QED BY <2>1, <3>1
  <2>4. DOMAIN f = P /\ f = [p \in P |-> f[p]]
    OBVIOUS
  <2> HIDE DEF f, P
  <2> QED BY <2>2, <2>3, <2>4 DEF Surjection
<1>5. /\ IsFiniteSet(Contributions(completed))
      /\ Cardinality(Contributions(completed)) <= Cardinality(P)
  <2> HIDE DEF f, P
  <2> QED BY <1>3, <1>4, FS_Surjection
<1> QED
  <2> DEFINE product == n * top_k
             counted == Cardinality(Contributions(completed))
             places == Cardinality(P)
  <2>1. product \in Int /\ places <= product /\ counted <= places
    BY <1>1, <1>3, <1>5
  <2>2. counted \in Int /\ places \in Int
    BY <1>3, <1>5, FS_CardinalityType
  <2>3. counted <= product
    <3> HIDE DEF product, counted, places
    <3> QED BY <2>1, <2>2
  <2> QED BY <1>5, <2>3

\* The bound that the import checks is a bound on what the queue is built from.
LEMMA ContributionsBounded ==
    ASSUME RequestInv, LoopInv, MaxContributions \in Nat
    PROVE  ~OverContributions
<1> DEFINE product == Len(completed) * top_k
           counted == Cardinality(Contributions(completed))
<1>1. product <= MaxContributions
  <2>1. Len(completed) \in Nat /\ Len(completed) <= Len(report) /\ Len(report) \in Nat
    BY DEF LoopInv, RequestInv
  <2>2. CASE Len(completed) = 0
    BY <2>2 DEF RequestInv
  <2>3. CASE Len(completed) # 0
    <3>1. Len(report) <= max_findings /\ max_findings * top_k <= MaxContributions
      BY <2>1, <2>3 DEF LoopInv, RequestInv
    <3>2. max_findings \in Nat /\ top_k \in Nat
      BY DEF RequestInv
    <3> QED BY <2>1, <3>1, <3>2, ProductMonotone
  <2> QED BY <2>2, <2>3
<1>2. counted \in Nat /\ counted <= product
  BY ContributionsCounted, FS_CardinalityType
<1>3. product \in Nat
  BY DEF LoopInv, RequestInv
<1> HIDE DEF product, counted
<1>4. ~(counted > MaxContributions)
  BY <1>1, <1>2, <1>3
<1> QED BY <1>4 DEF OverContributions, counted

-----------------------------------------------------------------------------
(* The loop over the results.                                              *)

LEMMA AppendOne ==
    ASSUME NEW X, NEW items \in Seq(X), NEW item, OneEach(items),
           item.source \notin Sources(items)
    PROVE  /\ OneEach(Append(items, item))
           /\ Sources(Append(items, item)) = Sources(items) \cup {item.source}
<1> DEFINE n == Len(items)
           more == Append(items, item)
<1>1. /\ n \in Nat /\ DOMAIN items = 1..n /\ DOMAIN more = 1..(n + 1)
      /\ more[n + 1] = item
      /\ \A k \in 1..n : more[k] = items[k]
  OBVIOUS
<1> HIDE DEF more, n
<1>2. \A k \in DOMAIN more : k = n + 1 \/ k \in DOMAIN items
  BY <1>1
<1>3. OneEach(more)
  BY <1>1, <1>2 DEF OneEach, Sources
<1>4. Sources(more) = Sources(items) \cup {item.source}
  <2>1. n + 1 \in DOMAIN more /\ \A k \in DOMAIN items : k \in DOMAIN more
    BY <1>1
  <2> QED BY <1>1, <1>2, <2>1 DEF Sources
<1> QED BY <1>3, <1>4 DEF more

LEMMA FindingOf ==
    ASSUME NEW i
    PROVE  /\ HasFinding(i) \in BOOLEAN
           /\ Failed(i, "NORMALIZATION_FAILED").source = i
           /\ \A code : Failed(i, code).source = i /\ Failed(i, code).error_code = code
           /\ Done(i).source = i
BY DEF HasFinding, Failed, Done

\* The current result is completed, or it has failed.
LEMMA ResultEntered ==
    ASSUME RequestInv, LoopInv, ResultsLeft, position' = Current, UNCHANGED inputs,
           \/ /\ Current \in Fine
              /\ completed' = Append(completed, Done(Current))
              /\ UNCHANGED errors
           \/ \E code \in Codes :
                 /\ code = "NORMALIZATION_FAILED" <=> ~HasFinding(Current)
                 /\ errors' = Append(errors, Failed(Current, code))
                 /\ UNCHANGED completed
    PROVE  LoopInv'
<1>1. /\ Current \in 1..Len(report) /\ Current = position + 1 /\ position \in Nat
      /\ DOMAIN report = 1..Len(report) /\ Len(report) \in Nat
  BY DEF RequestInv, LoopInv, ResultsLeft, Current
<1>2. UNCHANGED report /\ DoneResults' = DoneResults /\ FailedResults' = FailedResults
  BY DEF inputs, DoneResults, Done, Fine, FailedResults, Failed, ImportedKey, HasFinding
<1>3. position' \in 0..Len(report) /\ 1..position' = 1..position \cup {Current}
  BY <1>1
<1>4. Current \notin Sources(completed) /\ Current \notin Sources(errors)
  BY <1>1 DEF LoopInv
<1>5. \A i : HasFinding(i)' = HasFinding(i)
  BY <1>2 DEF HasFinding
<1>6. CASE /\ Current \in Fine
           /\ completed' = Append(completed, Done(Current))
           /\ UNCHANGED errors
  <2>1. Done(Current) \in DoneResults /\ Done(Current).source = Current
    BY <1>6, FindingOf DEF DoneResults
  <2>2. /\ OneEach(completed')
        /\ Sources(completed') = Sources(completed) \cup {Current}
    BY <1>4, <1>6, <2>1, AppendOne DEF LoopInv
  <2>3. completed' \in Seq(DoneResults) /\ Len(completed') = Len(completed) + 1
    BY <1>6, <2>1 DEF LoopInv
  <2>4. Sources(errors') = Sources(errors) /\ OneEach(errors')
    BY <1>6 DEF LoopInv
  <2>5. Len(completed') + Len(errors') = position'
    <3>1. Len(completed) \in Nat /\ Len(errors) \in Nat /\ Len(completed) + Len(errors) = position
      BY DEF LoopInv
    <3> QED BY <1>1, <1>6, <2>3, <3>1
  <2>6. /\ Sources(completed') \cup Sources(errors') = 1..position'
        /\ Sources(completed') \cap Sources(errors') = {}
    BY <1>3, <1>4, <2>2, <2>4 DEF LoopInv
  <2>7. \A k \in DOMAIN errors' :
           errors'[k].error_code = "NORMALIZATION_FAILED" <=> ~HasFinding(errors'[k].source)
    BY <1>6 DEF LoopInv
  <2>8. errors' \in Seq(FailedResults)
    BY <1>6 DEF LoopInv
  <2> QED
    BY <1>2, <1>3, <1>5, <2>2, <2>3, <2>4, <2>5, <2>6, <2>7, <2>8 DEF LoopInv, OneEach, Sources
<1>7. ASSUME NEW code \in Codes,
             code = "NORMALIZATION_FAILED" <=> ~HasFinding(Current),
             errors' = Append(errors, Failed(Current, code)),
             UNCHANGED completed
      PROVE  LoopInv'
  <2>1. /\ Failed(Current, code) \in FailedResults
        /\ Failed(Current, code).source = Current /\ Failed(Current, code).error_code = code
    BY <1>1, FindingOf DEF FailedResults
  <2>2. /\ OneEach(errors')
        /\ Sources(errors') = Sources(errors) \cup {Current}
    BY <1>4, <1>7, <2>1, AppendOne DEF LoopInv
  <2>3. errors' \in Seq(FailedResults) /\ Len(errors') = Len(errors) + 1
    BY <1>7, <2>1 DEF LoopInv
  <2>4. Sources(completed') = Sources(completed) /\ OneEach(completed')
    BY <1>7 DEF LoopInv
  <2>5. Len(completed') + Len(errors') = position'
    <3>1. Len(completed) \in Nat /\ Len(errors) \in Nat /\ Len(completed) + Len(errors) = position
      BY DEF LoopInv
    <3> QED BY <1>1, <1>7, <2>3, <3>1
  <2>6. /\ Sources(completed') \cup Sources(errors') = 1..position'
        /\ Sources(completed') \cap Sources(errors') = {}
    BY <1>3, <1>4, <2>2, <2>4 DEF LoopInv
  <2>7. ASSUME NEW k \in DOMAIN errors'
        PROVE  errors'[k].error_code = "NORMALIZATION_FAILED" <=> ~HasFinding(errors'[k].source)
    <3>1. errors \in Seq(FailedResults)
      BY DEF LoopInv
    <3>2. CASE k \in DOMAIN errors
      <4>1. errors'[k] = errors[k]
        BY <1>7, <3>1, <3>2
      <4> QED BY <3>2, <4>1 DEF LoopInv
    <3>3. CASE k \notin DOMAIN errors
      <4>1. errors'[k] = Failed(Current, code)
        BY <1>7, <2>7, <3>1, <3>3
      <4> QED BY <1>7, <2>1, <4>1
    <3> QED BY <3>2, <3>3
  <2>8. completed' \in Seq(DoneResults)
    BY <1>7 DEF LoopInv
  <2> QED
    BY <1>2, <1>3, <1>5, <2>2, <2>3, <2>4, <2>5, <2>6, <2>7, <2>8 DEF LoopInv, OneEach, Sources
<1> QED BY <1>6, <1>7

-----------------------------------------------------------------------------
(* Every step of a batch.                                                  *)

LEMMA BatchInit == Init => BatchInv
<1> SUFFICES ASSUME Init PROVE BatchInv
  OBVIOUS
<1>1. /\ pc = "import" /\ position = 0 /\ completed = <<>> /\ errors = <<>>
      /\ \A i \in DOMAIN report : Len(report[i].shortlist) <= top_k
  BY DEF Init
<1>2. max_findings \in Nat /\ top_k \in Nat
  BY DEF Init
<1>3. Reported \subseteq Results
  <2>1. Shortlists \subseteq {s \in Seq(Nat) : IsInjective(s)}
    <3> SUFFICES ASSUME NEW f \in Shortlists PROVE f \in Seq(Nat) /\ IsInjective(f)
      OBVIOUS
    <3>1. PICK n \in 0..Cardinality(Paths) : f \in [1..n -> Paths] /\ IsInjective(f)
      BY DEF Shortlists
    <3>2. n \in Nat /\ Paths \subseteq Nat
      BY TriageAssumption
    <3>3. f \in [1..n -> Nat]
      BY <3>1, <3>2
    <3> QED BY <3>1, <3>2, <3>3
  <2>2. Severities \subseteq Nat /\ <<>> \in {s \in Seq(Nat) : IsInjective(s)}
    BY TriageAssumption DEF IsInjective
  <2>3. [kind : {"fine"}, severity : Severities, shortlist : Shortlists] \subseteq Results
    BY <2>1, <2>2 DEF Results
  <2>4. [kind : {"malformed", "unlocalizable"}, severity : {0}, shortlist : {<<>>}]
           \subseteq Results
    <3> SUFFICES ASSUME NEW r \in [kind : {"malformed", "unlocalizable"}, severity : {0},
                                  shortlist : {<<>>}]
                 PROVE  r \in Results
      OBVIOUS
    <3>1. /\ r = [kind |-> r.kind, severity |-> r.severity, shortlist |-> r.shortlist]
          /\ r.kind \in {"malformed", "unlocalizable"} /\ r.severity = 0
          /\ r.shortlist = <<>>
      OBVIOUS
    <3>2. /\ r.kind \in {"fine", "malformed", "unlocalizable"} /\ r.severity \in Nat
          /\ r.shortlist \in {s \in Seq(Nat) : IsInjective(s)}
      BY <2>2, <3>1
    <3> QED BY <3>1, <3>2 DEF Results
  <2> QED BY <2>3, <2>4 DEF Reported
<1>4. report \in Seq(Results)
  <2>1. PICK n \in 0..MaxResults : report \in [1..n -> Reported]
    BY DEF Init
  <2>2. n \in Nat /\ report \in [1..n -> Results]
    BY <1>3, <2>1
  <2> QED BY <2>2
<1>5. RequestInv
  BY <1>1, <1>2, <1>4 DEF RequestInv
<1>6. LoopInv
  BY <1>1, <1>4 DEF LoopInv, OneEach, Sources
<1>7. PackageInv
  BY <1>1 DEF PackageInv, Ended
<1> QED BY <1>5, <1>6, <1>7 DEF BatchInv

\* A step outside the loop, up to what it makes of the package.
LEMMA OutsideLoop ==
    ASSUME BatchInv, UNCHANGED <<inputs, position, completed, errors>>,
           position' > 0 \/ pc' \notin {"import", "refused"} =>
               Len(report) <= max_findings /\ max_findings * top_k <= MaxContributions
    PROVE  RequestInv' /\ LoopInv'
<1>1. UNCHANGED report /\ DoneResults' = DoneResults /\ FailedResults' = FailedResults
  BY DEF inputs, DoneResults, Done, Fine, FailedResults, Failed, ImportedKey, HasFinding
<1>2. RequestInv'
  BY DEF BatchInv, RequestInv, inputs
<1>3. LoopInv'
  <2>1. /\ position' \in 0..Len(report')
        /\ completed' \in Seq(DoneResults') /\ errors' \in Seq(FailedResults')
    BY <1>1 DEF BatchInv, LoopInv
  <2>2. OneEach(completed)' /\ OneEach(errors)'
    BY DEF BatchInv, LoopInv, OneEach
  <2>3. Sources(completed)' = Sources(completed) /\ Sources(errors)' = Sources(errors)
    BY DEF Sources
  <2>4. \A i : HasFinding(i)' <=> HasFinding(i)
    BY <1>1 DEF HasFinding
  <2>5. (\A k \in DOMAIN errors :
            errors[k].error_code = "NORMALIZATION_FAILED" <=> ~HasFinding(errors[k].source))'
    BY <2>4 DEF BatchInv, LoopInv
  <2>6. /\ Sources(completed) \cup Sources(errors) = 1..position
        /\ Sources(completed) \cap Sources(errors) = {}
        /\ Len(completed) + Len(errors) = position
    BY DEF BatchInv, LoopInv
  <2> QED BY <2>1, <2>2, <2>3, <2>5, <2>6 DEF LoopInv
<1> QED BY <1>2, <1>3

LEMMA StageStep ==
    ASSUME BatchInv, Stage
    PROVE  BatchInv'
<1>1. /\ RequestInv' /\ LoopInv'
  <2>1. pc' \in {"raised", "verify"} /\ UNCHANGED <<inputs, position, completed, errors>>
    BY DEF Stage
  <2> QED BY <2>1, OutsideLoop DEF Stage, BatchInv, RequestInv, inputs
<1>2. ~OverContributions
  BY ContributionsBounded, TriageAssumption DEF BatchInv
<1> DEFINE queue == BuildReviewQueue(completed)
<1>3. /\ pc' = "verify" /\ position = Len(report)
      /\ package' = [artifacts |-> "staged", findings |-> completed, errors |-> errors,
                     queue |-> queue, summary |-> Summary(queue)]
      /\ UNCHANGED <<inputs, position, completed, errors>>
  BY <1>2 DEF Stage
<1>4. BuildReviewQueue(completed)' = queue /\ Summary(queue)' = Summary(queue)
  BY <1>3 DEF inputs, Summary, Abstentions
<1>5. PackageInv'
  BY <1>3, <1>4 DEF PackageInv, inputs
<1> QED BY <1>1, <1>5 DEF BatchInv

\* The package, once staged, is what it was staged as.
LEMMA PackageStays ==
    ASSUME BatchInv, pc \in {"verify", "published", "read", "rejected"},
           UNCHANGED <<inputs, position, completed, errors, package>>
    PROVE  (LET queue == BuildReviewQueue(completed)
            IN /\ position = Len(report)
               /\ package = [artifacts |-> "staged", findings |-> completed, errors |-> errors,
                             queue |-> queue, summary |-> Summary(queue)])'
<1>1. Summary(BuildReviewQueue(completed))' = Summary(BuildReviewQueue(completed))
  BY DEF inputs, Summary, Abstentions
<1>2. UNCHANGED report
  BY DEF inputs
<1> QED BY <1>1, <1>2 DEF BatchInv, PackageInv

LEMMA VerifyStep ==
    ASSUME BatchInv, Verify
    PROVE  BatchInv'
<1>1. /\ pc = "verify" /\ UNCHANGED <<inputs, position, completed, errors, package>>
      /\ pc' = IF Verifies(package) THEN "published" ELSE "rejected"
  BY DEF Verify
<1>2. RequestInv' /\ LoopInv'
  BY <1>1, OutsideLoop DEF BatchInv, RequestInv
<1>3. Verifies(package)' <=> Verifies(package)
  BY <1>1 DEF Verifies, KeysAgree, SummaryAgrees
<1>4. PackageInv'
  BY <1>1, <1>3, PackageStays DEF PackageInv, Ended
<1> QED BY <1>2, <1>4 DEF BatchInv

LEMMA ReadPageStep ==
    ASSUME BatchInv, NEW limit, ReadPage(limit)
    PROVE  BatchInv'
<1>1. /\ pc = "published" /\ UNCHANGED <<inputs, position, completed, errors, package>>
      /\ pc' \in {"published", "read"}
  BY DEF ReadPage
<1>2. RequestInv' /\ LoopInv'
  BY <1>1, OutsideLoop DEF BatchInv, RequestInv
<1>3. Verifies(package)' <=> Verifies(package)
  BY <1>1 DEF Verifies, KeysAgree, SummaryAgrees
<1>4. PackageInv'
  BY <1>1, <1>3, PackageStays DEF BatchInv, PackageInv, Ended
<1> QED BY <1>2, <1>4 DEF BatchInv

LEMMA LoopStep ==
    ASSUME BatchInv, SkipMalformed \/ Localize \/ LocalizeFails
    PROVE  BatchInv'
<1>1. /\ ResultsLeft /\ position' = Current
      /\ UNCHANGED <<pc, inputs, snapshot, package, reader>>
  BY DEF SkipMalformed, Localize, LocalizeFails, Advance
<1>2. \/ /\ Current \in Fine
         /\ completed' = Append(completed, Done(Current))
         /\ UNCHANGED errors
      \/ \E code \in Codes :
            /\ code = "NORMALIZATION_FAILED" <=> ~HasFinding(Current)
            /\ errors' = Append(errors, Failed(Current, code))
            /\ UNCHANGED completed
  <2>1. CASE SkipMalformed
    BY <2>1 DEF SkipMalformed, NormalizationError, ResultError, Failed, Codes
  <2>2. CASE Localize
    <3>1. Current \in DOMAIN report
      BY <1>1 DEF ResultsLeft, Current, BatchInv, LoopInv, RequestInv
    <3>2. HasFinding(Current) = TRUE
      BY <2>2 DEF Localize, HasFinding
    <3>3. ImportedKey(Current) = ResultKey(Current, TRUE)
      BY <3>2 DEF ImportedKey
    <3> QED BY <2>2, <3>1, <3>3 DEF Localize, Done, Fine
  <2>3. CASE LocalizeFails
    BY <2>3 DEF LocalizeFails, ResultError, Failed, Codes
  <2> QED BY <2>1, <2>2, <2>3
<1>3. LoopInv'
  BY <1>1, <1>2, ResultEntered DEF BatchInv
<1>4. RequestInv'
  BY <1>1 DEF BatchInv, RequestInv, inputs, ResultsLeft
<1>5. PackageInv'
  BY <1>1 DEF BatchInv, PackageInv, ResultsLeft, Ended
<1> QED BY <1>3, <1>4, <1>5 DEF BatchInv

LEMMA BatchStepInv ==
    ASSUME BatchInv, Batch \/ HostChangesSnapshot \/ UNCHANGED vars
    PROVE  BatchInv'
<1>1. CASE \/ ImportRefuses \/ Import \/ Materialise \/ MaterialiseFails
           \/ HostChangesSnapshot
  <2>1. /\ UNCHANGED <<inputs, position, completed, errors, package>>
        /\ pc \in {"import", "materialise", "localize"}
        /\ pc' \in {"refused", "materialise", "localize"}
    BY <1>1 DEF ImportRefuses, Import, Materialise, MaterialiseFails, HostChangesSnapshot
  <2>2. position' > 0 \/ pc' \notin {"import", "refused"} =>
            Len(report) <= max_findings /\ max_findings * top_k <= MaxContributions
    <3>1. CASE Import
      BY <3>1 DEF Import
    <3>2. CASE ~Import
      BY <1>1, <3>2 DEF ImportRefuses, Materialise, MaterialiseFails, HostChangesSnapshot,
         BatchInv, RequestInv
    <3> QED BY <3>1, <3>2
  <2>3. RequestInv' /\ LoopInv'
    BY <2>1, <2>2, OutsideLoop
  <2>4. PackageInv'
    BY <2>1 DEF PackageInv, Ended
  <2> QED BY <2>3, <2>4 DEF BatchInv
<1>2. CASE SkipMalformed \/ Localize \/ LocalizeFails
  BY <1>2, LoopStep
<1>3. CASE LocalizeRaises
  <2>1. /\ UNCHANGED <<inputs, position, completed, errors, package>>
        /\ pc = "localize" /\ pc' = "raised"
    BY <1>3 DEF LocalizeRaises, ResultsLeft
  <2>2. RequestInv' /\ LoopInv'
    BY <2>1, OutsideLoop DEF BatchInv, RequestInv
  <2>3. ~OverContributions'
    BY <2>1, ContributionsBounded, TriageAssumption DEF BatchInv, OverContributions
  <2>4. PackageInv'
    BY <2>1, <2>3 DEF PackageInv, Ended
  <2> QED BY <2>2, <2>4 DEF BatchInv
<1>4. CASE Stage
  BY <1>4, StageStep
<1>5. CASE Verify
  BY <1>5, VerifyStep
<1>6. CASE \E limit \in 1..Cardinality(Paths) : ReadPage(limit)
  BY <1>6, ReadPageStep
<1>7. CASE UNCHANGED vars
  <2>1. UNCHANGED <<pc, inputs, position, completed, errors, package>>
    BY <1>7 DEF vars
  <2>2. RequestInv' /\ LoopInv'
    BY <2>1, OutsideLoop DEF BatchInv, RequestInv
  <2>3. PackageInv'
    BY <2>1 DEF BatchInv, PackageInv, Ended, inputs, Summary, Abstentions, Verifies, KeysAgree,
       SummaryAgrees, OverContributions
  <2> QED BY <2>2, <2>3 DEF BatchInv
<1> QED BY <1>1, <1>2, <1>3, <1>4, <1>5, <1>6, <1>7 DEF Batch

-----------------------------------------------------------------------------
(* What follows for a package that verifies, and for one that does not.    *)

\* A result that is done with is in one of the two lists.
LEMMA InOneList ==
    ASSUME BatchInv, position = Len(report), NEW i \in DOMAIN report
    PROVE  /\ i \in Sources(completed) <=> i \notin Sources(errors)
           /\ i \in Sources(completed) => i \in Fine
<1>1. DOMAIN report = 1..position
  BY DEF BatchInv, RequestInv
<1>2. i \in Sources(completed) <=> i \notin Sources(errors)
  BY <1>1 DEF BatchInv, LoopInv
<1>3. ASSUME NEW k \in DOMAIN completed, completed[k].source = i PROVE i \in Fine
  <2>1. completed[k] \in DoneResults
    BY <1>3 DEF BatchInv, LoopInv
  <2>2. PICK j \in Fine : completed[k] = Done(j)
    BY <2>1 DEF DoneResults
  <2> QED BY <1>3, <2>2, FindingOf
<1> QED BY <1>2, <1>3 DEF Sources

LEMMA PublishedAccounts == BatchInv => AccountedFor
<1> SUFFICES ASSUME BatchInv, Published PROVE AccountedFor
  BY DEF AccountedFor
<1>1. /\ position = Len(report)
      /\ package.findings = completed /\ package.errors = errors
      /\ package.summary = Summary(BuildReviewQueue(completed))
  BY DEF BatchInv, PackageInv, Published
<1>2. ASSUME NEW i \in DOMAIN report
      PROVE  LET done == \E k \in DOMAIN package.findings : package.findings[k].source = i
                 failures == {k \in DOMAIN package.errors : package.errors[k].source = i}
             IN /\ done <=> failures = {}
                /\ done => report[i].kind = "fine"
                /\ \A k \in failures : package.errors[k].error_code = "NORMALIZATION_FAILED"
                                          <=> report[i].kind = "malformed"
  <2>1. /\ i \in Sources(completed) <=> i \notin Sources(errors)
        /\ i \in Sources(completed) => i \in Fine
    BY <1>1, InOneList
  <2>2. \A k \in DOMAIN errors :
           errors[k].error_code = "NORMALIZATION_FAILED" <=> ~HasFinding(errors[k].source)
    BY DEF BatchInv, LoopInv
  <2>3. (\E k \in DOMAIN completed : completed[k].source = i) <=> i \in Sources(completed)
    BY DEF Sources
  <2>4. {k \in DOMAIN errors : errors[k].source = i} = {} <=> i \notin Sources(errors)
    BY DEF Sources
  <2> QED BY <1>1, <2>1, <2>2, <2>3, <2>4 DEF Fine, HasFinding
<1>3. package.summary.exit_code = 0 <=> Len(package.findings) = Len(report)
  <2>1. package.summary.exit_code = IF errors = <<>> THEN 0 ELSE 5
    BY <1>1 DEF Summary
  <2>2. /\ Len(completed) \in Nat /\ Len(errors) \in Nat
        /\ Len(completed) + Len(errors) = Len(report)
        /\ errors = <<>> <=> Len(errors) = 0
    BY <1>1 DEF BatchInv, LoopInv
  <2> QED BY <1>1, <2>1, <2>2
<1> QED BY <1>2, <1>3 DEF AccountedFor

\* As many keys as results.
LEMMA KeysCounted ==
    ASSUME NEW X, NEW items \in Seq(X), OneEach(items),
           \A k \in DOMAIN items : items[k].result_key.source = items[k].source
    PROVE  Cardinality(KeysOf(items)) = Len(items)
<1> DEFINE n == Len(items)
           f == [k \in 1..n |-> items[k].result_key]
<1>1. n \in Nat /\ DOMAIN items = 1..n
  OBVIOUS
<1>2. \A j, k \in 1..n : f[j] = f[k] => j = k
  BY <1>1 DEF OneEach
<1>3. KeysOf(items) = {f[k] : k \in 1..n}
  BY <1>1 DEF KeysOf
<1>4. f \in Bijection(1..n, KeysOf(items))
  <2>1. f \in Injection(1..n, KeysOf(items))
    <3>1. f \in [1..n -> KeysOf(items)]
      BY <1>3
    <3> HIDE DEF f
    <3> QED BY <1>2, <3>1 DEF Injection, IsInjective
  <2>2. f \in Surjection(1..n, KeysOf(items))
    BY <1>3 DEF Surjection
  <2> QED BY <2>1, <2>2 DEF Bijection
<1>5. ExistsBijection(1..n, KeysOf(items))
  BY <1>4 DEF ExistsBijection
<1>6. IsFiniteSet(1..n) /\ Cardinality(1..n) = n
  <2>1. Cardinality(1..n) = IF 1 > n THEN 0 ELSE n - 1 + 1
    BY <1>1, FS_Interval
  <2>2. IsFiniteSet(1..n)
    BY <1>1, FS_Interval
  <2> QED BY <1>1, <2>1, <2>2
<1>7. Cardinality(KeysOf(items)) = Cardinality(1..n)
  <2> HIDE DEF n
  <2> QED BY <1>5, <1>6, FS_Bijection
<1> QED BY <1>6, <1>7

\* Where every error is one of normalisation, the verifier recomputes each key.
LEMMA VerifiesUnlessLocalization ==
    ASSUME BatchInv, pc \in {"verify", "published", "read", "rejected"},
           \A k \in DOMAIN errors : errors[k].error_code # "LOCALIZATION_FAILED"
    PROVE  Verifies(package)
<1> DEFINE queue == BuildReviewQueue(completed)
<1>1. /\ position = Len(report)
      /\ package = [artifacts |-> "staged", findings |-> completed, errors |-> errors,
                    queue |-> queue, summary |-> Summary(queue)]
  BY DEF BatchInv, PackageInv
<1>2. /\ package.findings = completed /\ package.errors = errors
      /\ package.queue = queue /\ package.summary = Summary(queue)
  BY <1>1
<1> HIDE DEF queue
<1>3. ASSUME NEW k \in DOMAIN completed
      PROVE  completed[k].result_key = ResultKey(completed[k].source, TRUE)
  <2>1. completed[k] \in DoneResults
    BY DEF BatchInv, LoopInv
  <2>2. PICK i \in Fine : completed[k] = Done(i)
    BY <2>1 DEF DoneResults
  <2>3. completed[k].source = i /\ completed[k].result_key = ResultKey(i, TRUE)
    BY <2>2 DEF Done
  <2> QED BY <2>3
<1>4. ASSUME NEW k \in DOMAIN errors
      PROVE  errors[k].result_key = ResultKey(errors[k].source, FALSE)
  <2>1. errors[k] \in FailedResults
    BY DEF BatchInv, LoopInv
  <2>2. PICK i \in DOMAIN report, code \in Codes : errors[k] = Failed(i, code)
    BY <2>1 DEF FailedResults
  <2>3. errors[k].source = i /\ errors[k].error_code = code
        /\ errors[k].result_key = ImportedKey(i)
    BY <2>2 DEF Failed
  <2>4. code = "NORMALIZATION_FAILED"
    BY <2>3 DEF Codes
  <2>5. ~HasFinding(i)
    BY <2>3, <2>4 DEF BatchInv, LoopInv
  <2>6. HasFinding(i) = FALSE
    BY <2>5 DEF HasFinding
  <2> QED BY <2>3, <2>6 DEF ImportedKey
<1>5. KeysAgree(package)
  BY <1>2, <1>3, <1>4 DEF KeysAgree
<1>6. Cardinality(KeysOf(completed)) = Len(completed)
  <2>1. ASSUME NEW k \in DOMAIN completed
        PROVE  completed[k].result_key.source = completed[k].source
    <3>1. completed[k].result_key = [source |-> completed[k].source, finding |-> TRUE]
      BY <1>3 DEF ResultKey
    <3> QED BY <3>1
  <2> QED BY <2>1, KeysCounted DEF BatchInv, LoopInv
<1>7. Cardinality(KeysOf(errors)) = Len(errors)
  <2>1. ASSUME NEW k \in DOMAIN errors
        PROVE  errors[k].result_key.source = errors[k].source
    <3>1. errors[k].result_key = [source |-> errors[k].source, finding |-> FALSE]
      BY <1>4 DEF ResultKey
    <3> QED BY <3>1
  <2> QED BY <2>1, KeysCounted DEF BatchInv, LoopInv
<1>8. KeysOf(completed) \cap KeysOf(errors) = {}
  <2> SUFFICES ASSUME NEW j \in DOMAIN completed, NEW k \in DOMAIN errors,
                      completed[j].result_key = errors[k].result_key
               PROVE  FALSE
    BY DEF KeysOf
  <2>1. ResultKey(completed[j].source, TRUE).finding
           = ResultKey(errors[k].source, FALSE).finding
    BY <1>3, <1>4
  <2> QED BY <2>1 DEF ResultKey
<1>9. SummaryAgrees(package)
  <2>1. Len(completed) \in Nat /\ Len(errors) \in Nat
        /\ Len(report) = Len(completed) + Len(errors)
    BY <1>1 DEF BatchInv, LoopInv
  <2>2. /\ Summary(queue).selected_results = Len(report)
        /\ Summary(queue).completed_localizations = Len(completed)
        /\ Summary(queue).localization_abstentions = Abstentions
        /\ Summary(queue).result_local_errors = Len(errors)
        /\ Summary(queue).unique_review_paths = Len(queue)
        /\ Summary(queue).exit_code = IF errors = <<>> THEN 0 ELSE 5
    BY DEF Summary
  <2> QED BY <1>2, <2>1, <2>2 DEF SummaryAgrees, Abstentions
<1> QED BY <1>2, <1>5, <1>6, <1>7, <1>8, <1>9 DEF Verifies, queue

LEMMA LostOnly == BatchInv => LostOnlyForLocalization
<1> SUFFICES ASSUME BatchInv PROVE LostOnlyForLocalization
  OBVIOUS
<1>1. pc = "rejected" => \E i \in DOMAIN errors : errors[i].error_code = "LOCALIZATION_FAILED"
  BY VerifiesUnlessLocalization DEF BatchInv, PackageInv
<1>2. pc = "raised" => ~OverContributions
  BY DEF BatchInv, PackageInv
<1> QED BY <1>1, <1>2 DEF LostOnlyForLocalization

-----------------------------------------------------------------------------
(* The review queue.                                                       *)

LEMMA PairBefore ==
    ASSUME NEW a1, NEW a2, NEW b1, NEW b2
    PROVE  TupleBefore(<<a1, a2>>, <<b1, b2>>) <=> a1 < b1 \/ (a1 = b1 /\ a2 < b2)
<1> DEFINE a == <<a1, a2>>
           b == <<b1, b2>>
<1>1. DOMAIN a = {1, 2} /\ a[1] = a1 /\ a[2] = a2 /\ b[1] = b1 /\ b[2] = b2
  OBVIOUS
<1>2. 1..(1 - 1) = {} /\ 1..(2 - 1) = {1}
  OBVIOUS
<1> HIDE DEF a, b
<1>3. TupleBefore(a, b) <=> a1 < b1 \/ (a1 = b1 /\ a2 < b2)
  BY <1>1, <1>2 DEF TupleBefore
<1> QED BY <1>3 DEF a, b

LEMMA FourBefore ==
    ASSUME NEW a1, NEW a2, NEW a3, NEW a4, NEW b1, NEW b2, NEW b3, NEW b4
    PROVE  TupleBefore(<<a1, a2, a3, a4>>, <<b1, b2, b3, b4>>) <=>
              \/ a1 < b1
              \/ a1 = b1 /\ a2 < b2
              \/ a1 = b1 /\ a2 = b2 /\ a3 < b3
              \/ a1 = b1 /\ a2 = b2 /\ a3 = b3 /\ a4 < b4
<1> DEFINE a == <<a1, a2, a3, a4>>
           b == <<b1, b2, b3, b4>>
<1>1. /\ DOMAIN a = {1, 2, 3, 4}
      /\ a[1] = a1 /\ a[2] = a2 /\ a[3] = a3 /\ a[4] = a4
      /\ b[1] = b1 /\ b[2] = b2 /\ b[3] = b3 /\ b[4] = b4
  OBVIOUS
<1>2. 1..(1 - 1) = {} /\ 1..(2 - 1) = {1} /\ 1..(3 - 1) = {1, 2} /\ 1..(4 - 1) = {1, 2, 3}
  OBVIOUS
<1> HIDE DEF a, b
<1>3. TupleBefore(a, b) <=>
         \/ a1 < b1
         \/ a1 = b1 /\ a2 < b2
         \/ a1 = b1 /\ a2 = b2 /\ a3 < b3
         \/ a1 = b1 /\ a2 = b2 /\ a3 = b3 /\ a4 < b4
  BY <1>1, <1>2 DEF TupleBefore
<1> QED BY <1>3 DEF a, b

LEMMA ContributionIs ==
    ASSUME RequestInv, LoopInv, NEW i \in DOMAIN completed,
           NEW rank \in DOMAIN completed[i].candidates
    PROVE  LET c == Contribution(completed[i], rank)
           IN /\ c.path = completed[i].candidates[rank] /\ c.path \in Nat
              /\ c.finding_key = completed[i].result_key
              /\ c.finding_key.source = completed[i].source /\ c.finding_key.source \in Nat
              /\ c.rank = rank /\ c.rank \in Nat
              /\ c.severity = completed[i].severity /\ c.severity \in Nat
              /\ RankOf(c.path, completed[i]) = rank
<1>1. /\ completed[i].source \in DOMAIN report
      /\ completed[i].result_key = ResultKey(completed[i].source, TRUE)
      /\ completed[i].severity \in Nat
      /\ completed[i].candidates \in Seq(Nat) /\ IsInjective(completed[i].candidates)
  BY CompletedIs
<1>2. completed[i].source \in Nat /\ rank \in Nat /\ completed[i].candidates[rank] \in Nat
  BY <1>1 DEF RequestInv
<1>3. RankOf(completed[i].candidates[rank], completed[i]) = rank
  BY <1>1 DEF RankOf, IsInjective
<1> QED BY <1>1, <1>2, <1>3 DEF Contribution, ResultKey

\* A path has one contribution of each result that names it.
LEMMA ContributionsOfPath ==
    ASSUME RequestInv, LoopInv, NEW path
    PROVE  LET S == OfPath(Contributions(completed), path)
               on == {i \in DOMAIN completed : path \in ToSet(completed[i].candidates)}
           IN /\ \A i \in on : /\ RankOf(path, completed[i]) \in DOMAIN completed[i].candidates
                               /\ Contribution(completed[i], RankOf(path, completed[i])) \in S
              /\ \A c \in S : \E i \in on : c = Contribution(completed[i], RankOf(path, completed[i]))
<1> DEFINE S == OfPath(Contributions(completed), path)
           on == {i \in DOMAIN completed : path \in ToSet(completed[i].candidates)}
<1>1. ASSUME NEW i \in on
      PROVE  /\ RankOf(path, completed[i]) \in DOMAIN completed[i].candidates
             /\ Contribution(completed[i], RankOf(path, completed[i])) \in S
  <2>1. PICK rank \in DOMAIN completed[i].candidates : completed[i].candidates[rank] = path
    BY DEF ToSet
  <2>2. /\ RankOf(path, completed[i]) = rank
        /\ Contribution(completed[i], rank).path = path
    BY <2>1, ContributionIs
  <2>3. Contribution(completed[i], rank) \in Contributions(completed)
    BY DEF Contributions
  <2> QED BY <2>2, <2>3 DEF OfPath
<1>2. ASSUME NEW c \in S
      PROVE  \E i \in on : c = Contribution(completed[i], RankOf(path, completed[i]))
  <2>1. c \in Contributions(completed) /\ c.path = path
    BY DEF OfPath
  <2>2. PICK i \in DOMAIN completed : \E rank \in DOMAIN completed[i].candidates :
           c = Contribution(completed[i], rank)
    BY <2>1 DEF Contributions
  <2>3. PICK rank \in DOMAIN completed[i].candidates : c = Contribution(completed[i], rank)
    BY <2>2
  <2>4. completed[i].candidates[rank] = path /\ RankOf(path, completed[i]) = rank
    BY <2>1, <2>3, ContributionIs
  <2>5. i \in on
    BY <2>4 DEF ToSet
  <2> QED BY <2>3, <2>4, <2>5
<1> QED BY <1>1, <1>2

\* The first contribution of a path has the best rank.
LEMMA FirstIsBest ==
    ASSUME RequestInv, LoopInv, NEW path, NEW S,
           S \subseteq OfPath(Contributions(completed), path), S # {}
    PROVE  /\ InOrder(S, ContributionBefore)[1] \in S
           /\ \A c \in S : InOrder(S, ContributionBefore)[1].rank <= c.rank
<1> DEFINE R == {p \in S \X S : ContributionBefore(p[1], p[2])}
           c0 == Cardinality(S)
           order == [n \in 1..c0 |->
                        CHOOSE x \in S : Cardinality({y \in S : ContributionBefore(y, x)}) = n - 1]
<1>1. IsFiniteSet(S) /\ c0 \in Nat /\ 1 \in 1..c0
  <2>1. IsFiniteSet(S)
    BY ContributionsCounted, FS_Subset DEF OfPath
  <2> QED BY <2>1, FS_CardinalityType, FS_EmptySet
<1>2. \A c \in S : c.rank \in Nat /\ c.finding_key.source \in Nat
  <2> SUFFICES ASSUME NEW c \in S PROVE c.rank \in Nat /\ c.finding_key.source \in Nat
    OBVIOUS
  <2>1. PICK i \in DOMAIN completed : \E rank \in DOMAIN completed[i].candidates :
           c = Contribution(completed[i], rank)
    BY DEF OfPath, Contributions
  <2> QED BY <2>1, ContributionIs
<1>3. ASSUME NEW c \in S, NEW d \in S
      PROVE  ContributionBefore(c, d) <=>
                \/ c.rank < d.rank
                \/ c.rank = d.rank /\ c.finding_key.source < d.finding_key.source
  BY <1>2, PairBefore DEF ContributionBefore
<1>4. ASSUME NEW c \in S, NEW d \in S, c.finding_key.source = d.finding_key.source
      PROVE  c = d
  <2>1. PICK i \in DOMAIN completed :
           c = Contribution(completed[i], RankOf(path, completed[i]))
           /\ RankOf(path, completed[i]) \in DOMAIN completed[i].candidates
    BY ContributionsOfPath
  <2>2. PICK j \in DOMAIN completed :
           d = Contribution(completed[j], RankOf(path, completed[j]))
           /\ RankOf(path, completed[j]) \in DOMAIN completed[j].candidates
    BY ContributionsOfPath
  <2>3. completed[i].source = completed[j].source
    BY <1>4, <2>1, <2>2, ContributionIs
  <2>4. i = j
    BY <2>3 DEF LoopInv, OneEach
  <2> QED BY <2>1, <2>2, <2>4
<1>5. \A c, d \in S : <<c, d>> \in R <=> ContributionBefore(c, d)
  OBVIOUS
<1>6. StrictOrder(R, S)
  <2> HIDE DEF R
  <2>1. \A c \in S : <<c, c>> \notin R
    BY <1>2, <1>3, <1>5
  <2>2. \A x, y, z \in S : <<x, y>> \in R /\ <<y, z>> \in R => <<x, z>> \in R
    BY <1>2, <1>3, <1>5
  <2>3. \A x, y \in S : x # y => <<x, y>> \in R \/ <<y, x>> \in R
    BY <1>2, <1>3, <1>4, <1>5
  <2> QED BY <2>1, <2>2, <2>3 DEF StrictOrder
<1>7. \A x \in S : Below(R, S, x) = {y \in S : ContributionBefore(y, x)}
  BY <1>5 DEF Below
<1>8. ASSUME NEW n \in 1..c0
      PROVE  order[n] \in S /\ Cardinality(Below(R, S, order[n])) = n - 1
  <2>1. \E x \in S : Cardinality(Below(R, S, x)) = n - 1
    <3> HIDE DEF R
    <3> QED BY <1>1, <1>6, <1>8, NthExists
  <2>2. \E x \in S : Cardinality({y \in S : ContributionBefore(y, x)}) = n - 1
    BY <1>7, <2>1
  <2>3. order[n] = CHOOSE x \in S : Cardinality({y \in S : ContributionBefore(y, x)}) = n - 1
    OBVIOUS
  <2>4. order[n] \in S /\ Cardinality({y \in S : ContributionBefore(y, order[n])}) = n - 1
    <3> HIDE DEF order
    <3> QED BY <2>2, <2>3
  <2> HIDE DEF order, R
  <2> QED BY <1>7, <2>4
<1>9. /\ \A m, n \in 1..c0 : m < n => <<order[m], order[n]>> \in R
      /\ \A x \in S : \E n \in 1..c0 : order[n] = x
  <2>1. order \in [1..Cardinality(S) -> S]
    BY <1>8
  <2>2. \A n \in 1..Cardinality(S) : Cardinality(Below(R, S, order[n])) = n - 1
    BY <1>8
  <2> HIDE DEF order, R
  <2> QED BY <1>1, <1>6, <2>1, <2>2, OrderIs
<1>10. ASSUME NEW c \in S PROVE order[1].rank <= c.rank
  <2>1. PICK n \in 1..c0 : order[n] = c
    BY <1>9
  <2> HIDE DEF order, R
  <2>2. n = 1 \/ <<order[1], c>> \in R
    BY <1>1, <1>9, <2>1
  <2>3. order[1] \in S
    BY <1>1, <1>8
  <2> QED BY <1>2, <1>3, <1>5, <2>1, <2>2, <2>3
<1>11. InOrder(S, ContributionBefore) = order
  BY DEF InOrder
<1>12. order[1] \in S
  BY <1>1, <1>8
<1> HIDE DEF order
<1> QED BY <1>10, <1>11, <1>12

\* An entry says of the results that name its path what IsQueueOf asks for.
LEMMA EntryIs ==
    ASSUME RequestInv, LoopInv, NEW path, OfPath(Contributions(completed), path) # {}
    PROVE  LET e == Entry(path, OfPath(Contributions(completed), path))
               on == {i \in DOMAIN completed : path \in ToSet(completed[i].candidates)}
               ranks == {RankOf(path, completed[i]) : i \in on}
           IN /\ e.path = path
              /\ e.highest_severity = Min({completed[i].severity : i \in on})
              /\ e.finding_count = Cardinality(on)
              /\ e.best_shortlist_rank = Min(ranks)
              /\ \E i \in on : /\ completed[i].result_key = e.primary
                               /\ RankOf(path, completed[i]) = Min(ranks)
              /\ e.highest_severity \in Nat /\ e.finding_count \in Nat
              /\ e.best_shortlist_rank \in Nat
<1> DEFINE S == OfPath(Contributions(completed), path)
           on == {i \in DOMAIN completed : path \in ToSet(completed[i].candidates)}
           ranks == {RankOf(path, completed[i]) : i \in on}
           by(i) == Contribution(completed[i], RankOf(path, completed[i]))
           first == InOrder(S, ContributionBefore)[1]
           e == Entry(path, S)
<1>1. /\ \A i \in on : by(i) \in S
      /\ \A c \in S : \E i \in on : c = by(i)
  BY ContributionsOfPath
<1>2. ASSUME NEW i \in on
      PROVE  /\ by(i).severity = completed[i].severity /\ completed[i].severity \in Nat
             /\ by(i).rank = RankOf(path, completed[i]) /\ RankOf(path, completed[i]) \in Nat
             /\ by(i).finding_key = completed[i].result_key
             /\ completed[i].result_key.source = completed[i].source
  <2>1. RankOf(path, completed[i]) \in DOMAIN completed[i].candidates
    BY ContributionsOfPath
  <2> QED BY <2>1, ContributionIs
<1>3. e = [path |-> path, highest_severity |-> HighestSeverity(S),
           finding_count |-> FindingCount(S), best_shortlist_rank |-> first.rank,
           primary |-> first.finding_key, contributions |-> InOrder(S, ContributionBefore)]
  BY DEF Entry
<1>4. /\ e.path = path /\ e.highest_severity = HighestSeverity(S)
      /\ e.finding_count = FindingCount(S)
      /\ e.best_shortlist_rank = first.rank /\ e.primary = first.finding_key
  BY <1>3
<1> HIDE DEF e
<1>5. first \in S /\ \A c \in S : first.rank <= c.rank
  <2>1. S \subseteq OfPath(Contributions(completed), path) /\ S # {}
    OBVIOUS
  <2> HIDE DEF S
  <2> QED BY <2>1, FirstIsBest
<1>6. PICK j \in on : first = by(j)
  BY <1>1, <1>5
<1> HIDE DEF S, by, first
<1>7. HighestSeverity(S) = Min({completed[i].severity : i \in on}) /\ HighestSeverity(S) \in Nat
  <2> DEFINE severities == {completed[i].severity : i \in on}
  <2>1. {c.severity : c \in S} = severities
    BY <1>1, <1>2
  <2>2. severities \subseteq Nat /\ completed[j].severity \in severities
    BY <1>2
  <2> HIDE DEF severities, on
  <2>3. PICK m \in severities : \A k \in severities : m <= k
    BY <2>2, LeastNatural
  <2>4. Min(severities) = m
    BY <2>2, <2>3, LeastIsMin
  <2>5. HighestSeverity(S) = Min(severities)
    BY <2>1 DEF HighestSeverity
  <2> QED BY <2>2, <2>3, <2>4, <2>5 DEF severities
<1>8. FindingCount(S) = Cardinality(on) /\ Cardinality(on) \in Nat
  <2> DEFINE keys == {c.finding_key : c \in S}
             f == [i \in on |-> completed[i].result_key]
  <2>1. keys = {completed[i].result_key : i \in on}
    BY <1>1, <1>2
  <2>2. f \in [on -> keys] /\ \A k \in keys : \E i \in on : f[i] = k
    BY <2>1
  <2>3. \A i, k \in on : f[i] = f[k] => i = k
    BY <1>2 DEF LoopInv, OneEach
  <2>4. IsFiniteSet(on)
    <3>1. DOMAIN completed = 1..Len(completed) /\ Len(completed) \in Nat
      BY DEF LoopInv
    <3>2. IsFiniteSet(DOMAIN completed)
      BY <3>1, FS_Interval
    <3> QED BY <3>2, FS_Subset
  <2> HIDE DEF f, keys, on
  <2>5. f \in Injection(on, keys) /\ f \in Surjection(on, keys)
    BY <2>2, <2>3 DEF Injection, Surjection, IsInjective
  <2>6. Cardinality(keys) = Cardinality(on)
    BY <2>4, <2>5, FS_Surjection
  <2> QED BY <2>4, <2>6, FS_CardinalityType DEF FindingCount, keys
<1>9. first.rank = Min(ranks) /\ first.rank = RankOf(path, completed[j]) /\ first.rank \in Nat
  <2>1. first.rank = RankOf(path, completed[j])
    BY <1>2, <1>6
  <2>2. ranks \subseteq Nat /\ first.rank \in ranks
    BY <1>2, <2>1
  <2>3. \A k \in ranks : first.rank <= k
    BY <1>1, <1>2, <1>5
  <2> HIDE DEF ranks
  <2> QED BY <2>1, <2>2, <2>3, LeastIsMin
<1>10. first.finding_key = completed[j].result_key
  BY <1>2, <1>6
<1> HIDE DEF on, ranks
<1>11. \E i \in on : /\ completed[i].result_key = e.primary
                     /\ RankOf(path, completed[i]) = Min(ranks)
  BY <1>4, <1>6, <1>9, <1>10
<1> QED BY <1>4, <1>7, <1>8, <1>9, <1>11 DEF e, S, on, ranks

\* Entries of distinct paths, sorted.
LEMMA EntriesInOrder ==
    ASSUME NEW E, IsFiniteSet(E),
           \A x \in E : /\ x.path \in Nat /\ x.highest_severity \in Nat
                       /\ x.finding_count \in Nat /\ x.best_shortlist_rank \in Nat,
           \A x, y \in E : x.path = y.path => x = y
    PROVE  LET order == InOrder(E, EntryBefore)
           IN /\ order \in [1..Cardinality(E) -> E]
              /\ \A x \in E : \E k \in 1..Cardinality(E) : order[k] = x
              /\ \A k, l \in 1..Cardinality(E) :
                   k < l => /\ order[k] # order[l]
                            /\ \/ order[k].highest_severity < order[l].highest_severity
                               \/ /\ order[k].highest_severity = order[l].highest_severity
                                  /\ order[k].finding_count >= order[l].finding_count
<1> DEFINE R == {p \in E \X E : EntryBefore(p[1], p[2])}
           order == [n \in 1..Cardinality(E) |->
                        CHOOSE x \in E : Cardinality({y \in E : EntryBefore(y, x)}) = n - 1]
<1>1. ASSUME NEW x \in E, NEW y \in E
      PROVE  EntryBefore(x, y) <=>
                \/ x.highest_severity < y.highest_severity
                \/ x.highest_severity = y.highest_severity /\ x.finding_count > y.finding_count
                \/ x.highest_severity = y.highest_severity /\ x.finding_count = y.finding_count
                   /\ x.best_shortlist_rank < y.best_shortlist_rank
                \/ x.highest_severity = y.highest_severity /\ x.finding_count = y.finding_count
                   /\ x.best_shortlist_rank = y.best_shortlist_rank /\ x.path < y.path
  <2> DEFINE p == -x.finding_count
             q == -y.finding_count
  <2>1. /\ p \in Int /\ q \in Int
        /\ p < q <=> x.finding_count > y.finding_count
        /\ p = q <=> x.finding_count = y.finding_count
    OBVIOUS
  <2>2. /\ x.highest_severity \in Int /\ x.best_shortlist_rank \in Int /\ x.path \in Int
        /\ y.highest_severity \in Int /\ y.best_shortlist_rank \in Int /\ y.path \in Int
    OBVIOUS
  <2>3. EntryBefore(x, y) <=>
           TupleBefore(<<x.highest_severity, p, x.best_shortlist_rank, x.path>>,
                       <<y.highest_severity, q, y.best_shortlist_rank, y.path>>)
    BY DEF EntryBefore
  <2> HIDE DEF p, q
  <2>4. EntryBefore(x, y) <=>
           \/ x.highest_severity < y.highest_severity
           \/ x.highest_severity = y.highest_severity /\ p < q
           \/ x.highest_severity = y.highest_severity /\ p = q
              /\ x.best_shortlist_rank < y.best_shortlist_rank
           \/ x.highest_severity = y.highest_severity /\ p = q
              /\ x.best_shortlist_rank = y.best_shortlist_rank /\ x.path < y.path
    BY <2>3, FourBefore
  <2> QED BY <2>1, <2>2, <2>4
<1>2. \A x, y \in E : <<x, y>> \in R <=> EntryBefore(x, y)
  OBVIOUS
<1> HIDE DEF R
<1>3. StrictOrder(R, E)
  <2>1. \A x \in E : <<x, x>> \notin R
    BY <1>1, <1>2
  <2>2. ASSUME NEW x \in E, NEW y \in E, NEW z \in E, <<x, y>> \in R, <<y, z>> \in R
        PROVE  <<x, z>> \in R
    <3>1. EntryBefore(x, y) /\ EntryBefore(y, z)
      BY <1>2, <2>2
    <3>2. EntryBefore(x, z)
      BY <1>1, <3>1
    <3> QED BY <1>2, <3>2
  <2>3. ASSUME NEW x \in E, NEW y \in E, x # y
        PROVE  <<x, y>> \in R \/ <<y, x>> \in R
    <3>1. x.path # y.path
      BY <2>3
    <3>2. EntryBefore(x, y) \/ EntryBefore(y, x)
      BY <1>1, <3>1
    <3> QED BY <1>2, <3>2
  <2> QED BY <2>1, <2>2, <2>3 DEF StrictOrder
<1>4. \A x \in E : Below(R, E, x) = {y \in E : EntryBefore(y, x)}
  BY <1>2 DEF Below
<1>5. ASSUME NEW n \in 1..Cardinality(E)
      PROVE  order[n] \in E /\ Cardinality(Below(R, E, order[n])) = n - 1
  <2>1. \E x \in E : Cardinality(Below(R, E, x)) = n - 1
    BY <1>3, NthExists
  <2>2. \E x \in E : Cardinality({y \in E : EntryBefore(y, x)}) = n - 1
    BY <1>4, <2>1
  <2>3. order[n] = CHOOSE x \in E : Cardinality({y \in E : EntryBefore(y, x)}) = n - 1
    OBVIOUS
  <2>4. order[n] \in E /\ Cardinality({y \in E : EntryBefore(y, order[n])}) = n - 1
    <3> HIDE DEF order
    <3> QED BY <2>2, <2>3
  <2> HIDE DEF order
  <2> QED BY <1>4, <2>4
<1>6. order \in [1..Cardinality(E) -> E]
  BY <1>5
<1>7. InOrder(E, EntryBefore) = order
  BY DEF InOrder
<1> HIDE DEF order
<1>8. /\ \A k, l \in 1..Cardinality(E) : k < l => <<order[k], order[l]>> \in R
      /\ \A x \in E : \E k \in 1..Cardinality(E) : order[k] = x
  <2>1. \A n \in 1..Cardinality(E) : Cardinality(Below(R, E, order[n])) = n - 1
    BY <1>5
  <2> QED BY <1>3, <1>6, <2>1, OrderIs
<1>9. ASSUME NEW k \in 1..Cardinality(E), NEW l \in 1..Cardinality(E), k < l
      PROVE  /\ order[k] # order[l]
             /\ \/ order[k].highest_severity < order[l].highest_severity
                \/ /\ order[k].highest_severity = order[l].highest_severity
                   /\ order[k].finding_count >= order[l].finding_count
  <2>1. order[k] \in E /\ order[l] \in E /\ <<order[k], order[l]>> \in R
    BY <1>6, <1>8, <1>9
  <2>2. order[k] # order[l]
    BY <1>3, <2>1 DEF StrictOrder
  <2>3. EntryBefore(order[k], order[l])
    BY <1>2, <2>1
  <2> QED BY <1>1, <2>1, <2>2, <2>3
<1> QED BY <1>6, <1>7, <1>8, <1>9

\* The entries: one of each path that has a contribution.
Entries == {Entry(c.path, OfPath(Contributions(completed), c.path)) : c \in Contributions(completed)}

LEMMA EntriesAre ==
    ASSUME RequestInv, LoopInv
    PROVE  /\ IsFiniteSet(Entries)
           /\ \A x \in Entries : /\ OfPath(Contributions(completed), x.path) # {}
                                /\ x = Entry(x.path, OfPath(Contributions(completed), x.path))
                                /\ x.path \in Nat
           /\ {x.path : x \in Entries} = UNION {ToSet(completed[i].candidates) : i \in DOMAIN completed}
<1> DEFINE all == Contributions(completed)
           f == [c \in all |-> Entry(c.path, OfPath(all, c.path))]
<1>1. IsFiniteSet(all)
  BY ContributionsCounted
<1>2. f \in Surjection(all, Entries)
  <2>1. f \in [all -> Entries] /\ \A x \in Entries : \E c \in all : f[c] = x
    BY DEF Entries
  <2> HIDE DEF f
  <2> QED BY <2>1 DEF Surjection
<1>3. IsFiniteSet(Entries)
  <2> HIDE DEF f, all
  <2> QED BY <1>1, <1>2, FS_Surjection
<1>4. ASSUME NEW c \in all
      PROVE  /\ c.path \in Nat /\ OfPath(all, c.path) # {}
             /\ Entry(c.path, OfPath(all, c.path)).path = c.path
             /\ c.path \in UNION {ToSet(completed[i].candidates) : i \in DOMAIN completed}
  <2>1. PICK i \in DOMAIN completed : \E rank \in DOMAIN completed[i].candidates :
           c = Contribution(completed[i], rank)
    BY DEF Contributions
  <2>2. PICK rank \in DOMAIN completed[i].candidates : c = Contribution(completed[i], rank)
    BY <2>1
  <2>3. c.path = completed[i].candidates[rank] /\ c.path \in Nat
    BY <2>2, ContributionIs
  <2>4. OfPath(all, c.path) # {}
    BY DEF OfPath
  <2>5. c.path \in UNION {ToSet(completed[k].candidates) : k \in DOMAIN completed}
    BY <2>3 DEF ToSet
  <2> QED BY <2>3, <2>4, <2>5 DEF Entry
<1>5. ASSUME NEW x \in Entries
      PROVE  /\ OfPath(all, x.path) # {} /\ x = Entry(x.path, OfPath(all, x.path))
             /\ x.path \in Nat
             /\ x.path \in UNION {ToSet(completed[i].candidates) : i \in DOMAIN completed}
  <2>1. PICK c \in all : x = Entry(c.path, OfPath(all, c.path))
    BY DEF Entries
  <2> HIDE DEF all
  <2>2. x.path = c.path
    BY <1>4, <2>1
  <2> QED BY <1>4, <2>1, <2>2
<1>6. ASSUME NEW i \in DOMAIN completed, NEW path \in ToSet(completed[i].candidates)
      PROVE  path \in {x.path : x \in Entries}
  <2>1. PICK rank \in DOMAIN completed[i].candidates : completed[i].candidates[rank] = path
    BY DEF ToSet
  <2> DEFINE c == Contribution(completed[i], rank)
  <2>2. c \in all /\ c.path = path
    BY <2>1, ContributionIs DEF Contributions
  <2>3. Entry(c.path, OfPath(all, c.path)) \in Entries
    BY <2>2 DEF Entries
  <2>4. Entry(c.path, OfPath(all, c.path)).path = path
    BY <1>4, <2>2
  <2> HIDE DEF c
  <2> QED BY <2>3, <2>4
<1>7. {x.path : x \in Entries} = UNION {ToSet(completed[i].candidates) : i \in DOMAIN completed}
  BY <1>5, <1>6
<1> QED BY <1>3, <1>5, <1>7

LEMMA QueueIs ==
    ASSUME RequestInv, LoopInv
    PROVE  LET queue == BuildReviewQueue(completed)
           IN /\ queue \in Seq({queue[k] : k \in DOMAIN queue})
              /\ \A k \in DOMAIN queue : queue[k].queue_rank = k
              /\ IsQueueOf(queue, completed)
<1> DEFINE queue == BuildReviewQueue(completed)
           order == InOrder(Entries, EntryBefore)
           n == Cardinality(Entries)
           all == Contributions(completed)
           naming(path) == {i \in DOMAIN completed : path \in ToSet(completed[i].candidates)}
           ranks(path) == {RankOf(path, completed[i]) : i \in naming(path)}
<1>1. ASSUME NEW x \in Entries
      PROVE  /\ x.highest_severity = Min({completed[i].severity : i \in naming(x.path)})
             /\ x.finding_count = Cardinality(naming(x.path))
             /\ x.best_shortlist_rank = Min(ranks(x.path))
             /\ \E i \in naming(x.path) : /\ completed[i].result_key = x.primary
                                         /\ RankOf(x.path, completed[i]) = Min(ranks(x.path))
             /\ x.highest_severity \in Nat /\ x.finding_count \in Nat
             /\ x.best_shortlist_rank \in Nat
  <2>1. OfPath(all, x.path) # {} /\ x = Entry(x.path, OfPath(all, x.path))
    BY EntriesAre
  <2> DEFINE path == x.path
             e == Entry(path, OfPath(all, path))
  <2>2. x = e
    BY <2>1
  <2>3. /\ e.highest_severity = Min({completed[i].severity : i \in naming(path)})
        /\ e.finding_count = Cardinality(naming(path))
        /\ e.best_shortlist_rank = Min(ranks(path))
        /\ \E i \in naming(path) : /\ completed[i].result_key = e.primary
                                  /\ RankOf(path, completed[i]) = Min(ranks(path))
        /\ e.highest_severity \in Nat /\ e.finding_count \in Nat
        /\ e.best_shortlist_rank \in Nat
    <3> HIDE DEF path
    <3> QED BY <2>1, EntryIs DEF path
  <2> HIDE DEF e, naming, ranks
  <2> QED BY <2>2, <2>3
<1>2. /\ order \in [1..n -> Entries]
      /\ \A x \in Entries : \E k \in 1..n : order[k] = x
      /\ \A k, l \in 1..n :
           k < l => /\ order[k] # order[l]
                    /\ \/ order[k].highest_severity < order[l].highest_severity
                       \/ /\ order[k].highest_severity = order[l].highest_severity
                          /\ order[k].finding_count >= order[l].finding_count
  <2>1. \A x, y \in Entries : x.path = y.path => x = y
    <3> SUFFICES ASSUME NEW x \in Entries, NEW y \in Entries, x.path = y.path PROVE x = y
      OBVIOUS
    <3>1. x = Entry(x.path, OfPath(all, x.path)) /\ y = Entry(y.path, OfPath(all, y.path))
      BY EntriesAre
    <3> HIDE DEF all
    <3> QED BY <3>1
  <2>2. \A x \in Entries : /\ x.path \in Nat /\ x.highest_severity \in Nat
                          /\ x.finding_count \in Nat /\ x.best_shortlist_rank \in Nat
    BY <1>1, EntriesAre
  <2>3. IsFiniteSet(Entries)
    BY EntriesAre
  <2> QED BY <2>1, <2>2, <2>3, EntriesInOrder
<1>3. n \in Nat
  BY EntriesAre, FS_CardinalityType
<1> HIDE DEF order, n
<1>4. queue = [k \in 1..n |-> [queue_rank |-> k, entry |-> order[k]]]
  <2>1. queue = Ranked(order)
    BY DEF BuildReviewQueue, Entries, order
  <2>2. DOMAIN order = 1..n
    BY <1>2
  <2> HIDE DEF queue
  <2> QED BY <2>1, <2>2 DEF Ranked
<1> HIDE DEF queue
<1>5. /\ DOMAIN queue = 1..n
      /\ \A k \in 1..n : /\ queue[k].queue_rank = k /\ queue[k].entry = order[k]
                         /\ order[k] \in Entries
  BY <1>2, <1>4
<1>6. queue \in Seq({queue[k] : k \in DOMAIN queue})
  <2> DEFINE T == {queue[k] : k \in DOMAIN queue}
  <2>1. queue = [k \in 1..n |-> queue[k]]
    BY <1>4
  <2>2. \A k \in 1..n : queue[k] \in T
    BY <1>5
  <2> HIDE DEF T
  <2>3. queue \in [1..n -> T]
    BY <2>1, <2>2
  <2>4. queue \in Seq(T)
    BY <1>3, <2>3
  <2> QED BY <2>4 DEF T
<1>7. {queue[k].entry.path : k \in DOMAIN queue}
         = UNION {ToSet(completed[i].candidates) : i \in DOMAIN completed}
  <2>1. {queue[k].entry.path : k \in DOMAIN queue} = {x.path : x \in Entries}
    BY <1>2, <1>5
  <2> QED BY <2>1, EntriesAre
<1>8. ASSUME NEW k \in DOMAIN queue, NEW l \in DOMAIN queue, k # l
      PROVE  queue[k].entry.path # queue[l].entry.path
  <2>1. order[k] # order[l]
    BY <1>2, <1>3, <1>5, <1>8
  <2>2. /\ order[k] = Entry(order[k].path, OfPath(all, order[k].path))
        /\ order[l] = Entry(order[l].path, OfPath(all, order[l].path))
    BY <1>5, EntriesAre
  <2> HIDE DEF all
  <2> QED BY <1>5, <2>1, <2>2
<1>9. ASSUME NEW k \in DOMAIN queue
      PROVE  LET e == queue[k].entry
             IN /\ e.highest_severity = Min({completed[i].severity : i \in naming(e.path)})
                /\ e.finding_count = Cardinality(naming(e.path))
                /\ e.best_shortlist_rank = Min(ranks(e.path))
                /\ \E i \in naming(e.path) : /\ completed[i].result_key = e.primary
                                            /\ RankOf(e.path, completed[i]) = Min(ranks(e.path))
  <2> DEFINE e == queue[k].entry
  <2>1. e \in Entries
    BY <1>5
  <2> HIDE DEF e
  <2> QED BY <1>1, <2>1 DEF e
<1>10. ASSUME NEW k \in DOMAIN queue, NEW l \in DOMAIN queue, k < l
       PROVE  \/ queue[k].entry.highest_severity < queue[l].entry.highest_severity
              \/ /\ queue[k].entry.highest_severity = queue[l].entry.highest_severity
                 /\ queue[k].entry.finding_count >= queue[l].entry.finding_count
  BY <1>2, <1>5, <1>10
<1>11. IsQueueOf(queue, completed)
  BY <1>7, <1>8, <1>9, <1>10 DEF IsQueueOf
<1> QED BY <1>5, <1>6, <1>11 DEF queue

-----------------------------------------------------------------------------
(* The action.                                                             *)

Settled == apc \in {"upload", "policy", "end"}

\* What a decision says that lets the job pass.
Allowed ==
    /\ Published
    /\ package.errors # <<>> => ~asked.fail_on_partial
    /\ ~edited => ~Triggered(package.findings, asked.fail_on_severity)

IsOutput(o) == o = [exit_code |-> o.exit_code, ready |-> o.ready]

\* What is reported is what was decided, and the last word is that of the last handler
\* that could write.
ActionInv ==
    /\ apc \in {"none", "configure", "cli", "load", "summary", "outputs"} \/ Settled
    /\ failed \in BOOLEAN
    /\ result.ready => Published
    /\ fallback => ~result.ready
    /\ result.exit_code = 0 => Allowed
    /\ apc \in {"none", "configure", "cli", "load"} => result.exit_code # 0
    /\ asked.fail_on_severity \in Nat \cup {NoThreshold}
    /\ step_outputs.ready => Published
    /\ uploaded => Published
    /\ Settled /\ ~failed =>
          /\ step_outputs.exit_code = result.exit_code
          /\ step_outputs.ready => result.ready
    /\ apc = "end" /\ ~failed => step_outputs.exit_code = 0
    /\ IsOutput(step_outputs)

Inv == BatchInv /\ ActionInv

LEMMA ActionInitInv == ActionInit => Inv
<1> SUFFICES ASSUME ActionInit PROVE Inv
  OBVIOUS
<1>1. BatchInv
  BY BatchInit DEF ActionInit
<1>2. ActionInv
  <2>1. /\ apc \in {"none", "configure"} /\ failed = FALSE /\ fallback = FALSE
        /\ uploaded = FALSE /\ asked.fail_on_severity = NoThreshold
        /\ step_outputs.ready = FALSE /\ result.ready = FALSE /\ result.exit_code = 2
    BY DEF ActionInit, NoPackageReport, Report, NoOutputs
  <2>2. failed \in BOOLEAN /\ ~Settled
    BY <2>1 DEF Settled
  <2>3. /\ ~result.ready /\ ~fallback /\ ~step_outputs.ready /\ ~uploaded
        /\ result.exit_code # 0
    BY <2>1
  <2>4. IsOutput(step_outputs)
    BY DEF ActionInit, NoOutputs, IsOutput
  <2> QED BY <2>1, <2>2, <2>3, <2>4 DEF ActionInv
<1> QED BY <1>1, <1>2 DEF Inv

\* A published package stays, whatever the batch does next.
LEMMA PublishedStays ==
    ASSUME BatchInv, Published, Batch \/ HostChangesSnapshot
    PROVE  Published' /\ UNCHANGED package
<1>1. pc \in {"published", "read"}
  BY DEF Published
<1>2. \E limit \in 1..Cardinality(Paths) : ReadPage(limit)
  BY <1>1 DEF Batch, HostChangesSnapshot, ImportRefuses, Import, Materialise, MaterialiseFails,
     SkipMalformed, Localize, LocalizeFails, LocalizeRaises, ResultsLeft, Stage, Verify
<1> QED BY <1>2 DEF ReadPage, Published

LEMMA HostStep ==
    ASSUME Inv, BatchStep \/ HostChanges
    PROVE  ActionInv'
<1>1. CASE (Batch \/ HostChangesSnapshot) /\ UNCHANGED actionVars
  <2>1. UNCHANGED <<apc, asked, edited, result, fallback, step_outputs, failed, uploaded>>
    BY <1>1 DEF actionVars
  <2>2. Published => Published' /\ UNCHANGED package
    BY <1>1, PublishedStays DEF Inv
  <2>3. Allowed => Allowed'
    BY <2>1, <2>2 DEF Allowed, Triggered
  <2> QED BY <2>1, <2>2, <2>3 DEF Inv, ActionInv, Settled
<1>2. CASE /\ pc = "published"
           /\ apc \in {"cli", "load"}
           /\ edited' = TRUE
           /\ UNCHANGED <<vars, apc, asked, result, fallback, step_outputs, failed, uploaded>>
  <2>1. result.exit_code # 0
    BY <1>2 DEF Inv, ActionInv
  <2> QED BY <1>2, <2>1 DEF Inv, ActionInv, Settled, Published, vars
<1> QED BY <1>1, <1>2 DEF BatchStep, HostChanges

\* main is left for _finish with something to report.
LEMMA FinishingStep ==
    ASSUME Inv, NEW from, NEW reported, NEW handler, Finishing(from, reported, handler),
           asked'.fail_on_severity \in Nat \cup {NoThreshold},
           reported.ready => Published,
           handler => ~reported.ready,
           reported.exit_code = 0 => Allowed'
    PROVE  ActionInv'
<1>1. /\ apc' = "summary" /\ UNCHANGED <<vars, edited, step_outputs, failed, uploaded>>
      /\ result' = reported /\ fallback' = handler
  BY DEF Finishing, Go
<1>2. Published' <=> Published
  BY <1>1 DEF Published, vars
<1> QED BY <1>1, <1>2 DEF Inv, ActionInv, Settled

LEMMA NothingToReport ==
    ASSUME NEW status
    PROVE  ~NoPackageReport(status).ready /\ NoPackageReport(status).exit_code # 0
BY DEF NoPackageReport, Report

\* The decision lets the job pass only where the policy does.
LEMMA LoadAndDecideStep ==
    ASSUME Inv, LoadAndDecide
    PROVE  ActionInv'
<1>1. PICK triggered \in BOOLEAN :
         /\ ~edited => (triggered <=> Triggered(package.findings, asked'.fail_on_severity))
         /\ Finishing("load",
                      Decision(package.summary.exit_code = 5, asked'.fail_on_partial, triggered),
                      FALSE)
  <2>1. PICK t \in IF edited /\ asked'.fail_on_severity # NoThreshold THEN BOOLEAN
                   ELSE {Triggered(package.findings, asked'.fail_on_severity)} :
           Finishing("load",
                     Decision(package.summary.exit_code = 5, asked'.fail_on_partial, t),
                     FALSE)
    BY DEF LoadAndDecide
  <2>2. Triggered(package.findings, asked'.fail_on_severity) \in BOOLEAN
    BY DEF Triggered
  <2> QED BY <2>1, <2>2
<1>2. pc = "published" /\ asked'.fail_on_severity \in Nat \cup {NoThreshold}
  <2>1. Severities \subseteq Nat
    BY TriageAssumption
  <2> QED BY <2>1 DEF LoadAndDecide
<1> DEFINE partial == package.summary.exit_code = 5
           decided == Decision(partial, asked'.fail_on_partial, triggered)
<1>3. decided.exit_code = 0 => ~(partial /\ asked'.fail_on_partial) /\ ~triggered
  BY DEF Decision, Report
<1>4. package.errors # <<>> => partial
  <2>1. /\ package.errors = errors
        /\ package.summary.exit_code = IF errors = <<>> THEN 0 ELSE 5
    BY <1>2 DEF Inv, BatchInv, PackageInv, Summary
  <2> QED BY <2>1
<1>5. UNCHANGED <<vars, edited>>
  BY <1>1 DEF Finishing, Go
<1>6. decided.exit_code = 0 => Allowed'
  <2> HIDE DEF decided, partial
  <2> SUFFICES ASSUME decided.exit_code = 0 PROVE Allowed'
    OBVIOUS
  <2>1. package.errors # <<>> => ~asked'.fail_on_partial
    BY <1>3, <1>4
  <2>2. ~edited => ~Triggered(package.findings, asked'.fail_on_severity)
    BY <1>1, <1>3
  <2>3. UNCHANGED <<pc, package, edited>>
    BY <1>5 DEF vars
  <2>4. Published'
    BY <1>2, <2>3 DEF Published
  <2> QED BY <2>1, <2>2, <2>3, <2>4 DEF Allowed, Triggered
<1> QED
  <2> HIDE DEF decided
  <2>1. Finishing("load", decided, FALSE)
    BY <1>1 DEF decided
  <2>2. decided.ready => Published
    BY <1>2 DEF Published
  <2> QED BY <1>2, <1>6, <2>1, <2>2, FinishingStep

LEMMA ActionStepInv ==
    ASSUME Inv, Action
    PROVE  BatchInv' /\ ActionInv'
<1>1. UNCHANGED <<vars, edited>>
  BY DEF Action, Configure, ConfigureFails, ConfigureFailsMutely, CliFails, VerifyPackage,
     VerifyOrLoadFails, LoadAndDecide, WriteSummary, WriteOutputs, SummaryFails, OutputsFail,
     Handled, Unhandled, Upload, UploadSkipped, UploadFails, ApplyPolicy, Finishing, Go
<1>2. BatchInv'
  BY <1>1, BatchStepInv DEF Inv
<1>3. /\ Published' <=> Published
      /\ UNCHANGED asked => (Allowed' <=> Allowed)
  BY <1>1 DEF Published, Allowed, Triggered, vars
<1> SUFFICES ActionInv'
  BY <1>2
<1>4. CASE ConfigureFails \/ CliFails \/ VerifyOrLoadFails
  <2>1. \E from, status, handler :
           Finishing(from, NoPackageReport(status), handler) /\ UNCHANGED asked
    BY <1>4 DEF ConfigureFails, CliFails, VerifyOrLoadFails
  <2>2. asked'.fail_on_severity \in Nat \cup {NoThreshold}
    BY <2>1 DEF Inv, ActionInv
  <2> QED BY <2>1, <2>2, NothingToReport, FinishingStep
<1>5. CASE LoadAndDecide
  BY <1>5, LoadAndDecideStep
<1>6. CASE Configure \/ VerifyPackage \/ WriteSummary
  BY <1>3, <1>6 DEF Configure, VerifyPackage, WriteSummary, Go, Inv, ActionInv, Settled
<1>7. CASE ConfigureFailsMutely
  BY <1>3, <1>7 DEF ConfigureFailsMutely, Go, Inv, ActionInv, Settled
<1>8. CASE WriteOutputs
  BY <1>3, <1>8 DEF IsOutput, WriteOutputs, Go, Inv, ActionInv, Settled
<1>9. ASSUME NEW parts,
             \A o \in parts : IsOutput(o) /\ (o.ready => step_outputs.ready \/ result.ready),
             Handled(parts) \/ Unhandled(parts)
      PROVE  ActionInv'
  <2>1. /\ IsOutput(step_outputs')
        /\ step_outputs'.ready => step_outputs.ready \/ result.ready
    BY <1>9 DEF Handled, Unhandled
  <2>2. step_outputs'.ready => Published'
    BY <1>3, <2>1 DEF Inv, ActionInv
  <2>3. CASE Handled(parts)
    <3>1. /\ apc' = "summary" /\ fallback' = TRUE
          /\ result' = NoPackageReport("adapter-error") /\ UNCHANGED <<asked, failed, uploaded>>
      BY <2>3 DEF Handled, Go
    <3>2. ~result'.ready /\ result'.exit_code # 0
      BY <3>1, NothingToReport
    <3>3. IsOutput(step_outputs)'
      BY <2>1 DEF IsOutput
    <3> QED BY <1>3, <2>2, <3>1, <3>2, <3>3 DEF Inv, ActionInv, Settled
  <2>4. CASE Unhandled(parts)
    <3>1. /\ apc' = "upload" /\ failed' = TRUE
          /\ UNCHANGED <<asked, result, fallback, uploaded>>
      BY <2>4 DEF Unhandled, Go
    <3>2. IsOutput(step_outputs)'
      BY <2>1 DEF IsOutput
    <3> QED BY <1>3, <2>2, <3>1, <3>2 DEF Inv, ActionInv, Settled
  <2> QED BY <1>9, <2>3, <2>4
<1>10. CASE SummaryFails \/ OutputsFail
  <2>1. \A o \in {step_outputs} :
           IsOutput(o) /\ (o.ready => step_outputs.ready \/ result.ready)
    BY DEF Inv, ActionInv
  <2>2. \A o \in WrittenInPart :
           IsOutput(o) /\ (o.ready => step_outputs.ready \/ result.ready)
    <3>1. [step_outputs EXCEPT !.exit_code = result.exit_code]
             = [exit_code |-> result.exit_code, ready |-> step_outputs.ready]
      BY DEF Inv, ActionInv, IsOutput
    <3> QED BY <2>1, <3>1 DEF WrittenInPart, IsOutput
  <2> QED BY <1>9, <1>10, <2>1, <2>2 DEF SummaryFails, OutputsFail
<1>11. CASE Upload \/ UploadSkipped \/ UploadFails
  <2>1. /\ apc = "upload" /\ apc' = "policy"
        /\ UNCHANGED <<asked, result, fallback, step_outputs>>
    BY <1>11 DEF Upload, UploadSkipped, UploadFails, Go
  <2>2. /\ failed' \in BOOLEAN /\ (~failed' => ~failed)
        /\ uploaded' => uploaded \/ step_outputs.ready
    <3>1. failed \in BOOLEAN
      BY DEF Inv, ActionInv
    <3>2. CASE Upload
      BY <3>1, <3>2 DEF Upload
    <3>3. CASE UploadSkipped
      BY <3>1, <3>3 DEF UploadSkipped
    <3>4. CASE UploadFails
      <4>1. failed' = TRUE /\ uploaded' = uploaded
        BY <3>4 DEF UploadFails
      <4> QED BY <4>1
    <3> QED BY <1>11, <3>2, <3>3, <3>4
  <2>3. IsOutput(step_outputs)'
    BY <2>1 DEF IsOutput, Inv, ActionInv
  <2> QED BY <1>3, <2>1, <2>2, <2>3 DEF Inv, ActionInv, Settled
<1>12. CASE ApplyPolicy
  BY <1>3, <1>12 DEF ApplyPolicy, PolicyPasses, Go, Inv, ActionInv, Settled
<1> QED
  BY <1>2, <1>4, <1>5, <1>6, <1>7, <1>8, <1>10, <1>11, <1>12 DEF Action

LEMMA ActionNextInv == Inv /\ [ActionNext]_allVars => Inv'
<1> SUFFICES ASSUME Inv, [ActionNext]_allVars PROVE Inv'
  OBVIOUS
<1>1. CASE Action
  BY <1>1, ActionStepInv DEF Inv
<1>2. CASE BatchStep \/ HostChanges
  <2>1. Batch \/ HostChangesSnapshot \/ UNCHANGED vars
    BY <1>2 DEF BatchStep, HostChanges
  <2> QED BY <1>2, <2>1, HostStep, BatchStepInv DEF Inv
<1>3. CASE UNCHANGED allVars
  <2>1. UNCHANGED <<vars, actionVars>>
    BY <1>3 DEF allVars
  <2>2. UNCHANGED <<pc, package, apc, asked, edited, result, fallback, step_outputs, failed,
                    uploaded>>
    BY <2>1 DEF vars, actionVars
  <2>3. ActionInv'
    BY <2>2 DEF Inv, ActionInv, Settled, Published, Allowed, Triggered
  <2> QED BY <2>1, <2>3, BatchStepInv DEF Inv
<1> QED BY <1>1, <1>2, <1>3 DEF ActionNext

-----------------------------------------------------------------------------
\* A batch and the action around it keep what the two parts of the invariant say:
\* triage.py and tools/github_action.py, whatever fails.
THEOREM ActionInvariant == ActionSpec => []Inv
BY ActionInitInv, ActionNextInv, PTL DEF ActionSpec

\* Every result of the report is in a published package, once.
THEOREM BatchAccountsForAll == ActionSpec => []AccountedFor
<1>1. Inv => AccountedFor
  BY PublishedAccounts DEF Inv
<1> QED BY <1>1, ActionInvariant, PTL

\* A batch is lost to a localisation that fails and to nothing else.
THEOREM BatchLostOnlyForLocalization == ActionSpec => []LostOnlyForLocalization
<1>1. Inv => LostOnlyForLocalization
  BY LostOnly DEF Inv
<1> QED BY <1>1, ActionInvariant, PTL

\* A job passes over a verified package that its policy allows.
THEOREM GreenIsVerified == ActionSpec => []GreenMeansVerified
<1>1. Inv => GreenMeansVerified
  <2> SUFFICES ASSUME Inv, Green PROVE GreenMeansVerified
    BY DEF GreenMeansVerified
  <2>1. Allowed
    BY DEF Green, Inv, ActionInv, Settled
  <2>2. Published /\ (package.errors # <<>> => ~asked.fail_on_partial)
    BY <2>1 DEF Allowed
  <2>3. ASSUME ~edited, asked.fail_on_severity # NoThreshold,
               NEW i \in DOMAIN report, HasFinding(i)
        PROVE  report[i].severity > asked.fail_on_severity
    <3>1. position = Len(report) /\ package.findings = completed /\ package.errors = errors
      BY <2>2 DEF Inv, BatchInv, PackageInv, Published
    <3>2. KeysAgree(package)
      BY <2>2 DEF Inv, BatchInv, PackageInv, Published, Verifies
    <3>3. i \notin Sources(errors)
      <4> SUFFICES ASSUME NEW k \in DOMAIN errors, errors[k].source = i PROVE FALSE
        BY DEF Sources
      <4>1. errors[k].result_key = ResultKey(i, FALSE)
        BY <3>1, <3>2 DEF KeysAgree
      <4>2. errors[k] \in FailedResults
        BY DEF Inv, BatchInv, LoopInv
      <4>3. errors[k].result_key = ImportedKey(i)
        BY <4>2 DEF FailedResults, Failed
      <4>4. ResultKey(i, FALSE).finding = ResultKey(i, HasFinding(i)).finding
        BY <4>1, <4>3 DEF ImportedKey
      <4>5. FALSE = HasFinding(i)
        BY <4>4 DEF ResultKey
      <4> QED BY <2>3, <4>5
    <3>4. i \in Sources(completed)
      BY <3>1, <3>3, InOneList DEF Inv
    <3>5. PICK k \in DOMAIN completed : completed[k].source = i
      BY <3>4 DEF Sources
    <3>6. completed[k].severity = report[i].severity
      <4>1. completed[k] \in DoneResults
        BY DEF Inv, BatchInv, LoopInv
      <4>2. PICK j \in Fine : completed[k] = Done(j)
        BY <4>1 DEF DoneResults
      <4>3. completed[k].source = j /\ completed[k].severity = report[j].severity
        BY <4>2 DEF Done
      <4> QED BY <3>5, <4>3
    <3>7. ~Meets(report[i].severity, asked.fail_on_severity)
      BY <2>1, <2>3, <3>1, <3>5, <3>6 DEF Allowed, Triggered
    <3>8. report[i].severity \in Nat /\ asked.fail_on_severity \in Nat
      <4>1. report[i] \in Results
        BY DEF Inv, BatchInv, RequestInv
      <4>2. report[i].severity \in Nat
        BY <4>1 DEF Results
      <4> QED BY <2>3, <4>2 DEF Inv, ActionInv
    <3> QED BY <3>7, <3>8 DEF Meets
  <2> QED BY <2>2, <2>3 DEF GreenMeansVerified
<1> QED BY <1>1, ActionInvariant, PTL

\* What is named and uploaded was verified, and a handler has the last word.
THEOREM ReadyIsVerified == ActionSpec => []ReadyMeansVerified
<1>1. Inv => ReadyMeansVerified
  BY DEF Inv, ActionInv, ReadyMeansVerified, Settled
<1> QED BY <1>1, ActionInvariant, PTL

-----------------------------------------------------------------------------
(* The reader.                                                             *)

\* Up to the cursor, all and nothing else has been read.
ReaderInv ==
    /\ ~Published => rows = <<>> /\ after_rank = 0
    /\ pc = "published" => /\ after_rank \in 0..Len(package.queue)
                           /\ rows = SubSeq(package.queue, 1, after_rank)
    /\ pc = "read" => rows = package.queue

LEMMA PackageQueue ==
    ASSUME Inv, Published
    PROVE  /\ package.queue \in Seq({package.queue[k] : k \in DOMAIN package.queue})
           /\ \A k \in DOMAIN package.queue : package.queue[k].queue_rank = k
           /\ IsQueueOf(package.queue, completed)
<1>1. package.queue = BuildReviewQueue(completed)
  BY DEF Inv, BatchInv, PackageInv, Published
<1>2. RequestInv /\ LoopInv
  BY DEF Inv, BatchInv
<1> QED BY <1>1, <1>2, QueueIs

LEMMA ReadingStep ==
    ASSUME Inv, ReaderInv, NEW limit \in Nat \ {0}, ReadPage(limit)
    PROVE  ReaderInv'
<1> DEFINE queue == package.queue
           T == {queue[k] : k \in DOMAIN queue}
           n == Len(queue)
           a == after_rank
           rest == SubSeq(queue, a + 1, n)
           page == Page(queue, a, limit)
<1>1. pc = "published" /\ UNCHANGED package
  BY DEF ReadPage
<1>2. queue \in Seq(T) /\ \A k \in DOMAIN queue : queue[k].queue_rank = k
  BY <1>1, PackageQueue DEF Published
<1>3. a \in 0..n /\ rows = SubSeq(queue, 1, a)
  BY <1>1 DEF ReaderInv
<1>4. /\ rows' = rows \o page.entries
      /\ after_rank' = IF page.next_after_rank = NoMore THEN a ELSE page.next_after_rank
      /\ pc' = IF page.next_after_rank = NoMore THEN "read" ELSE "published"
  BY DEF ReadPage
<1> HIDE DEF T, queue, a, page
<1>5. n \in Nat /\ DOMAIN queue = 1..n
  BY <1>2
<1>6. Remaining(queue, a) = rest
  <2>1. {k \in DOMAIN queue : queue[k].queue_rank > a} = (a + 1)..n
    BY <1>2, <1>3, <1>5
  <2>2. Pick(queue, (a + 1)..n) = rest
    BY <1>2, <1>3, PickRest
  <2> QED BY <2>1, <2>2 DEF Remaining
<1>7. /\ a \in Nat /\ a <= n
      /\ rest \in Seq(T) /\ Len(rest) = n - a
      /\ \A k \in 1..(n - a) : rest[k] = queue[a + k]
  <2>1. a \in Nat /\ a <= n /\ n <= Len(queue)
    BY <1>3, <1>5
  <2> HIDE DEF n
  <2> QED BY <1>2, <1>5, <2>1, PartIs
<1> HIDE DEF rest, n
<1>8. CASE n - a > limit
  <2> DEFINE selected == SubSeq(rest, 1, limit)
  <2>1. /\ page.entries = selected /\ page.next_after_rank = Last(selected).queue_rank
    <3>1. Len(rest) > limit /\ ~(Len(rest) < limit)
      BY <1>3, <1>5, <1>7, <1>8
    <3> QED BY <1>6, <3>1 DEF Page, page
  <2>2. /\ selected = [k \in 1..limit |-> rest[k]] /\ selected \in Seq(T)
        /\ Len(selected) = limit
    <3>1. limit <= Len(rest)
      BY <1>3, <1>5, <1>7, <1>8
    <3> QED BY <1>7, <3>1
  <2>3. \A k \in 1..limit : rest[k] = queue[a + k]
    BY <1>3, <1>5, <1>7, <1>8
  <2>4. selected = SubSeq(queue, a + 1, a + limit)
    <3>1. a + limit \in Nat /\ a <= a + limit /\ a + limit <= n /\ (a + limit) - a = limit
      BY <1>3, <1>5, <1>8
    <3>2. SubSeq(queue, a + 1, a + limit) = [k \in 1..((a + limit) - a) |-> queue[a + k]]
      BY <1>2, <1>7, <3>1, PartIs DEF n
    <3>3. SubSeq(queue, a + 1, a + limit) = [k \in 1..limit |-> queue[a + k]]
      BY <3>1, <3>2
    <3> HIDE DEF selected
    <3> QED BY <2>2, <2>3, <3>3
  <2>5. Last(selected).queue_rank = a + limit
    <3>1. Last(selected) = queue[a + limit]
      <4> HIDE DEF selected
      <4>1. selected[limit] = queue[a + limit]
        BY <2>2, <2>3
      <4> QED BY <2>2, <4>1 DEF Last
    <3>2. a + limit \in DOMAIN queue
      BY <1>3, <1>5, <1>8
    <3> QED BY <1>2, <3>1, <3>2
  <2> HIDE DEF selected
  <2>6. /\ pc' = "published" /\ after_rank' = a + limit
        /\ rows' = SubSeq(queue, 1, a) \o SubSeq(queue, a + 1, a + limit)
    <3>1. a + limit # NoMore
      BY <1>3, <1>5 DEF NoMore
    <3> QED BY <1>3, <1>4, <2>1, <2>4, <2>5, <3>1
  <2>7. SubSeq(queue, 1, a) \o SubSeq(queue, a + 1, a + limit) = SubSeq(queue, 1, a + limit)
    <3>1. 1 \in 1..(Len(queue) + 1) /\ a \in (1 - 1)..Len(queue) /\ a + limit \in a..Len(queue)
      BY <1>3, <1>5, <1>8 DEF n
    <3> QED BY <1>2, <3>1, ConcatAdjacentSubSeq
  <2>8. a + limit \in 0..n
    BY <1>3, <1>5, <1>8
  <2> QED BY <1>1, <2>6, <2>7, <2>8 DEF ReaderInv, Published, queue, n
<1>9. CASE ~(n - a > limit)
  <2>1. page.entries = rest /\ page.next_after_rank = NoMore
    <3>1. rest \in Seq(T)
      BY <1>7
    <3>2. SubSeq(rest, 1, Len(rest)) = rest
      <4> QED BY <3>1
    <3>3. ~(Len(rest) > limit) /\ Len(rest) \in Nat
      BY <1>3, <1>5, <1>7, <1>9
    <3>4. (IF Len(rest) < limit THEN Len(rest) ELSE limit) = Len(rest)
      BY <3>3
    <3> QED BY <1>6, <3>2, <3>3, <3>4 DEF Page, page
  <2>2. pc' = "read" /\ rows' = SubSeq(queue, 1, a) \o rest
    BY <1>3, <1>4, <2>1
  <2>3. SubSeq(queue, 1, a) \o rest = queue
    <3>1. SubSeq(queue, 1, a) \o rest = SubSeq(queue, 1, n)
      <4>1. 1 \in 1..(Len(queue) + 1) /\ a \in (1 - 1)..Len(queue) /\ n \in a..Len(queue)
        BY <1>5, <1>7 DEF n
      <4> QED BY <1>2, <4>1, ConcatAdjacentSubSeq DEF rest
    <3>2. SubSeq(queue, 1, n) = queue
      BY <1>2 DEF n
    <3> QED BY <3>1, <3>2
  <2> QED BY <1>1, <2>2, <2>3 DEF ReaderInv, Published, queue
<1> QED BY <1>8, <1>9

LEMMA ReaderNext == Inv /\ ReaderInv /\ [ActionNext]_allVars => ReaderInv'
<1> SUFFICES ASSUME Inv, ReaderInv, [ActionNext]_allVars PROVE ReaderInv'
  OBVIOUS
<1>1. CASE UNCHANGED <<pc, package, rows, after_rank>>
  BY <1>1 DEF ReaderInv, Published
<1>2. CASE Action
  <2>1. UNCHANGED vars
    BY <1>2 DEF Action, Configure, ConfigureFails, ConfigureFailsMutely, CliFails, VerifyPackage,
       VerifyOrLoadFails, LoadAndDecide, WriteSummary, WriteOutputs, SummaryFails, OutputsFail,
       Handled, Unhandled, Upload, UploadSkipped, UploadFails, ApplyPolicy, Finishing, Go
  <2> QED BY <1>1, <2>1 DEF vars, reader
<1>3. CASE \E limit \in 1..Cardinality(Paths) : ReadPage(limit)
  <2>1. PICK limit \in 1..Cardinality(Paths) : ReadPage(limit)
    BY <1>3
  <2>2. limit \in Nat \ {0}
    BY <2>1
  <2> QED BY <2>1, <2>2, ReadingStep
<1>4. CASE \/ ImportRefuses \/ Import \/ Materialise \/ MaterialiseFails
           \/ SkipMalformed \/ Localize \/ LocalizeFails \/ LocalizeRaises
           \/ Stage \/ HostChangesSnapshot
  <2>1. /\ pc \notin {"published", "read"} /\ pc' \notin {"published", "read"}
        /\ UNCHANGED <<rows, after_rank>>
    BY <1>4 DEF ImportRefuses, Import, Materialise, MaterialiseFails, SkipMalformed, Localize,
       LocalizeFails, LocalizeRaises, ResultsLeft, Advance, Stage, HostChangesSnapshot, reader
  <2> QED BY <2>1 DEF ReaderInv, Published
<1>5. CASE Verify
  <2>1. /\ pc = "verify" /\ pc' \in {"published", "rejected"} /\ UNCHANGED <<package, rows, after_rank>>
    BY <1>5 DEF Verify, reader
  <2>2. rows = <<>> /\ after_rank = 0
    BY <2>1 DEF ReaderInv, Published
  <2>3. package.queue \in Seq({package.queue[k] : k \in DOMAIN package.queue})
    <3>1. package.queue = BuildReviewQueue(completed) /\ RequestInv /\ LoopInv
      BY <2>1 DEF Inv, BatchInv, PackageInv
    <3> QED BY <3>1, QueueIs
  <2>4. SubSeq(package.queue, 1, 0) = <<>> /\ 0 \in 0..Len(package.queue)
    BY <2>3
  <2> QED BY <2>1, <2>2, <2>4 DEF ReaderInv, Published
<1>6. CASE BatchStep \/ HostChanges
  <2>1. Batch \/ HostChangesSnapshot \/ UNCHANGED vars
    BY <1>6 DEF BatchStep, HostChanges
  <2>2. CASE UNCHANGED vars
    BY <1>1, <2>2 DEF vars, reader
  <2> QED BY <1>3, <1>4, <1>5, <2>1, <2>2 DEF Batch
<1>7. CASE UNCHANGED allVars
  BY <1>1, <1>7 DEF allVars, vars, reader
<1> QED BY <1>2, <1>6, <1>7 DEF ActionNext

\* Whatever limits the pages are read with, they are the queue up to the cursor.
THEOREM ReaderInvariant == ActionSpec => []ReaderInv
<1>1. ActionInit => ReaderInv
  BY DEF ActionInit, Init, ReaderInv, Published
<1> QED BY <1>1, ReaderNext, ActionInvariant, PTL DEF ActionSpec

\* What a reader has put together at the end is the queue, and the queue is what it
\* promises of the completed results: _build_review_queue, review_triage_package.
THEOREM PagesAreTheQueue == ActionSpec => []PagesAddUp
<1>1. Inv /\ ReaderInv => PagesAddUp
  <2> SUFFICES ASSUME Inv, ReaderInv PROVE PagesAddUp
    OBVIOUS
  <2> DEFINE queue == package.queue
             T == {queue[k] : k \in DOMAIN queue}
  <2>1. Published => queue \in Seq(T) /\ IsQueueOf(queue, completed)
    BY PackageQueue
  <2>2. ASSUME pc = "published" PROVE IsPrefix(rows, queue)
    <3>1. queue \in Seq(T) /\ after_rank \in 0..Len(queue) /\ rows = SubSeq(queue, 1, after_rank)
      BY <2>1, <2>2 DEF ReaderInv, Published
    <3> HIDE DEF queue, T
    <3>2. Len(rows) = after_rank /\ after_rank <= Len(queue)
      BY <3>1
    <3>3. SubSeq(rows, 1, Len(rows)) = rows
      <4>1. rows \in Seq(T)
        BY <3>1
      <4> QED BY <4>1
    <3> QED BY <3>1, <3>2, <3>3 DEF IsPrefix
  <2>3. ASSUME pc = "read" PROVE /\ rows = queue /\ IsQueueOf(rows, completed)
                                 /\ IsPrefix(rows, queue)
    <3>1. rows = queue /\ queue \in Seq(T) /\ IsQueueOf(queue, completed)
      BY <2>1, <2>3 DEF ReaderInv, Published
    <3> HIDE DEF queue, T
    <3>2. IsPrefix(queue, queue)
      BY <3>1 DEF IsPrefix
    <3> QED BY <3>1, <3>2
  <2> QED BY <2>2, <2>3 DEF PagesAddUp, Published
<1> QED BY <1>1, ActionInvariant, ReaderInvariant, PTL
=============================================================================
