---------------------------- MODULE JudgeProofs ----------------------------
(***************************************************************************)
(* Theorems about judge() and its callers, for any problems, languages,    *)
(* sources and executions.                                                 *)
(*                                                                         *)
(* The inductive invariant has three parts: the call (CallOK), what the    *)
(* server gave it (Serves) and the check-problem command (Checks).         *)
(***************************************************************************)
EXTENDS DataProofs

(* A JudgeRequest.                                                          *)
IsRequest(r) ==
  /\ r.tests \in Seq(TestCase)
  /\ r.language \in {NULL, "compiled", "interpreted"}
  /\ r.stop \in BOOLEAN /\ r.capture \in BOOLEAN /\ r.show \in BOOLEAN
  /\ r.memory \in Int /\ r.comparer.kind \in {"lines", "tokens", "float"}

(* What is known at each point of judge().                                  *)
Fresh == ran = <<>> /\ results = <<>> /\ failed_test = NULL /\ sent = Nothing

Phases ==
  /\ pc \in {"idle", "called", "compile", "tests", "stopped", "returned"}
  /\ pc # "idle" => IsRequest(req)
  /\ pc \in {"idle", "called"} => Fresh
  /\ pc \in {"compile", "tests", "stopped"} => req.language # NULL
  /\ pc = "compile" =>
       /\ req.language = "compiled" /\ sent = Compiling
       /\ ran = <<>> /\ results = <<>> /\ failed_test = NULL
  /\ pc \in {"tests", "stopped"} => sent = Len(results)
  /\ sent \in {Nothing, Compiling, Len(results)}
  /\ reply \in Verdicts \cup {"CE", NULL} \cup Errors

(* Test i is the first that failed.                                         *)
FailsFirst(i) ==
  /\ results[i].verdict # "AC"
  /\ failed_test = req.tests[i].name
  /\ \A j \in 1 .. i - 1 : results[j].verdict = "AC"

Accepts == failed_test = NULL /\ \A i \in 1 .. Len(results) : results[i].verdict = "AC"

(* The results so far, and what failed_test says of them.                   *)
TestResults ==
  [name : Text, verdict : Verdicts, shown : BOOLEAN, stderr : StderrTexts]

Results ==
  /\ results \in Seq(TestResults)
  /\ pc # "idle" => Len(results) <= Len(req.tests)
  /\ Accepts \/ \E i \in DOMAIN results : FailsFirst(i) /\ (req.stop => i = Len(results))
  /\ pc = "tests" /\ req.stop => Accepts
  /\ pc = "stopped" => req.stop /\ ~Accepts

(* What a result shows.                                                     *)
Wanted(i) == req.capture \/ (req.show /\ req.tests[i].name = failed_test)

Shows ==
  \A i \in 1 .. Len(results) :
     /\ results[i].shown => Wanted(i)
     /\ results[i].stderr # NULL => Wanted(i) \/ results[i].verdict = "RE"

CallOK == Phases /\ Results /\ Shows /\ VerdictIsFirstFailure

(* A call of the server is a submission to a problem it has, or a run, whose *)
(* tests are samples or the client's own input.                              *)
Serves ==
  loaded # NULL =>
    /\ \A slug \in DOMAIN loaded.problems :
          /\ loaded.problems[slug].tests \in Seq(TestCase)
          /\ loaded.problems[slug].show_failed_input \in BOOLEAN
          /\ loaded.problems[slug].limits.memory \in Int
          /\ loaded.problems[slug].comparer.kind \in {"lines", "tokens", "float"}
    /\ pc # "idle" =>
         \/ /\ req.caller = "submission" /\ req.slug \in DOMAIN loaded.problems
            /\ ~req.capture /\ req.show = loaded.problems[req.slug].show_failed_input
            /\ req.stop
         \/ /\ req.caller = "run"
            /\ \A i \in DOMAIN req.tests :
                  \/ req.tests[i].expected = NULL
                  \/ req.tests[i].name \in loaded.problems[req.slug].samples

(* What the command has found out so far: every problem behind the current  *)
(* one is fine, and every file of it behind the current one, or failures    *)
(* counts what is not; accepted stands for an accepted file of this problem. *)
Fine(i, f) ==
  LET file == check.command.problems[i].files[f]
  IN  file.label # NULL => <<i, f, file.label>> \in check.log

Passed(i) ==
  LET p == check.command.problems[i]
  IN  /\ Load(p.dir) # NULL
      /\ \A f \in DOMAIN p.files : Fine(i, f)
      /\ \E f \in DOMAIN p.files : <<i, f, "AC">> \in check.log

Replies == Verdicts \cup {"CE", NULL} \cup Errors

IsCheck ==
  check \in [command : Commands, problem : Nat, file : Nat, failures : Nat, accepted : Nat,
             log : SUBSET (Nat \X Nat \X Replies), exit : {NULL, "ok", "failed"}]

CheckPlace ==
  /\ check.problem \in 1 .. Len(check.command.problems) + 1
  /\ check.file > 0 => check.problem <= Len(check.command.problems) /\ Load(Current.dir) # NULL
  /\ pc # "idle" => check.exit = NULL /\ check.file \in 1 .. Len(Current.files)

CheckFacts ==
  /\ check.exit = "ok" => check.problem > Len(check.command.problems) /\ check.failures = 0
  /\ check.failures = 0 => /\ \A i \in 1 .. check.problem - 1 : Passed(i)
                           /\ \A f \in 1 .. check.file - 1 : Fine(check.problem, f)
  /\ check.file > 0 /\ check.accepted > 0 =>
       \E f \in DOMAIN Current.files : <<check.problem, f, "AC">> \in check.log

Checks == check # NULL => loaded = NULL /\ IsCheck /\ CheckPlace /\ CheckFacts

-----------------------------------------------------------------------------
(* The status of an execution is one that classify() has a verdict for.     *)
Statuses == {"Ok", "NonZeroExit", "Signaled", "TimeLimit", "WallTimeLimit", "MemoryLimit",
             "OutputLimit", "Err"}

LEMMA ExecStatus ==
  ASSUME NEW x, NEW limits
  PROVE  Exec(x, limits, UseCgroups).status \in Statuses
<1>1. \A t : Interpret(x, limits.memory, UseCgroups, t) \in Statuses
  BY DEF Interpret, Statuses
<1> QED
  BY <1>1 DEF Exec

LEMMA ClassifyIsVerdict ==
  ASSUME NEW out, NEW test, NEW comparer, out.status \in Statuses \ {"Err"}
  PROVE  Classify(out, test, comparer) \in Verdicts
<1>1. out.status = "Ok" => Classify(out, test, comparer) \in {"AC", "WA"}
  BY DEF Classify
<1>2. out.status \in {"NonZeroExit", "Signaled"} => Classify(out, test, comparer) = "RE"
  BY DEF Classify
<1>3. out.status \in {"TimeLimit", "WallTimeLimit"} => Classify(out, test, comparer) = "TLE"
  BY DEF Classify
<1>4. out.status = "MemoryLimit" => Classify(out, test, comparer) = "MLE"
  BY DEF Classify
<1>5. out.status = "OutputLimit" => Classify(out, test, comparer) = "OLE"
  BY DEF Classify
<1> QED
  BY <1>1, <1>2, <1>3, <1>4, <1>5 DEF Statuses, Verdicts

(* results.iter().find(): the first that failed, or none did.               *)
LEMMA FirstFailureIs ==
  ASSUME NEW T, NEW rs \in Seq(T)
  PROVE  \/ FirstFailure(rs) = "AC" /\ \A i \in 1 .. Len(rs) : rs[i].verdict = "AC"
         \/ \E i \in 1 .. Len(rs) :
               /\ FirstFailure(rs) = rs[i].verdict /\ rs[i].verdict # "AC"
               /\ \A j \in 1 .. i - 1 : rs[j].verdict = "AC"
<1> DEFINE I == {i \in 1 .. Len(rs) : rs[i].verdict # "AC"}
<1>1. FirstFailure(rs) = LET k == IF I # {} THEN Min(I) ELSE 0
                         IN  IF k = 0 THEN "AC" ELSE rs[k].verdict
  BY DEF FirstFailure, SelectInSeq
<1>2. CASE I = {}
  BY <1>1, <1>2
<1>3. CASE I # {}
  <2>0. Len(rs) \in Nat
    BY LenProperties
  <2>1. I \in SUBSET Nat
    BY <2>0
  <2>2. Min(I) \in I /\ \A k \in I : Min(I) <= k
    BY <1>3, <2>1, MinIsLeast
  <2>3. PICK m : m = Min(I)
    OBVIOUS
  <2>4. m \in 1 .. Len(rs) /\ rs[m].verdict # "AC" /\ m # 0
    BY <2>2, <2>3, <2>0
  <2>5. \A j \in 1 .. m - 1 : rs[j].verdict = "AC"
    <3> SUFFICES ASSUME NEW j \in 1 .. m - 1, rs[j].verdict # "AC" PROVE FALSE
      OBVIOUS
    <3>1. j \in 1 .. Len(rs) /\ ~(m <= j)
      BY <2>0, <2>4
    <3> QED
      BY <3>1, <2>2, <2>3
  <2>6. FirstFailure(rs) = rs[m].verdict
    BY <1>1, <1>3, <2>3, <2>4
  <2> QED
    BY <2>4, <2>5, <2>6
<1> QED
  BY <1>2, <1>3
-----------------------------------------------------------------------------
(* A call that begins, a caller that goes on, and a call that rests.        *)
LEMMA BeginKeepsCall ==
  ASSUME CallOK, NEW r, IsRequest(r), Begin(r)
  PROVE  CallOK'
<1>0. Fresh /\ pc = "idle" /\ UNCHANGED <<ran, results, failed_test, sent, reply>> /\ req' = r
      /\ pc' = "called"
  BY DEF CallOK, Phases, Begin
<1>1. Phases'
  BY <1>0 DEF CallOK, Phases, Fresh, IsRequest
<1>2. Results'
  <2>1. results = <<>> /\ results' = <<>> /\ Len(results) = 0 /\ failed_test = NULL
    BY <1>0, EmptySeq DEF Fresh
  <2>2. Len(r.tests) \in Nat
    BY LenProperties DEF IsRequest
  <2>3. Accepts'
    BY <1>0, <2>1 DEF Accepts
  <2> QED
    BY <1>0, <2>1, <2>2, <2>3 DEF CallOK, Results
<1>3. Shows'
  BY <1>0, EmptySeq DEF Fresh, Shows
<1>4. VerdictIsFirstFailure'
  BY <1>0 DEF VerdictIsFirstFailure
<1> QED
  BY <1>1, <1>2, <1>3, <1>4 DEF CallOK

LEMMA DoneKeepsCall ==
  ASSUME CallOK, Done
  PROVE  CallOK'
<1>0. /\ pc' = "idle" /\ reply' = NULL /\ ran' = <<>> /\ results' = <<>>
      /\ failed_test' = NULL /\ sent' = Nothing
  BY DEF Done
<1>e. Len(results') = 0
  BY <1>0, EmptySeq
<1>1. Phases'
  BY <1>0 DEF Phases, Fresh, Nothing
<1>2. Results'
  <2>1. results' \in Seq(TestResults)
    BY <1>0, EmptySeq
  <2>2. Accepts'
    BY <1>0, <1>e DEF Accepts
  <2> QED
    BY <1>0, <2>1, <2>2 DEF Results
<1>3. Shows'
  BY <1>0, <1>e DEF Shows
<1>4. VerdictIsFirstFailure'
  BY <1>0 DEF VerdictIsFirstFailure
<1> QED
  BY <1>1, <1>2, <1>3, <1>4 DEF CallOK

LEMMA RestKeepsCall ==
  ASSUME CallOK, UNCHANGED call
  PROVE  CallOK'
<1> QED
  BY DEF call, CallOK, Phases, Results, Shows, Wanted, VerdictIsFirstFailure, IsRequest, Fresh,
         Accepts, FailsFirst

(* Steps of judge() that leave the results alone.                           *)
LEMMA RefuseKeepsCall ==
  ASSUME CallOK, Refuse
  PROVE  CallOK'
<1>0. /\ pc = "called" /\ pc' = "returned" /\ reply' \in Errors
      /\ UNCHANGED <<req, ran, results, failed_test, sent>>
  BY DEF Refuse, Return, Locals, Errors
<1>1. Phases'
  BY <1>0 DEF CallOK, Phases, IsRequest
<1>2. Results'
  BY <1>0 DEF CallOK, Results, Accepts, FailsFirst
<1>3. Shows'
  BY <1>0 DEF CallOK, Shows, Wanted
<1>4. VerdictIsFirstFailure'
  BY <1>0 DEF VerdictIsFirstFailure
<1> QED
  BY <1>1, <1>2, <1>3, <1>4 DEF CallOK

LEMMA EnterKeepsCall ==
  ASSUME CallOK, Enter
  PROVE  CallOK'
<1>0. /\ pc = "called" /\ pc' \in {"compile", "tests"} /\ req.language # NULL
      /\ pc' = "compile" => req.language = "compiled" /\ sent' = Compiling
      /\ pc' = "tests" => sent' = 0
      /\ UNCHANGED <<req, ran, results, failed_test, reply>> /\ Fresh
  BY DEF CallOK, Phases, Enter, Locals, FirstProgress
<1>e. Len(results) = 0 /\ Len(results') = 0
  BY <1>0, EmptySeq DEF Fresh
<1>1. Phases'
  BY <1>0, <1>e DEF CallOK, Phases, IsRequest, Fresh
<1>2. Results'
  <2>1. Accepts'
    BY <1>0, <1>e DEF Accepts, Fresh
  <2> QED
    BY <1>0, <2>1 DEF CallOK, Results
<1>3. Shows'
  BY <1>0 DEF CallOK, Shows, Wanted
<1>4. VerdictIsFirstFailure'
  BY <1>0 DEF VerdictIsFirstFailure
<1> QED
  BY <1>1, <1>2, <1>3, <1>4 DEF CallOK

(* A compiler that fails is the only execution.                             *)
LEMMA CompileKeepsCall ==
  ASSUME CallOK, NEW x, Compile(x)
  PROVE  CallOK'
<1>0. /\ pc = "compile" /\ ran' = Append(ran, x) /\ UNCHANGED <<req, results, failed_test>>
      /\ \/ pc' = "tests" /\ sent' = 0 /\ reply' = reply
         \/ pc' = "returned" /\ sent' = sent /\ reply' \in {"CE", "sandbox"}
  BY DEF Compile, Return
<1>p. /\ IsRequest(req) /\ req.language # NULL /\ ran = <<>> /\ results = <<>> /\ failed_test = NULL
  BY <1>0 DEF CallOK, Phases
<1>e. Len(results) = 0 /\ Len(results') = 0 /\ Len(ran') = 1
  <2>1. <<>> \in Seq({x}) /\ Len(<<>>) = 0
    BY EmptySeq
  <2>2. Len(Append(<<>>, x)) = Len(<<>>) + 1
    BY <2>1, AppendProperties
  <2> QED
    BY <1>0, <1>p, <2>1, <2>2
<1>1. Phases'
  BY <1>0, <1>p, <1>e DEF CallOK, Phases, IsRequest, Errors
<1>2. Results'
  <2>1. Accepts'
    BY <1>0, <1>p, <1>e DEF Accepts
  <2> QED
    BY <1>0, <2>1 DEF CallOK, Results
<1>3. Shows'
  BY <1>0 DEF CallOK, Shows, Wanted
<1>4. VerdictIsFirstFailure'
  BY <1>0, <1>p, <1>e DEF VerdictIsFirstFailure, Errors
<1> QED
  BY <1>1, <1>2, <1>3, <1>4 DEF CallOK

(* find() finds the test that failed_test names.                            *)
LEMMA ConcludeKeepsCall ==
  ASSUME CallOK, Conclude
  PROVE  CallOK'
<1>0. /\ pc \in {"stopped", "tests"} /\ pc' = "returned" /\ reply' = FirstFailure(results)
      /\ pc = "tests" => Len(results) = Len(req.tests)
      /\ UNCHANGED <<req, ran, results, failed_test, sent>>
  BY DEF Conclude, Return, Locals
<1>r. results \in Seq(TestResults)
  BY DEF CallOK, Results
<1>t. /\ Len(results) \in Nat /\ DOMAIN results = 1 .. Len(results)
      /\ \A i \in 1 .. Len(results) : results[i].verdict \in Verdicts
  <2>1. Len(results) \in Nat /\ DOMAIN results = 1 .. Len(results)
    BY <1>r, LenProperties
  <2>2. \A i \in 1 .. Len(results) : results[i] \in TestResults
    BY <1>r, ElementOfSeq
  <2> QED
    BY <2>1, <2>2 DEF TestResults
<1>f. \/ reply' = "AC" /\ \A i \in 1 .. Len(results) : results[i].verdict = "AC"
      \/ \E i \in 1 .. Len(results) :
            /\ reply' = results[i].verdict /\ results[i].verdict # "AC"
            /\ \A j \in 1 .. i - 1 : results[j].verdict = "AC"
  BY <1>0, <1>r, FirstFailureIs
<1>v. reply' \in Verdicts
  BY <1>t, <1>f DEF Verdicts
<1>1. Phases'
  BY <1>0, <1>v DEF CallOK, Phases, IsRequest
<1>2. Results'
  BY <1>0 DEF CallOK, Results, Accepts, FailsFirst
<1>3. Shows'
  BY <1>0 DEF CallOK, Shows, Wanted
<1>4. VerdictIsFirstFailure'
  <2>1. CASE Accepts
    <3>1. reply' = "AC"
      BY <2>1, <1>f DEF Accepts
    <3>2. pc = "tests"
      BY <1>0, <2>1 DEF CallOK, Results
    <3> QED
      BY <1>0, <1>t, <2>1, <3>1, <3>2 DEF VerdictIsFirstFailure, Accepts
  <2>2. ASSUME NEW i \in DOMAIN results, FailsFirst(i), req.stop => i = Len(results)
        PROVE  VerdictIsFirstFailure'
    <3>1. reply' = results[i].verdict /\ reply' # "AC"
      <4>1. PICK k \in 1 .. Len(results) :
               /\ reply' = results[k].verdict /\ results[k].verdict # "AC"
               /\ \A j \in 1 .. k - 1 : results[j].verdict = "AC"
        BY <1>f, <2>2, <1>t DEF FailsFirst
      <4>2. ~(k < i) /\ ~(i < k)
        BY <1>t, <2>2, <4>1 DEF FailsFirst
      <4>3. k = i
        BY <1>t, <4>2
      <4> QED
        BY <4>1, <4>3
    <3>2. req.stop \in BOOLEAN
      BY <1>0 DEF CallOK, Phases, IsRequest
    <3>3. ~req.stop => Len(results) = Len(req.tests)
      BY <1>0 DEF CallOK, Results
    <3>4. \A j \in 1 .. i - 1 : results[j].verdict = "AC"
      BY <2>2 DEF FailsFirst
    <3>5. failed_test = req.tests[i].name
      BY <2>2 DEF FailsFirst
    <3>6. Len(results) = IF req.stop THEN i ELSE Len(req.tests)
      BY <2>2, <3>2, <3>3
    <3> QED
      BY <1>0, <3>1, <3>4, <3>5, <3>6 DEF VerdictIsFirstFailure
  <2> QED
    BY <2>1, <2>2 DEF CallOK, Results
<1> QED
  BY <1>1, <1>2, <1>3, <1>4 DEF CallOK
(* The loop over the tests: the new result is the first failure, a later    *)
(* one or none.                                                             *)
LEMMA RunTestKeepsCall ==
  ASSUME CallOK, NEW x \in Executions, RunTest(x)
  PROVE  CallOK'
<1> DEFINE R       == TestResults
           n       == Len(results)
           test    == req.tests[n + 1]
           out     == Exec(x, RunLimits, UseCgroups)
           verdict == Classify(out, test, req.comparer)
           first   == verdict # "AC" /\ failed_test = NULL
           result  == TestResult(test, verdict, first, out.stderr)
<1>0. pc = "tests" /\ n < Len(req.tests) /\ req' = req
  BY DEF RunTest, Return
<1>t. /\ results \in Seq(R) /\ n \in Nat /\ DOMAIN results = 1 .. n
      /\ \A i \in 1 .. n : results[i] \in R
  BY LenProperties, ElementOfSeq DEF CallOK, Results
<1>q. IsRequest(req) /\ req.language # NULL
  BY <1>0 DEF CallOK, Phases
<1>n. Len(req.tests) \in Nat /\ n + 1 \in 1 .. Len(req.tests) /\ test \in TestCase
  <2>1. Len(req.tests) \in Nat
    BY <1>q, LenProperties DEF IsRequest
  <2>2. n + 1 \in 1 .. Len(req.tests)
    BY <2>1, <1>t, <1>0
  <2>3. \A i \in 1 .. Len(req.tests) : req.tests[i] \in TestCase
    BY <1>q, ElementOfSeq DEF IsRequest
  <2> QED
    BY <2>1, <2>2, <2>3
<1>N. test.name \in Text /\ test.name # NULL
  BY <1>n, NullIsNoText DEF TestCase
<1>x. out.stderr \in StderrTexts
  BY LimitsAssumption DEF Exec
<1>1. CASE out.status = "Err" /\ Return("sandbox") /\ UNCHANGED <<results, failed_test, sent>>
  <2>0. pc' = "returned" /\ reply' = "sandbox" /\ UNCHANGED <<results, failed_test, sent, req>>
    BY <1>1 DEF Return
  <2>1. Phases'
    BY <2>0, <1>0, <1>q DEF CallOK, Phases, IsRequest, Errors
  <2>2. Results'
    BY <2>0, <1>0 DEF CallOK, Results, Accepts, FailsFirst
  <2>3. Shows'
    BY <2>0 DEF CallOK, Shows, Wanted
  <2>4. VerdictIsFirstFailure'
    BY <2>0 DEF VerdictIsFirstFailure, Errors
  <2> QED
    BY <2>1, <2>2, <2>3, <2>4 DEF CallOK
<1>2. CASE /\ out.status # "Err"
           /\ results' = Append(results, result)
           /\ failed_test' = IF first THEN test.name ELSE failed_test
           /\ sent' = Len(results')
           /\ pc' = IF Stops(first) THEN "stopped" ELSE "tests"
           /\ UNCHANGED <<loaded, stored, check, req, reply>>
  <2>v. verdict \in Verdicts
    <3>1. out.status \in Statuses
      BY ExecStatus
    <3> HIDE DEF out, test
    <3> QED
      BY <3>1, <1>2, ClassifyIsVerdict
  <2> HIDE DEF verdict, test, out
  <2>e. out.stderr \in StderrTexts
    BY <1>x DEF out
  <2>r. /\ result \in R /\ result.verdict = verdict /\ result.shown = ShowsIO(first)
        /\ result.stderr # NULL => ShowsIO(first) \/ verdict = "RE"
    <3>1. ShowsIO(first) \in BOOLEAN
      BY <1>q DEF ShowsIO, IsRequest
    <3>2. NULL \in StderrTexts
      BY DEF StderrTexts
    <3> QED
      BY <1>N, <2>v, <2>e, <3>1, <3>2 DEF TestResult, TestResults, ShowsStderr
  <2> HIDE DEF result
  <2>s. /\ results' \in Seq(R) /\ Len(results') = n + 1
        /\ \A i \in 1 .. n : results'[i] = results[i]
        /\ results'[n + 1] = result
        /\ DOMAIN results' = 1 .. n + 1
    <3>1. results' = Append(results, result)
      BY <1>2
    <3>2. /\ Append(results, result) \in Seq(R)
          /\ Len(Append(results, result)) = Len(results) + 1
          /\ \A i \in 1 .. Len(results) : Append(results, result)[i] = results[i]
          /\ Append(results, result)[Len(results) + 1] = result
      BY <1>t, <2>r, AppendProperties
    <3>3. DOMAIN Append(results, result) = 1 .. Len(Append(results, result))
      BY <3>2, LenProperties
    <3> QED
      BY <3>1, <3>2, <3>3
  <2>i. \A i \in 1 .. n + 1 : i \in 1 .. n \/ i = n + 1
    BY <1>t
  <2> HIDE DEF R
  <2>1. Phases'
    <3>1. pc' \in {"tests", "stopped"} /\ sent' = Len(results')
      BY <1>2
    <3> QED
      BY <3>1, <1>2, <1>0, <1>q DEF CallOK, Phases, IsRequest
  <2>2. Results'
    <3>1. CASE verdict = "AC"
      <4>1. failed_test' = failed_test /\ pc' = "tests"
        BY <3>1, <1>2 DEF Stops
      <4>2. Accepts => Accepts'
        BY <3>1, <4>1, <2>r, <2>s, <2>i DEF Accepts
      <4>3. \A i \in 1 .. n : FailsFirst(i) => FailsFirst(i)'
        <5> SUFFICES ASSUME NEW i \in 1 .. n, FailsFirst(i) PROVE FailsFirst(i)'
          OBVIOUS
        <5>1. \A j \in 1 .. i - 1 : j \in 1 .. n
          BY <1>t
        <5> QED
          BY <5>1, <4>1, <2>s, <1>2 DEF FailsFirst
      <4>4. req.stop => Accepts
        BY <1>0 DEF CallOK, Results
      <4>5. Accepts' \/ \E i \in 1 .. n + 1 : FailsFirst(i)' /\ ~req.stop
        <5>1. Accepts \/ \E i \in 1 .. n : FailsFirst(i)
          BY <1>t DEF CallOK, Results
        <5>2. req.stop \in BOOLEAN /\ \A i \in 1 .. n : i \in 1 .. n + 1
          BY <1>t, <1>q DEF IsRequest
        <5> QED
          BY <4>2, <4>3, <4>4, <5>1, <5>2
      <4>6. n + 1 <= Len(req.tests)
        BY <1>n
      <4> QED
        BY <4>1, <4>2, <4>4, <4>5, <4>6, <2>s, <1>2 DEF Results, R
    <3>2. CASE verdict # "AC" /\ failed_test = NULL
      <4>1. /\ failed_test' = test.name
            /\ req.stop => pc' = "stopped"
            /\ ~req.stop => pc' = "tests"
        BY <3>2, <1>2, <1>q DEF Stops, IsRequest
      <4>2. Accepts
        <5>1. ~\E i \in DOMAIN results : FailsFirst(i)
          <6>1. \A i \in 1 .. n : req.tests[i].name # NULL
            <7>1. \A i \in 1 .. Len(req.tests) : req.tests[i] \in TestCase
              BY <1>q, ElementOfSeq DEF IsRequest
            <7>2. \A i \in 1 .. n : i \in 1 .. Len(req.tests)
              BY <1>0, <1>n, <1>t
            <7> QED
              BY <7>1, <7>2, NullIsNoText DEF TestCase
          <6> QED
            BY <6>1, <3>2, <1>t DEF FailsFirst
        <5> QED
          BY <5>1 DEF CallOK, Results
      <4>k. PICK k \in Nat : k = n + 1
        BY <1>t
      <4>3. FailsFirst(k)'
        <5>1. \A j \in 1 .. k - 1 : results'[j].verdict = "AC"
          BY <4>k, <4>2, <2>s, <1>t DEF Accepts
        <5> QED
          BY <5>1, <4>k, <4>1, <3>2, <2>r, <2>s, <1>2 DEF FailsFirst, test
      <4>4. ~Accepts'
        BY <4>1, <1>N DEF Accepts
      <4>5. n + 1 <= Len(req.tests) /\ n + 1 \in 1 .. n + 1
        BY <1>n, <1>t
      <4>6. \E i \in DOMAIN results' : FailsFirst(i)' /\ i = Len(results')
        BY <4>k, <4>3, <4>5, <2>s
      <4> QED
        BY <4>1, <4>4, <4>5, <4>6, <2>s, <1>2, <1>q DEF Results, R, IsRequest
    <3>3. CASE verdict # "AC" /\ failed_test # NULL
      <4>1. failed_test' = failed_test /\ pc' = "tests" /\ ~Accepts
        BY <3>3, <1>2 DEF Stops, Accepts
      <4>2. PICK i \in 1 .. n : FailsFirst(i)
        BY <4>1, <1>t DEF CallOK, Results
      <4>3. ~req.stop
        BY <4>1, <1>0 DEF CallOK, Results
      <4>4. FailsFirst(i)'
        <5>1. \A j \in 1 .. i - 1 : j \in 1 .. n
          BY <1>t
        <5> QED
          BY <5>1, <4>1, <4>2, <2>s, <1>2 DEF FailsFirst
      <4>5. n + 1 <= Len(req.tests) /\ i \in 1 .. n + 1
        BY <1>n, <1>t
      <4> QED
        BY <4>1, <4>3, <4>4, <4>5, <2>s, <1>2 DEF Results, R
    <3> QED
      BY <3>1, <3>2, <3>3
  <2>3. Shows'
    <3> SUFFICES ASSUME NEW i \in 1 .. n + 1
                 PROVE  /\ results'[i].shown => Wanted(i)'
                        /\ results'[i].stderr # NULL => Wanted(i)' \/ results'[i].verdict = "RE"
      BY <2>s DEF Shows
    <3>1. CASE i \in 1 .. n
      <4>1. /\ results[i].shown => Wanted(i)
            /\ results[i].stderr # NULL => Wanted(i) \/ results[i].verdict = "RE"
        BY <3>1 DEF CallOK, Shows
      <4>2. req.tests[i].name # NULL
        <5>1. i \in 1 .. Len(req.tests)
          BY <3>1, <1>0, <1>n, <1>t
        <5>2. req.tests[i] \in TestCase
          BY <5>1, <1>q, ElementOfSeq DEF IsRequest
        <5> QED
          BY <5>2, NullIsNoText DEF TestCase
      <4>3. failed_test # NULL => failed_test' = failed_test
        BY <1>2
      <4>4. Wanted(i) => Wanted(i)'
        BY <4>2, <4>3, <1>2 DEF Wanted
      <4>5. results'[i] = results[i]
        BY <3>1, <2>s
      <4> QED
        BY <4>1, <4>4, <4>5
    <3>2. CASE i = n + 1
      <4>1. first => failed_test' = test.name
        BY <1>2
      <4>2. ShowsIO(first) => Wanted(i)'
        BY <3>2, <4>1, <1>2 DEF ShowsIO, Wanted, test
      <4> QED
        BY <3>2, <4>2, <2>r, <2>s
    <3> QED
      BY <3>1, <3>2, <2>i
  <2>4. VerdictIsFirstFailure'
    <3>1. pc' # "returned"
      BY <1>2
    <3> QED
      BY <3>1 DEF VerdictIsFirstFailure
  <2> QED
    BY <2>1, <2>2, <2>3, <2>4 DEF CallOK
<1> QED
  BY <1>1, <1>2 DEF RunTest
-----------------------------------------------------------------------------
(* What the callers ask for is a request.                                   *)
LEMMA ProblemHasTests ==
  ASSUME NEW dir, IsDirectory(dir), Load(dir) # NULL
  PROVE  /\ Load(dir).tests \in Seq(TestCase)
         /\ Load(dir).show_failed_input \in BOOLEAN
         /\ Load(dir).limits.memory \in Int
         /\ Load(dir).comparer.kind \in {"lines", "tokens", "float"}
<1>1. [name : DOMAIN dir.tests, input : Text, expected : Text] \subseteq TestCase
  BY DEF IsDirectory, TestCase
<1>2. /\ Load(dir).tests \in Seq([name : DOMAIN dir.tests, input : Text, expected : Text])
      /\ Load(dir).show_failed_input = dir.show_failed_input
      /\ Load(dir).limits = dir.limits /\ Load(dir).comparer = dir.comparer
  BY LoadedProblem
<1>3. Load(dir).tests \in Seq(TestCase)
  BY <1>1, <1>2, SeqMonotonic
<1> QED
  BY <1>2, <1>3 DEF IsDirectory

LEMMA CustomTests ==
  ASSUME NEW stdin \in Text
  PROVE  /\ Custom(stdin) \in Seq(TestCase)
         /\ \A i \in DOMAIN Custom(stdin) : Custom(stdin)[i].expected = NULL
<1>1. <<>> \in Text
  BY EmptySeq DEF Text
<1>2. [name |-> <<>>, input |-> stdin, expected |-> NULL] \in TestCase
  BY <1>1 DEF TestCase
<1> QED
  BY <1>2 DEF Custom

(* The tests of a run are the client's own, or samples.                     *)
LEMMA RunTests ==
  ASSUME NEW stdin \in Stdins \cup {NULL}, NEW p, p # NULL => p.tests \in Seq(TestCase)
  PROVE  /\ TestsOfRun(stdin, p) \in Seq(TestCase)
         /\ \A i \in DOMAIN TestsOfRun(stdin, p) :
               \/ TestsOfRun(stdin, p)[i].expected = NULL
               \/ p # NULL /\ TestsOfRun(stdin, p)[i].name \in p.samples
<1>1. CASE stdin # NULL
  <2>1. stdin \in Text
    BY <1>1, InputsAssumption
  <2> QED
    BY <1>1, <2>1, CustomTests DEF TestsOfRun
<1>2. CASE stdin = NULL /\ p # NULL /\ p.samples # {}
  <2>1. TestsOfRun(stdin, p) = Samples(p)
    BY <1>2 DEF TestsOfRun
  <2> DEFINE G == {t \in TestCase : t.name \in p.samples}
  <2>2. Samples(p) \in Seq(G)
    BY <1>2, SamplesAreSamples
  <2>3. G \subseteq TestCase
    OBVIOUS
  <2> HIDE DEF G
  <2>4. Samples(p) \in Seq(TestCase)
    BY <2>2, <2>3, SeqMonotonic
  <2>5. \A i \in DOMAIN Samples(p) : Samples(p)[i] \in G
    BY <2>2, LenProperties, ElementOfSeq
  <2> QED
    BY <1>2, <2>1, <2>4, <2>5 DEF G
<1>3. CASE stdin = NULL /\ ~(p # NULL /\ p.samples # {})
  <2>1. TestsOfRun(stdin, p) = Custom(<<>>) /\ <<>> \in Text
    BY <1>3, EmptySeq DEF TestsOfRun, Text
  <2> QED
    BY <2>1, CustomTests
<1> QED
  BY <1>1, <1>2, <1>3

LEMMA KindIsKind == \A ls, id : Kind(ls, id) \in {NULL, "compiled", "interpreted"}
<1> QED
  BY DEF Kind

LEMMA CliRequest ==
  ASSUME NEW dir, IsDirectory(dir), Load(dir) # NULL, NEW ls, NEW id, NEW stop \in BOOLEAN
  PROVE  IsRequest(RequestOfCli(dir, ls, id, stop))
<1> QED
  BY ProblemHasTests, KindIsKind DEF RequestOfCli, IsRequest

(* The requests of the server, and what Serves says of them.                *)
LEMMA SubmissionServes ==
  ASSUME CallOK, Serves, loaded # NULL, NEW slug \in DOMAIN loaded.problems, NEW id,
         Submission(slug, id)
  PROVE  CallOK' /\ Serves'
<1> DEFINE p == loaded.problems[slug]
           r == [caller |-> "submission", slug |-> slug, language |-> Kind(loaded.languages, id),
                 tests |-> p.tests, memory |-> p.limits.memory, comparer |-> p.comparer,
                 stop |-> TRUE, capture |-> FALSE, show |-> p.show_failed_input]
<1>1. Begin(r) /\ loaded' = loaded
  BY DEF Submission
<1>2. IsRequest(r)
  BY KindIsKind DEF Serves, IsRequest
<1>3. Serves'
  BY <1>1 DEF Serves, Begin
<1> QED
  BY <1>1, <1>2, <1>3, BeginKeepsCall

LEMMA RunServes ==
  ASSUME CallOK, Serves, loaded # NULL, NEW slug \in DOMAIN loaded.problems \cup {NULL}, NEW id,
         NEW stdin \in Stdins \cup {NULL}, Run(slug, id, stdin)
  PROVE  CallOK' /\ Serves'
<1> DEFINE p == IF slug = NULL THEN NULL ELSE loaded.problems[slug]
           r == [caller |-> "run", slug |-> slug, language |-> Kind(loaded.languages, id),
                 tests |-> TestsOfRun(stdin, p),
                 memory |-> IF p = NULL THEN RunMemory ELSE p.limits.memory,
                 comparer |-> IF p = NULL THEN [kind |-> "lines"] ELSE p.comparer,
                 stop |-> FALSE, capture |-> TRUE, show |-> TRUE]
<1>1. Begin(r) /\ loaded' = loaded
  BY DEF Run
<1>2. p # NULL => slug \in DOMAIN loaded.problems /\ p = loaded.problems[slug] /\ p.tests \in Seq(TestCase)
  BY DEF Serves
<1> DEFINE ts == TestsOfRun(stdin, p)
<1>3. /\ ts \in Seq(TestCase)
      /\ \A i \in DOMAIN ts : ts[i].expected = NULL \/ ts[i].name \in loaded.problems[slug].samples
  <2> HIDE DEF p
  <2> QED
    BY <1>2, RunTests
<1>m. p # NULL => /\ p.limits.memory \in Int
                  /\ p.comparer.kind \in {"lines", "tokens", "float"}
  BY <1>2 DEF Serves
<1> HIDE DEF ts, p
<1>4. IsRequest(r)
  <2>1. r.memory \in Int
    BY <1>m, LimitsAssumption
  <2>2. r.comparer.kind \in {"lines", "tokens", "float"}
    BY <1>m
  <2> QED
    BY <1>3, <2>1, <2>2, KindIsKind DEF IsRequest, ts
<1>5. req' = r /\ pc' = "called"
  BY <1>1 DEF Begin
<1>6. req'.caller = "run" /\ req'.slug = slug /\ req'.tests = ts
  BY <1>5 DEF ts
<1>7. Serves'
  BY <1>1, <1>3, <1>6 DEF Serves
<1> QED
  BY <1>1, <1>4, <1>7, BeginKeepsCall

(* Every problem that the server starts with has loaded.                    *)
LEMMA StartServes ==
  ASSUME CallOK, Start
  PROVE  CallOK' /\ Serves'
<1>1. CallOK'
  BY RestKeepsCall DEF Start
<1>2. PICK disk \in Disks :
         loaded' = IF \/ LoadLanguages(disk.languages) = NULL \/ LoadSet(disk.problems) = NULL
                      \/ DOMAIN disk.languages = {}
                   THEN NULL ELSE [languages |-> LoadLanguages(disk.languages),
                                   problems |-> LoadSet(disk.problems)]
  BY DEF Start
<1>3. pc' = "idle"
  BY DEF Start, call
<1>4. ASSUME loaded' # NULL, NEW slug \in DOMAIN loaded'.problems
      PROVE  /\ loaded'.problems[slug].tests \in Seq(TestCase)
             /\ loaded'.problems[slug].show_failed_input \in BOOLEAN
             /\ loaded'.problems[slug].limits.memory \in Int
             /\ loaded'.problems[slug].comparer.kind \in {"lines", "tokens", "float"}
  <2> DEFINE found == {s \in DOMAIN disk.problems : disk.problems[s].manifest # "none"}
  <2>1. LoadSet(disk.problems) # NULL /\ loaded'.problems = LoadSet(disk.problems)
    BY <1>2, <1>4
  <2>2. /\ LoadSet(disk.problems) = [s \in found |-> Load(disk.problems[s])]
        /\ \A s \in found : Load(disk.problems[s]) # NULL
    BY <2>1 DEF LoadSet
  <2>3. slug \in found /\ loaded'.problems[slug] = Load(disk.problems[slug])
    BY <1>4, <2>1, <2>2
  <2>4. IsDirectory(disk.problems[slug])
    BY <2>3, InputsAssumption
  <2> QED
    BY <2>2, <2>3, <2>4, ProblemHasTests
<1>5. Serves'
  BY <1>3, <1>4 DEF Serves
<1> QED
  BY <1>1, <1>5

(* The other steps leave what is loaded and, but for its end, the call of   *)
(* the server alone.                                                        *)
LEMMA RestServes ==
  ASSUME Serves, loaded' = loaded,
         loaded # NULL => pc' = "idle" \/ (pc # "idle" /\ req' = req)
  PROVE  Serves'
<1> QED
  BY DEF Serves
-----------------------------------------------------------------------------
(* The lists of a command are sequences.                                    *)
LEMMA CommandLists ==
  ASSUME NEW c \in Commands
  PROVE  /\ Len(c.problems) \in Nat /\ DOMAIN c.problems = 1 .. Len(c.problems)
         /\ \A i \in 1 .. Len(c.problems) :
               LET p == c.problems[i]
               IN  /\ IsDirectory(p.dir)
                   /\ Len(p.files) \in Nat /\ DOMAIN p.files = 1 .. Len(p.files)
<1>1. /\ c.problems \in Seq(Range(c.problems))
      /\ \A p \in Range(c.problems) : IsDirectory(p.dir) /\ p.files \in Seq(Range(p.files))
  BY InputsAssumption
<1>2. Len(c.problems) \in Nat /\ DOMAIN c.problems = 1 .. Len(c.problems)
  BY <1>1, LenProperties
<1>3. ASSUME NEW i \in 1 .. Len(c.problems)
      PROVE  /\ IsDirectory(c.problems[i].dir)
             /\ c.problems[i].files \in Seq(Range(c.problems[i].files))
  <2>1. c.problems[i] \in Range(c.problems)
    BY <1>2 DEF Range
  <2> QED
    BY <1>1, <2>1
<1>4. ASSUME NEW i \in 1 .. Len(c.problems)
      PROVE  Len(c.problems[i].files) \in Nat /\ DOMAIN c.problems[i].files = 1 .. Len(c.problems[i].files)
  BY <1>3, LenProperties
<1> QED
  BY <1>2, <1>3, <1>4

(* What is logged stays logged.                                             *)
LEMMA LogKeeps ==
  ASSUME check'.command = check.command, check.log \subseteq check'.log
  PROVE  /\ \A i, f : Fine(i, f) => Fine(i, f)'
         /\ \A i : Passed(i) => Passed(i)'
<1>1. \A i, f : Fine(i, f) => Fine(i, f)'
  BY DEF Fine
<1>2. \A i : Passed(i) => Passed(i)'
  BY <1>1 DEF Passed
<1> QED
  BY <1>1, <1>2

LEMMA CheckRests ==
  ASSUME Checks, check' = check, loaded' = loaded,
         check # NULL => pc' = "idle" \/ (pc # "idle" /\ check.exit = NULL)
                                      \/ (check.exit = NULL /\ check.file \in 1 .. Len(Current.files))
  PROVE  Checks'
<1> SUFFICES ASSUME check # NULL PROVE Checks'
  BY DEF Checks
<1>1. IsCheck'
  BY DEF Checks, IsCheck
<1>2. CheckPlace'
  BY DEF Checks, CheckPlace, Current
<1>3. CheckFacts'
  BY DEF Checks, CheckFacts, Passed, Fine, Current
<1> QED
  BY <1>1, <1>2, <1>3 DEF Checks

LEMMA CheckStartChecks ==
  ASSUME CheckStart
  PROVE  Checks'
<1>1. PICK c \in Commands :
         /\ check' = [command |-> c, problem |-> 1, file |-> 0, failures |-> 0, accepted |-> 0,
                      log |-> {},
                      exit |-> IF LoadLanguages(c.languages) = NULL \/ c.problems = <<>>
                               THEN "failed" ELSE NULL]
         /\ loaded' = NULL /\ pc' = "idle"
  BY DEF CheckStart, call
<1>2. Len(c.problems) \in Nat
  BY CommandLists
<1>3. IsCheck'
  BY <1>1 DEF IsCheck
<1>4. CheckPlace'
  BY <1>1, <1>2 DEF CheckPlace
<1>5. CheckFacts'
  BY <1>1, NullIsNoExit DEF CheckFacts
<1> QED
  BY <1>1, <1>3, <1>4, <1>5 DEF Checks

(* A command that fails.                                                    *)
LEMMA FailChecks ==
  ASSUME Checks, check # NULL, Fail, loaded' = loaded, pc' = "idle"
  PROVE  Checks'
<1>0. check' = [check EXCEPT !.exit = "failed"] /\ IsCheck
  BY DEF Fail, Checks
<1>1. /\ check' \in [command : Commands, problem : Nat, file : Nat, failures : Nat, accepted : Nat,
                     log : SUBSET (Nat \X Nat \X Replies), exit : {NULL, "ok", "failed"}]
      /\ check'.exit = "failed" /\ check'.command = check.command /\ check'.problem = check.problem
      /\ check'.file = check.file /\ check'.failures = check.failures
      /\ check'.accepted = check.accepted /\ check'.log = check.log
  BY <1>0 DEF IsCheck
<1>2. IsCheck'
  BY <1>1 DEF IsCheck
<1>3. CheckPlace'
  BY <1>1 DEF Checks, CheckPlace, Current
<1>4. CheckFacts'
  <2>1. /\ \A i, f : Fine(i, f) => Fine(i, f)'
        /\ \A i : Passed(i) => Passed(i)'
    BY <1>1, LogKeeps
  <2>2. Current' = Current
    BY <1>1 DEF Current
  <2> QED
    BY <1>1, <2>1, <2>2 DEF Checks, CheckFacts
<1> QED
  BY <1>2, <1>3, <1>4 DEF Checks

LEMMA CheckLoadChecks ==
  ASSUME Checks, CheckLoad
  PROVE  Checks'
<1>0. /\ check # NULL /\ check.exit = NULL /\ check.file = 0
      /\ check.problem <= Len(check.command.problems)
      /\ loaded' = loaded /\ pc' = "idle" /\ IsCheck
  BY DEF CheckLoad, InCheck, call, Checks
<1>1. CASE Fail
  BY <1>0, <1>1, FailChecks
<1>2. CASE Load(Current.dir) # NULL /\ check' = [check EXCEPT !.file = 1, !.accepted = NoneAccepted]
  <2>1. /\ check' \in [command : Commands, problem : Nat, file : Nat, failures : Nat, accepted : Nat,
                       log : SUBSET (Nat \X Nat \X Replies), exit : {NULL, "ok", "failed"}]
        /\ check'.exit = check.exit /\ check'.command = check.command
        /\ check'.problem = check.problem /\ check'.file = 1 /\ check'.failures = check.failures
        /\ check'.accepted = 0 /\ check'.log = check.log
    BY <1>0, <1>2 DEF IsCheck, NoneAccepted
  <2>2. Current' = Current
    BY <2>1 DEF Current
  <2>3. IsCheck'
    BY <2>1 DEF IsCheck
  <2>4. CheckPlace'
    BY <1>0, <1>2, <2>1, <2>2 DEF Checks, CheckPlace
  <2>5. CheckFacts'
    <3>1. \A i : Passed(i) => Passed(i)'
      BY <2>1, LogKeeps
    <3> QED
      BY <1>0, <2>1, <3>1, NullIsNoExit DEF Checks, CheckFacts
  <2> QED
    BY <1>0, <2>3, <2>4, <2>5 DEF Checks
<1> QED
  BY <1>1, <1>2 DEF CheckLoad

(* A step to the next file, which is fine or counted.                       *)
LEMMA NextFileChecks ==
  ASSUME Checks, check # NULL, check.file \in 1 .. Len(Current.files),
         NEW k, check.problem = k, NEW n, check.file = n,
         check'.command = check.command, check'.problem = check.problem,
         check'.file = check.file + 1, check'.exit = check.exit, check.exit = NULL,
         check.log \subseteq check'.log,
         check'.failures >= check.failures,
         check'.failures = 0 => Fine(k, n)',
         check'.accepted > 0 => check.accepted > 0 \/ <<k, n, "AC">> \in check'.log,
         IsCheck', loaded' = loaded, pc' = "idle"
  PROVE  Checks'
<1>0. IsCheck /\ CheckPlace /\ CheckFacts /\ loaded = NULL
  BY DEF Checks
<1>1. /\ check.problem \in Nat /\ check.file \in Nat /\ check.failures \in Nat
      /\ check'.failures \in Nat /\ check'.problem \in Nat
      /\ check.accepted \in Nat /\ check.command \in Commands
  BY <1>0 DEF IsCheck
<1>2. Current' = Current
  BY DEF Current
<1>3. CheckPlace'
  BY <1>0, <1>1, <1>2 DEF CheckPlace
<1>4. /\ \A i, f : Fine(i, f) => Fine(i, f)'
      /\ \A i : Passed(i) => Passed(i)'
  BY LogKeeps
<1>5. DOMAIN Current.files = 1 .. Len(Current.files)
  <2>1. check.problem \in 1 .. Len(check.command.problems)
    BY <1>0, <1>1 DEF CheckPlace
  <2> QED
    BY <1>1, <2>1, CommandLists DEF Current
<1>6. CheckFacts'
  <2>1. check'.failures = 0 => check.failures = 0
    BY <1>1
  <2>2. \A f \in 1 .. (n + 1) - 1 : f \in 1 .. n - 1 \/ f = n
    BY <1>1
  <2>3. ASSUME check'.failures = 0
        PROVE  /\ \A i \in 1 .. k - 1 : Passed(i)'
               /\ \A f \in 1 .. (n + 1) - 1 : Fine(k, f)'
    <3>1. /\ \A i \in 1 .. k - 1 : Passed(i)
          /\ \A f \in 1 .. n - 1 : Fine(k, f)
      BY <1>0, <2>1, <2>3 DEF CheckFacts
    <3>2. Fine(k, n)'
      BY <2>3
    <3> QED
      BY <3>1, <3>2, <1>4, <2>2
  <2>4. ASSUME check'.accepted > 0
        PROVE  \E f \in DOMAIN Current.files : <<k, f, "AC">> \in check'.log
    <3>1. CASE check.accepted > 0
      BY <3>1, <1>0, <1>1 DEF CheckFacts
    <3>2. CASE <<k, n, "AC">> \in check'.log
      BY <3>2, <1>5
    <3> QED
      BY <2>4, <3>1, <3>2
  <2>5. check'.exit # "ok"
    BY NullIsNoExit
  <2> QED
    BY <1>2, <2>3, <2>4, <2>5 DEF CheckFacts
<1> QED
  BY <1>0, <1>3, <1>6 DEF Checks
LEMMA CheckSkipChecks ==
  ASSUME Checks, CheckSkip
  PROVE  Checks'
<1>0. /\ check # NULL /\ check.exit = NULL /\ check.file > 0 /\ check.file <= Len(Current.files)
      /\ loaded' = loaded /\ pc' = "idle" /\ IsCheck /\ CheckPlace
  BY DEF CheckSkip, InCheck, call, Checks
<1>1. CASE Fail
  BY <1>0, <1>1, FailChecks
<1>2. CASE File.label = NULL /\ check' = [check EXCEPT !.file = @ + 1]
  <2>1. /\ check' \in [command : Commands, problem : Nat, file : Nat, failures : Nat, accepted : Nat,
                       log : SUBSET (Nat \X Nat \X Replies), exit : {NULL, "ok", "failed"}]
        /\ check'.exit = check.exit /\ check'.command = check.command
        /\ check'.problem = check.problem /\ check'.file = check.file + 1
        /\ check'.failures = check.failures /\ check.failures \in Nat
        /\ check'.accepted = check.accepted /\ check'.log = check.log
        /\ check.file \in Nat
    BY <1>0, <1>2 DEF IsCheck
  <2>2. IsCheck'
    BY <2>1 DEF IsCheck
  <2>3. PICK k, n : check.problem = k /\ check.file = n
    OBVIOUS
  <2>4. Fine(k, n)'
    BY <1>2, <2>1, <2>3 DEF Fine, File, Current
  <2>5. check.file \in 1 .. Len(Current.files)
    <3>1. Len(Current.files) \in Nat
      <4>1. check.problem \in 1 .. Len(check.command.problems) /\ check.command \in Commands
        BY <1>0 DEF CheckPlace, IsCheck
      <4> QED
        BY <4>1, CommandLists DEF Current
    <3> QED
      BY <1>0, <2>1, <3>1
  <2>6. check'.failures >= check.failures /\ check.log \subseteq check'.log
    BY <2>1
  <2> QED
    BY <1>0, <2>1, <2>2, <2>3, <2>4, <2>5, <2>6, NextFileChecks
<1> QED
  BY <1>1, <1>2 DEF CheckSkip

(* A verdict is logged, and counted if it is not that of the label.         *)
LEMMA CheckTallyChecks ==
  ASSUME CallOK, Checks, CheckTally
  PROVE  Checks'
<1>0. /\ check # NULL /\ pc = "returned" /\ pc' = "idle" /\ loaded' = loaded
      /\ IsCheck /\ CheckPlace
  BY DEF CheckTally, Done, Checks
<1>1. CASE Fail
  BY <1>0, <1>1, FailChecks
<1>2. ASSUME NEW ok \in BOOLEAN, ok <=> reply = File.label,
             check' = [check EXCEPT !.file = @ + 1,
                           !.accepted = @ + (IF ok /\ reply = "AC" THEN 1 ELSE 0),
                           !.failures = @ + (IF ok THEN 0 ELSE 1),
                           !.log = @ \cup {<<check.problem, check.file, reply>>}]
      PROVE  Checks'
  <2>0. /\ check.problem \in Nat /\ check.file \in Nat /\ reply \in Replies
        /\ check.exit = NULL /\ check.file \in 1 .. Len(Current.files)
        /\ check.failures \in Nat /\ check.accepted \in Nat
        /\ check.log \in SUBSET (Nat \X Nat \X Replies)
    BY <1>0 DEF IsCheck, CheckPlace, CallOK, Phases, Replies
  <2> DEFINE a == check.accepted + (IF ok /\ reply = "AC" THEN 1 ELSE 0)
             f == check.failures + (IF ok THEN 0 ELSE 1)
             l == check.log \cup {<<check.problem, check.file, reply>>}
  <2>1. a \in Nat /\ f \in Nat /\ f >= check.failures /\ (f = 0 => ok) /\ check.file + 1 \in Nat
        /\ (a > 0 => check.accepted > 0 \/ (ok /\ reply = "AC"))
    BY <2>0
  <2>2. l \in SUBSET (Nat \X Nat \X Replies)
    BY <2>0
  <2>3. check' = [check EXCEPT !.file = check.file + 1, !.accepted = a, !.failures = f, !.log = l]
    BY <1>2
  <2> HIDE DEF a, f, l
  <2>4. /\ IsCheck'
        /\ check'.exit = check.exit /\ check'.command = check.command
        /\ check'.problem = check.problem /\ check'.file = check.file + 1
        /\ check'.failures = f /\ check'.accepted = a /\ check'.log = l
    BY <1>0, <2>1, <2>2, <2>3 DEF IsCheck
  <2>5. PICK k, n : check.problem = k /\ check.file = n
    OBVIOUS
  <2>6. <<k, n, reply>> \in check'.log /\ check.log \subseteq check'.log
    BY <2>4, <2>5 DEF l
  <2>7. check'.failures = 0 => Fine(k, n)'
    BY <1>2, <2>1, <2>4, <2>5, <2>6 DEF Fine, File, Current
  <2>8. check'.accepted > 0 => check.accepted > 0 \/ <<k, n, "AC">> \in check'.log
    BY <2>1, <2>4, <2>6
  <2>9. check'.failures >= check.failures
    BY <2>1, <2>4
  <2> QED
    BY <1>0, <2>0, <2>4, <2>5, <2>6, <2>7, <2>8, <2>9, NextFileChecks
<1> QED
  BY <1>1, <1>2 DEF CheckTally

(* A problem that is done is fine, or counted.                              *)
LEMMA CheckNextChecks ==
  ASSUME Checks, CheckNext
  PROVE  Checks'
<1>0. /\ check # NULL /\ check.exit = NULL /\ check.file > 0 /\ check.file > Len(Current.files)
      /\ loaded' = loaded /\ pc' = "idle" /\ IsCheck /\ CheckPlace /\ CheckFacts /\ loaded = NULL
  BY DEF CheckNext, InCheck, call, Checks
<1>1. /\ check.problem \in Nat /\ check.file \in Nat /\ check.failures \in Nat
      /\ check.accepted \in Nat /\ check.command \in Commands
      /\ check.problem \in 1 .. Len(check.command.problems)
      /\ Load(Current.dir) # NULL
  BY <1>0 DEF IsCheck, CheckPlace
<1> DEFINE f == check.failures + (IF check.accepted = 0 THEN 1 ELSE 0)
<1>2. f \in Nat /\ check.problem + 1 \in Nat /\ (f = 0 => check.failures = 0 /\ check.accepted > 0)
  BY <1>1
<1>3. check' = [check EXCEPT !.problem = check.problem + 1, !.file = 0, !.failures = f]
  BY DEF CheckNext
<1> HIDE DEF f
<1>4. /\ IsCheck'
      /\ check'.exit = check.exit /\ check'.command = check.command
      /\ check'.problem = check.problem + 1 /\ check'.file = 0 /\ check'.failures = f
      /\ check'.log = check.log
  BY <1>0, <1>1, <1>2, <1>3 DEF IsCheck
<1>5. PICK k : k = check.problem
  OBVIOUS
<1>6. /\ Len(check.command.problems) \in Nat
      /\ Len(Current.files) \in Nat /\ DOMAIN Current.files = 1 .. Len(Current.files)
  BY <1>1, CommandLists DEF Current
<1>7. CheckPlace'
  BY <1>0, <1>1, <1>4, <1>6 DEF CheckPlace
<1>8. CheckFacts'
  <2>1. \A i : Passed(i) => Passed(i)'
    BY <1>4, LogKeeps
  <2>2. ASSUME f = 0 PROVE Passed(k)
    <3>1. \A i \in DOMAIN Current.files : Fine(k, i)
      <4>1. \A i \in 1 .. Len(Current.files) : i \in 1 .. check.file - 1
        BY <1>0, <1>1, <1>6
      <4> QED
        BY <4>1, <1>0, <1>2, <1>5, <1>6, <2>2 DEF CheckFacts
    <3>2. \E i \in DOMAIN Current.files : <<k, i, "AC">> \in check.log
      BY <1>0, <1>1, <1>2, <1>5, <2>2 DEF CheckFacts
    <3> QED
      BY <3>1, <3>2, <1>1, <1>5 DEF Passed, Current
  <2>3. ASSUME f = 0 PROVE \A i \in 1 .. (k + 1) - 1 : Passed(i)'
    <3>1. \A i \in 1 .. k - 1 : Passed(i)
      BY <1>0, <1>2, <1>5, <2>3 DEF CheckFacts
    <3>2. \A i \in 1 .. (k + 1) - 1 : i \in 1 .. k - 1 \/ i = k
      BY <1>1, <1>5
    <3> QED
      BY <2>1, <2>2, <2>3, <3>1, <3>2
  <2>4. check'.exit # "ok"
    BY <1>0, <1>4, NullIsNoExit
  <2> QED
    BY <1>4, <1>5, <2>3, <2>4 DEF CheckFacts
<1> QED
  BY <1>0, <1>4, <1>7, <1>8 DEF Checks

LEMMA CheckEndChecks ==
  ASSUME Checks, CheckEnd
  PROVE  Checks'
<1>0. /\ check # NULL /\ check.exit = NULL /\ check.problem > Len(check.command.problems)
      /\ loaded' = loaded /\ pc' = "idle" /\ IsCheck /\ CheckPlace /\ CheckFacts /\ loaded = NULL
  BY DEF CheckEnd, InCheck, call, Checks
<1>1. check' = [check EXCEPT !.exit = IF check.failures > 0 THEN "failed" ELSE "ok"]
  BY DEF CheckEnd
<1>2. /\ IsCheck' /\ check'.exit = (IF check.failures > 0 THEN "failed" ELSE "ok")
      /\ check'.command = check.command
      /\ check'.problem = check.problem /\ check'.file = check.file
      /\ check'.failures = check.failures /\ check.failures \in Nat
      /\ check'.accepted = check.accepted /\ check'.log = check.log
  BY <1>0, <1>1 DEF IsCheck
<1>3. Current' = Current
  BY <1>2 DEF Current
<1>4. CheckPlace'
  BY <1>0, <1>2, <1>3 DEF CheckPlace
<1>5. CheckFacts'
  <2>1. /\ \A i, f : Fine(i, f) => Fine(i, f)'
        /\ \A i : Passed(i) => Passed(i)'
    BY <1>2, LogKeeps
  <2>2. check'.exit = "ok" => check.failures = 0
    BY <1>2
  <2> QED
    BY <1>0, <1>2, <1>3, <2>1, <2>2 DEF CheckFacts
<1> QED
  BY <1>0, <1>2, <1>4, <1>5 DEF Checks
-----------------------------------------------------------------------------
JInv == CallOK /\ Serves /\ Checks

(* One step per action.                                                     *)
LEMMA JudgeInvStep == JInv /\ [Next]_vars => JInv'
<1> SUFFICES ASSUME JInv, [Next]_vars PROVE JInv'
  OBVIOUS
<1>0. CallOK /\ Serves /\ Checks
  BY DEF JInv
<1>1. CASE UNCHANGED vars
  <2>1. CallOK'
    BY <1>0, <1>1, RestKeepsCall DEF vars
  <2>2. Serves'
    BY <1>0, <1>1, RestServes DEF vars, call
  <2>3. Checks'
    BY <1>0, <1>1, CheckRests DEF vars, call, Checks, CheckPlace
  <2> QED
    BY <2>1, <2>2, <2>3 DEF JInv
<1>2. CASE JudgeStep
  <2>1. CallOK'
    BY <1>0, <1>2, RefuseKeepsCall, EnterKeepsCall, ConcludeKeepsCall, CompileKeepsCall,
       RunTestKeepsCall DEF JudgeStep
  <2>2. pc # "idle" /\ UNCHANGED <<loaded, check, req>>
    BY <1>2 DEF JudgeStep, Refuse, Enter, Conclude, Compile, RunTest, Return
  <2>3. Serves'
    BY <1>0, <2>2, RestServes
  <2>4. Checks'
    BY <1>0, <2>2, CheckRests DEF Checks, CheckPlace
  <2> QED
    BY <2>1, <2>3, <2>4 DEF JInv
<1>3. CASE Start
  <2>1. CallOK' /\ Serves'
    BY <1>0, <1>3, StartServes
  <2>2. Checks'
    BY <1>3 DEF Start, Checks
  <2> QED
    BY <2>1, <2>2 DEF JInv
<1>4. CASE Finish \/ Complete \/ CliJudged
  <2>0. Done /\ UNCHANGED <<loaded, check>>
    BY <1>4 DEF Finish, Complete, CliJudged
  <2>1. CallOK'
    BY <1>0, <2>0, DoneKeepsCall
  <2>2. Serves' /\ Checks'
    BY <1>0, <2>0, RestServes, CheckRests DEF Done
  <2> QED
    BY <2>1, <2>2 DEF JInv
<1>5. ASSUME loaded # NULL, NEW slug \in DOMAIN loaded.problems, NEW id, Submission(slug, id)
      PROVE  JInv'
  <2>1. CallOK' /\ Serves'
    BY <1>0, <1>5, SubmissionServes
  <2>2. Checks'
    BY <1>0, <1>5 DEF Submission, Checks
  <2> QED
    BY <2>1, <2>2 DEF JInv
<1>6. ASSUME loaded # NULL, NEW slug \in DOMAIN loaded.problems \cup {NULL}, NEW id,
             NEW stdin \in Stdins \cup {NULL}, Run(slug, id, stdin)
      PROVE  JInv'
  <2>1. CallOK' /\ Serves'
    BY <1>0, <1>6, RunServes
  <2>2. Checks'
    BY <1>0, <1>6 DEF Run, Checks
  <2> QED
    BY <2>1, <2>2 DEF JInv
<1>7. ASSUME NEW c \in Commands, NEW id, NEW stop \in BOOLEAN, c.problems # <<>>,
             CliJudge(c, id, stop)
      PROVE  JInv'
  <2> DEFINE dir == Head(c.problems).dir
             r   == RequestOfCli(dir, c.languages, id, stop)
  <2>1. /\ Load(dir) # NULL /\ Begin(r) /\ loaded = NULL /\ check = NULL
        /\ UNCHANGED <<loaded, check>>
    BY <1>7 DEF CliJudge
  <2>2. IsDirectory(dir)
    <3>1. c.problems \in Seq(Range(c.problems))
      BY InputsAssumption
    <3>2. Head(c.problems) \in Range(c.problems)
      BY <1>7, <3>1, HeadTailProperties
    <3> QED
      BY <3>2, InputsAssumption
  <2>3. IsRequest(r)
    BY <2>1, <2>2, CliRequest
  <2>4. CallOK'
    BY <1>0, <2>1, <2>3, BeginKeepsCall
  <2> QED
    BY <2>1, <2>4 DEF JInv, Serves, Checks
<1>8. CASE CheckRun
  <2>0. /\ check # NULL /\ check.exit = NULL /\ check.file > 0 /\ check.file <= Len(Current.files)
        /\ UNCHANGED <<loaded, check>> /\ loaded = NULL /\ IsCheck /\ CheckPlace
    BY <1>0, <1>8 DEF CheckRun, InCheck, Checks
  <2>1. check.problem \in 1 .. Len(check.command.problems) /\ check.command \in Commands
        /\ Load(Current.dir) # NULL /\ check.file \in Nat
    BY <2>0 DEF CheckPlace, IsCheck
  <2>2. IsDirectory(Current.dir) /\ Len(Current.files) \in Nat
    BY <2>1, CommandLists DEF Current
  <2>3. PICK id : Begin(RequestOfCli(Current.dir, check.command.languages, id, TRUE))
    BY <1>8 DEF CheckRun
  <2>4. IsRequest(RequestOfCli(Current.dir, check.command.languages, id, TRUE))
    BY <2>1, <2>2, CliRequest
  <2>5. CallOK'
    BY <1>0, <2>3, <2>4, BeginKeepsCall
  <2>6. check.file \in 1 .. Len(Current.files)
    BY <2>0, <2>1, <2>2
  <2>7. Checks'
    BY <1>0, <2>0, <2>6, CheckRests
  <2> QED
    BY <2>0, <2>5, <2>7 DEF JInv, Serves
<1>9. CASE CheckStart \/ CheckLoad \/ CheckSkip \/ CheckNext \/ CheckEnd \/ CheckExit
  <2>0. UNCHANGED <<loaded, call>>
    BY <1>9 DEF CheckStart, CheckLoad, CheckSkip, CheckNext, CheckEnd, CheckExit
  <2>1. CallOK'
    BY <1>0, <2>0, RestKeepsCall
  <2>2. Serves'
    BY <1>0, <2>0, RestServes DEF call
  <2>3. Checks'
    <3>1. CASE CheckExit
      BY <3>1 DEF CheckExit, Checks
    <3> QED
      BY <1>0, <1>9, <3>1, CheckStartChecks, CheckLoadChecks, CheckSkipChecks, CheckNextChecks,
         CheckEndChecks
  <2> QED
    BY <2>1, <2>2, <2>3 DEF JInv
<1>10. CASE CheckTally
  <2>0. Done /\ loaded' = loaded
    BY <1>10 DEF CheckTally
  <2>1. CallOK'
    BY <1>0, <2>0, DoneKeepsCall
  <2>2. Serves'
    BY <1>0, <2>0, RestServes DEF Done
  <2>3. Checks'
    BY <1>0, <1>10, CheckTallyChecks
  <2> QED
    BY <2>1, <2>2, <2>3 DEF JInv
<1> QED
  BY <1>1, <1>2, <1>3, <1>4, <1>5, <1>6, <1>7, <1>8, <1>9, <1>10
     DEF Next, ServerStep, CliStep

LEMMA JudgeInitially == Init => JInv
<1> SUFFICES ASSUME Init PROVE JInv
  OBVIOUS
<1>e. Len(results) = 0 /\ results \in Seq(TestResults)
  BY EmptySeq DEF Init
<1>1. Phases
  BY DEF Init, Phases, Fresh
<1>2. Results
  BY <1>e DEF Init, Results, Accepts
<1>3. Shows /\ VerdictIsFirstFailure
  BY <1>e DEF Init, Shows, VerdictIsFirstFailure
<1>4. Serves /\ Checks
  BY DEF Init, Serves, Checks
<1> QED
  BY <1>1, <1>2, <1>3, <1>4 DEF JInv, CallOK

LEMMA JudgeInvariant == Spec => []JInv
<1> QED
  BY JudgeInitially, JudgeInvStep, PTL DEF Spec

(* The state of a call and of its callers keeps its shape.                  *)
THEOREM JudgeTypes == Spec => []TypeOK
<1>1. JInv => TypeOK
  <2> SUFFICES ASSUME JInv PROVE TypeOK
    OBVIOUS
  <2>1. results \in Seq(TestResults)
    BY DEF JInv, CallOK, Results
  <2>2. Len(results) \in Nat /\ DOMAIN results = 1 .. Len(results)
    BY <2>1, LenProperties
  <2>3. \A i \in DOMAIN results : results[i] \in TestResults
    BY <2>1, <2>2, ElementOfSeq
  <2>4. sent \in {Nothing, Compiling} \cup 0 .. Len(results)
    BY <2>2 DEF JInv, CallOK, Phases
  <2>5. check # NULL => check.exit \in {NULL, "ok", "failed"} /\ check.failures \in Nat
    BY DEF JInv, Checks, IsCheck
  <2> QED
    BY <2>3, <2>4, <2>5 DEF TestResults, TypeOK, JInv, CallOK, Phases
<1> QED
  BY <1>1, JudgeInvariant, PTL

(* The verdict of a call is that of its first failing test, for any tests   *)
(* and executions: find() over the results, failed_test and the loop's      *)
(* early exit agree.                                                        *)
THEOREM VerdictsFirst == Spec => []VerdictIsFirstFailure
<1>1. JInv => VerdictIsFirstFailure
  BY DEF JInv, CallOK
<1> QED
  BY <1>1, JudgeInvariant, PTL

(* Of a test that is not the client's own, a sample or the first failure of *)
(* a problem with show_failed_input, clients see at most the stderr of a    *)
(* first failure that is a runtime error, whatever problems are loaded.     *)
THEOREM HiddenOutput == Spec => []HiddenShowsOnlyStderr
<1>1. JInv => HiddenShowsOnlyStderr
  <2> SUFFICES ASSUME JInv, loaded # NULL, NEW i \in DOMAIN results, ~MayKnow(i)
               PROVE  /\ ~results[i].shown
                      /\ results[i].stderr # NULL =>
                           results[i].verdict = "RE" /\ req.tests[i].name = failed_test
    BY DEF HiddenShowsOnlyStderr
  <2>1. /\ results \in Seq(TestResults)
        /\ Phases /\ Shows /\ Serves /\ (pc # "idle" => Len(results) <= Len(req.tests))
    BY DEF JInv, CallOK, Results
  <2>2. Len(results) \in Nat /\ DOMAIN results = 1 .. Len(results)
    BY <2>1, LenProperties
  <2>3. pc # "idle"
    BY <2>1, <2>2, EmptySeq DEF Phases, Fresh
  <2>4. i \in DOMAIN req.tests
    <3>1. req.tests \in Seq(TestCase)
      BY <2>1, <2>3 DEF Phases, IsRequest
    <3>2. Len(req.tests) \in Nat /\ DOMAIN req.tests = 1 .. Len(req.tests)
      BY <3>1, LenProperties
    <3> QED
      BY <3>2, <2>1, <2>2, <2>3
  <2>5. req.stop /\ ~Wanted(i)
    BY <2>1, <2>3, <2>4 DEF Serves, MayKnow, Wanted
  <2>6. /\ ~results[i].shown
        /\ results[i].stderr # NULL => results[i].verdict = "RE"
    BY <2>1, <2>2, <2>5 DEF Shows
  <2>7. ASSUME results[i].verdict = "RE" PROVE req.tests[i].name = failed_test
    <3>1. ~Accepts
      BY <2>2, <2>7 DEF Accepts
    <3>2. PICK k \in 1 .. Len(results) : FailsFirst(k) /\ k = Len(results)
      BY <2>2, <2>5, <3>1 DEF JInv, CallOK, Results
    <3>3. ~(i < k)
      <4>1. i < k => i \in 1 .. k - 1
        BY <2>2
      <4> QED
        BY <4>1, <2>7, <3>2 DEF FailsFirst
    <3>4. i = k
      BY <2>2, <3>2, <3>3
    <3> QED
      BY <3>2, <3>4 DEF FailsFirst
  <2> QED
    BY <2>6, <2>7
<1> QED
  BY <1>1, JudgeInvariant, PTL

(* check-problem ends well only if everything that it stands for was seen.  *)
THEOREM ChecksMean == Spec => []CheckMeansChecked
<1>1. JInv => CheckMeansChecked
  <2> SUFFICES ASSUME JInv, check # NULL, check.exit = "ok",
                      NEW i \in DOMAIN check.command.problems
               PROVE  Passed(i)
    BY DEF CheckMeansChecked, Passed, Fine
  <2>1. IsCheck /\ CheckPlace /\ CheckFacts
    BY DEF JInv, Checks
  <2>2. /\ check.command \in Commands /\ check.problem \in Nat
        /\ check.problem > Len(check.command.problems) /\ check.failures = 0
    BY <2>1 DEF IsCheck, CheckFacts
  <2>3. Len(check.command.problems) \in Nat /\ i \in 1 .. Len(check.command.problems)
    BY <2>2, CommandLists
  <2>4. i \in 1 .. check.problem - 1
    BY <2>2, <2>3
  <2> QED
    BY <2>1, <2>2, <2>4 DEF CheckFacts
<1> QED
  BY <1>1, JudgeInvariant, PTL
(* Every step of judge() is one that Workers allows: the next progress      *)
(* message, and an outcome that can follow the last one.                    *)
LEMMA CallStepHolds == JInv /\ [Next]_vars => CallStep \/ UNCHANGED vars
<1> SUFFICES ASSUME JInv, Next PROVE CallStep
  OBVIOUS
<1> USE DEF Nothing, Compiling, Call!Nothing, Call!Compiling
<1>0. Phases /\ Results
  BY DEF JInv, CallOK
<1>1. CASE pc = "idle" \/ (pc' # "returned" /\ (pc' = "idle" \/ sent' = sent))
           \/ (pc = "returned" /\ (pc' = "idle" \/ sent' = sent))
  <2>1. pc = "idle" => pc' # "returned"
    BY DEF Next, JudgeStep, ServerStep, CliStep, Refuse, Enter, Conclude, Compile, RunTest, Start,
           Finish, Complete, Submission, Run, CliJudge, CliJudged, CheckStart, CheckLoad, CheckSkip,
           CheckRun, CheckTally, CheckNext, CheckEnd, CheckExit, Done, Begin, call, InCheck
  <2> QED
    BY <1>1, <2>1 DEF CallStep
<1>2. ASSUME pc # "idle", NEW n, n = Len(req.tests)
      PROVE  /\ n \in Nat /\ Len(results) \in Nat /\ Len(results) <= n
             /\ results \in Seq(TestResults)
             /\ DOMAIN results = 1 .. Len(results)
             /\ req.language \in {NULL, "compiled", "interpreted"}
  <2>1. req.tests \in Seq(TestCase) /\ results \in Seq(TestResults)
    BY <1>0, <1>2 DEF Phases, Results, IsRequest
  <2>2. /\ Len(req.tests) \in Nat /\ Len(results) \in Nat
        /\ DOMAIN results = 1 .. Len(results)
    BY <2>1, LenProperties
  <2> QED
    BY <2>1, <2>2, <1>0, <1>2 DEF Results, Phases, IsRequest
<1>n. PICK n : n = Len(req.tests)
  OBVIOUS
<1>g. SUFFICES ASSUME pc # "idle", pc # "returned"
               PROVE  /\ sent' # sent => sent' = Call(n)!NextProgress(req.language, sent)
                      /\ pc' = "returned" =>
                           (IF reply' \in Verdicts \ {"AC"} THEN "WA" ELSE reply')
                             \in Call(n)!Outcomes(req.language, sent)
  <2>1. pc = "returned" => pc' = "idle" \/ sent' = sent
    BY DEF Next, JudgeStep, ServerStep, CliStep, Refuse, Enter, Conclude, Compile, RunTest, Start,
           Finish, Complete, Submission, Run, CliJudge, CliJudged, CheckStart, CheckLoad, CheckSkip,
           CheckRun, CheckTally, CheckNext, CheckEnd, CheckExit, Done, Begin, call, InCheck
  <2> QED
    BY <1>1, <2>1, <1>n DEF CallStep
<1>t. /\ n \in Nat /\ Len(results) \in Nat /\ Len(results) <= n
      /\ results \in Seq(TestResults)
      /\ DOMAIN results = 1 .. Len(results)
      /\ req.language \in {NULL, "compiled", "interpreted"}
  BY <1>g, <1>n, <1>2
<1>3. CASE Refuse
  <2>1. pc = "called" /\ sent = -2 /\ sent' = sent
        /\ reply' = IF req.language = NULL THEN "no language" ELSE "sandbox"
    BY <1>0, <1>3 DEF Refuse, Return, Phases, Fresh
  <2>2. sent # n
    <3>1. n \in Nat
      BY <1>t
    <3>2. \A m \in Nat : m # -2
      OBVIOUS
    <3> QED
      BY <2>1, <3>1, <3>2
  <2>3. reply' \notin Verdicts
    BY <2>1 DEF Verdicts
  <2>4. reply' \in Call(n)!Outcomes(req.language, sent)
    BY <2>1, <2>2 DEF Call!Outcomes
  <2> QED
    BY <2>1, <2>3, <2>4
<1>4. CASE Enter
  <2>1. pc = "called" /\ sent = -2 /\ pc' # "returned"
        /\ sent' = IF req.language = "compiled" THEN -1 ELSE 0
    BY <1>0, <1>4 DEF Enter, Phases, Fresh, FirstProgress
  <2> QED
    BY <2>1 DEF Call!NextProgress
<1>5. ASSUME NEW x, Compile(x)
      PROVE  /\ sent' # sent => sent' = Call(n)!NextProgress(req.language, sent)
             /\ pc' = "returned" =>
                  (IF reply' \in Verdicts \ {"AC"} THEN "WA" ELSE reply')
                    \in Call(n)!Outcomes(req.language, sent)
  <2>1. /\ pc = "compile" /\ sent = -1 /\ req.language # NULL
        /\ \/ pc' = "tests" /\ sent' = 0
           \/ pc' = "returned" /\ sent' = sent /\ reply' \in {"CE", "sandbox"}
    BY <1>0, <1>5 DEF Compile, Return, Phases
  <2> QED
    BY <2>1, <1>t DEF Call!NextProgress, Call!Outcomes, Verdicts
<1>6. ASSUME NEW x, RunTest(x)
      PROVE  /\ sent' # sent => sent' = Call(n)!NextProgress(req.language, sent)
             /\ pc' = "returned" =>
                  (IF reply' \in Verdicts \ {"AC"} THEN "WA" ELSE reply')
                    \in Call(n)!Outcomes(req.language, sent)
  <2>1. /\ pc = "tests" /\ sent = Len(results) /\ Len(results) < n /\ req.language # NULL
    BY <1>0, <1>6, <1>n DEF RunTest, Phases
  <2>2. \/ pc' = "returned" /\ sent' = sent /\ reply' = "sandbox"
        \/ /\ pc' # "returned" /\ sent' = Len(results')
           /\ \E r : results' = Append(results, r)
    BY <1>6, Zenon DEF RunTest, Return
  <2>3. \A r : Len(Append(results, r)) = Len(results) + 1
    BY <1>t
  <2> QED
    BY <2>1, <2>2, <2>3, <1>t DEF Call!NextProgress, Call!Outcomes, Verdicts
<1>7. CASE Conclude
  <2>1. /\ pc \in {"tests", "stopped"} /\ sent = Len(results) /\ sent' = sent /\ req.language # NULL
        /\ reply' = FirstFailure(results)
        /\ pc = "tests" => Len(results) = n
        /\ pc' = "returned"
    BY <1>0, <1>7, <1>n DEF Conclude, Return, Phases
  <2>2. \A i \in 1 .. Len(results) : results[i] \in TestResults
    BY <1>t, ElementOfSeq
  <2>3. \/ reply' = "AC" /\ \A i \in 1 .. Len(results) : results[i].verdict = "AC"
        \/ Len(results) >= 1 /\ reply' \in Verdicts \ {"AC"}
    <3>1. results \in Seq(TestResults)
      BY <1>t
    <3>2. \/ reply' = "AC" /\ \A i \in 1 .. Len(results) : results[i].verdict = "AC"
          \/ \E i \in 1 .. Len(results) : reply' = results[i].verdict /\ results[i].verdict # "AC"
      BY <3>1, <2>1, FirstFailureIs
    <3> QED
      BY <3>2, <2>2, <1>t DEF TestResults
  <2>4. reply' = "AC" => Len(results) = n
    <3> SUFFICES ASSUME reply' = "AC", pc = "stopped" PROVE FALSE
      BY <2>1
    <3>1. ~Accepts
      BY <1>0 DEF Results
    <3>2. PICK i \in DOMAIN results : results[i].verdict # "AC"
      BY <1>0, <3>1 DEF Results, FailsFirst
    <3> QED
      BY <2>3, <3>2, <1>t
  <2> QED
    BY <2>1, <2>3, <2>4, <1>t DEF Call!Outcomes
<1>8. CASE ~JudgeStep
  <2>1. pc' # "returned" /\ (pc' = "idle" \/ sent' = sent)
    BY <1>8, <1>g DEF Next, ServerStep, CliStep, Start,
           Finish, Complete, Submission, Run, CliJudge, CliJudged, CheckStart, CheckLoad, CheckSkip,
           CheckRun, CheckTally, CheckNext, CheckEnd, CheckExit, Done, Begin, call, InCheck
  <2>2. pc' # "idle"
    BY <1>8, <1>g DEF Next, ServerStep, CliStep, Start,
           Finish, Complete, Submission, Run, CliJudge, CliJudged, CheckStart, CheckLoad, CheckSkip,
           CheckRun, CheckTally, CheckNext, CheckEnd, CheckExit, Done, Begin, call, InCheck
  <2> QED
    BY <2>1, <2>2
<1> QED
  BY <1>3, <1>4, <1>5, <1>6, <1>7, <1>8 DEF JudgeStep

(* judge() implements the call that Workers is built on, so the theorems    *)
(* about workers hold for it.                                               *)
THEOREM JudgeImplementsCall == Spec => ImplementsCall
<1>1. JInv /\ [Next]_vars => [CallStep]_vars
  BY CallStepHolds
<1> QED
  BY <1>1, JudgeInvariant, PTL DEF Spec, ImplementsCall
-----------------------------------------------------------------------------
(* A problem that some disk holds.                                          *)
OnDisk(p) ==
  \E disk \in Disks : \E slug \in DOMAIN disk.problems :
     Load(disk.problems[slug]) # NULL /\ p = Load(disk.problems[slug])

(* What a call or a stored verdict has of a problem.                        *)
Judges(r, p) == r.tests = p.tests /\ r.memory = p.limits.memory /\ r.comparer = p.comparer

(* What the server has comes from a disk, a submission is judged by what    *)
(* the server has, and the stored verdict names what it was judged by.      *)
VersionInv ==
  /\ loaded # NULL => \A slug \in DOMAIN loaded.problems : OnDisk(loaded.problems[slug])
  /\ pc # "idle" /\ req.caller = "submission" =>
       /\ loaded # NULL /\ req.slug \in DOMAIN loaded.problems
       /\ Judges(req, loaded.problems[req.slug])
  /\ stored # NULL => \E p : OnDisk(p) /\ Judges(stored, p) /\ stored.version = p.version

LEMMA StartVersions ==
  ASSUME VersionInv, Start
  PROVE  VersionInv'
<1>1. PICK disk \in Disks :
         loaded' = IF \/ LoadLanguages(disk.languages) = NULL \/ LoadSet(disk.problems) = NULL
                      \/ DOMAIN disk.languages = {}
                   THEN NULL ELSE [languages |-> LoadLanguages(disk.languages),
                                   problems |-> LoadSet(disk.problems)]
  BY DEF Start
<1>2. ASSUME loaded' # NULL, NEW slug \in DOMAIN loaded'.problems
      PROVE  OnDisk(loaded'.problems[slug])
  <2> DEFINE found == {s \in DOMAIN disk.problems : disk.problems[s].manifest # "none"}
  <2>1. LoadSet(disk.problems) # NULL /\ loaded'.problems = LoadSet(disk.problems)
    BY <1>1, <1>2
  <2>2. /\ LoadSet(disk.problems) = [s \in found |-> Load(disk.problems[s])]
        /\ \A s \in found : Load(disk.problems[s]) # NULL
    BY <2>1 DEF LoadSet
  <2>3. slug \in DOMAIN disk.problems /\ loaded'.problems[slug] = Load(disk.problems[slug])
        /\ Load(disk.problems[slug]) # NULL
    BY <1>2, <2>1, <2>2
  <2> QED
    BY <2>3 DEF OnDisk
<1>3. pc' = "idle" /\ stored' = stored
  BY DEF Start, call
<1> QED
  BY <1>2, <1>3 DEF VersionInv

LEMMA VersionInvStep == VersionInv /\ [Next]_vars => VersionInv'
<1> SUFFICES ASSUME VersionInv, [Next]_vars PROVE VersionInv'
  OBVIOUS
(* A step that ends a call or keeps it.                                     *)
<1>1. ASSUME loaded' = loaded, stored' = stored, pc' = "idle" \/ (pc # "idle" /\ req' = req)
      PROVE  VersionInv'
  BY <1>1 DEF VersionInv, Judges
(* A call that is no submission.                                            *)
<1>2. ASSUME loaded' = loaded, stored' = stored, req'.caller # "submission"
      PROVE  VersionInv'
  BY <1>2 DEF VersionInv
<1>3. ASSUME UNCHANGED vars PROVE VersionInv'
  BY <1>3 DEF VersionInv, Judges, vars, call
<1>4. ASSUME JudgeStep PROVE VersionInv'
  <2>1. loaded' = loaded /\ stored' = stored /\ pc # "idle" /\ req' = req
    BY <1>4 DEF JudgeStep, Refuse, Enter, Conclude, Compile, RunTest, Return
  <2> QED
    BY <2>1, <1>1
<1>5. ASSUME ServerStep PROVE VersionInv'
  <2>1. CASE Start
    BY <2>1, StartVersions
  <2>2. CASE Finish
    <3>1. /\ pc # "idle" /\ req.caller = "submission" /\ pc' = "idle" /\ loaded' = loaded
          /\ stored' = IF reply \in Errors THEN NULL
                       ELSE [slug |-> req.slug, tests |-> req.tests, memory |-> req.memory,
                             comparer |-> req.comparer,
                             version |-> loaded.problems[req.slug].version]
      BY <2>2 DEF Finish, Done
    <3> DEFINE p == loaded.problems[req.slug]
    <3>2. OnDisk(p) /\ Judges(req, p) /\ loaded # NULL
      BY <3>1 DEF VersionInv
    <3>3. stored' # NULL => Judges(stored', p) /\ stored'.version = p.version
      BY <3>1, <3>2 DEF Judges
    <3>4. stored' # NULL => \E q : OnDisk(q) /\ Judges(stored', q) /\ stored'.version = q.version
      BY <3>2, <3>3, Zenon
    <3> QED
      BY <3>1, <3>4 DEF VersionInv
  <2>3. CASE Complete
    <3>1. loaded' = loaded /\ stored' = stored /\ pc' = "idle"
      BY <2>3 DEF Complete, Done
    <3> QED
      BY <3>1, <1>1
  <2>4. ASSUME loaded # NULL, NEW slug \in DOMAIN loaded.problems, NEW id, Submission(slug, id)
        PROVE  VersionInv'
    <3> DEFINE p == loaded.problems[slug]
    <3>1. /\ loaded' = loaded /\ stored' = NULL /\ req'.slug = slug
          /\ req'.tests = p.tests /\ req'.memory = p.limits.memory /\ req'.comparer = p.comparer
      BY <2>4 DEF Submission, Begin
    <3> QED
      BY <3>1, <2>4 DEF VersionInv, Judges
  <2>5. ASSUME NEW slug, NEW id, NEW stdin, Run(slug, id, stdin) PROVE VersionInv'
    <3>1. loaded' = loaded /\ stored' = stored /\ req'.caller = "run"
      BY <2>5 DEF Run, Begin
    <3> QED
      BY <3>1, <1>2
  <2> QED
    BY <1>5, <2>1, <2>2, <2>3, <2>4, <2>5 DEF ServerStep
<1>6. ASSUME CliStep PROVE VersionInv'
  <2>1. ASSUME NEW c, NEW id, NEW stop, CliJudge(c, id, stop) PROVE VersionInv'
    <3>1. loaded' = loaded /\ stored' = stored /\ req'.caller = "cli"
      BY <2>1 DEF CliJudge, Begin, RequestOfCli
    <3> QED
      BY <3>1, <1>2
  <2>2. CASE CheckRun
    <3>1. loaded' = loaded /\ stored' = stored /\ req'.caller = "cli"
      BY <2>2 DEF CheckRun, Begin, RequestOfCli
    <3> QED
      BY <3>1, <1>2
  <2>3. CASE CliJudged \/ CheckTally
    <3>1. loaded' = loaded /\ stored' = stored /\ pc' = "idle"
      BY <2>3 DEF CliJudged, CheckTally, Done
    <3> QED
      BY <3>1, <1>1
  <2>4. CASE CheckStart \/ CheckLoad \/ CheckSkip \/ CheckNext \/ CheckEnd \/ CheckExit
    <3>1. loaded' = loaded /\ stored' = stored /\ UNCHANGED call
      BY <2>4 DEF CheckStart, CheckLoad, CheckSkip, CheckNext, CheckEnd, CheckExit
    <3>2. pc' = pc /\ req' = req
      BY <3>1 DEF call
    <3> QED
      BY <3>1, <3>2 DEF VersionInv, Judges
  <2> QED
    BY <1>6, <2>1, <2>2, <2>3, <2>4 DEF CliStep
<1> QED
  BY <1>3, <1>4, <1>5, <1>6 DEF Next

(* File systems allow no NUL in a name, and no input of a problem starts    *)
(* with one: the length of a name is not hashed, so such an input could be  *)
(* read as the rest of a longer name and what follows it.                   *)
UnambiguousDisks ==
  \A disk \in Disks : \A slug \in DOMAIN disk.problems : UnambiguousTests(disk.problems[slug])

(* A stored version stands for the tests, limits and comparer that were     *)
(* used: no two problems of any disks are hashed from the same bytes.       *)
THEOREM VersionsName ==
  ASSUME UnambiguousDisks
  PROVE  Spec => []VersionNamesTests
<1>1. Init => VersionInv
  BY DEF Init, VersionInv
<1>2. VersionInv => VersionNamesTests
  <2> SUFFICES ASSUME VersionInv, stored # NULL, loaded # NULL,
                      stored.slug \in DOMAIN loaded.problems,
                      stored.version = loaded.problems[stored.slug].version
               PROVE  Judges(stored, loaded.problems[stored.slug])
    BY DEF VersionNamesTests, Judges
  <2> DEFINE p == loaded.problems[stored.slug]
  <2>1. PICK q : OnDisk(q) /\ Judges(stored, q) /\ stored.version = q.version
    BY DEF VersionInv
  <2>2. OnDisk(p)
    BY DEF VersionInv
  <2>3. PICK d : IsDirectory(d) /\ UnambiguousTests(d) /\ Load(d) # NULL /\ p = Load(d)
    BY <2>2, InputsAssumption DEF OnDisk, UnambiguousDisks
  <2>4. PICK e : IsDirectory(e) /\ UnambiguousTests(e) /\ Load(e) # NULL /\ q = Load(e)
    BY <2>1, InputsAssumption DEF OnDisk, UnambiguousDisks
  <2>5. /\ p.tests = TestCases(d) /\ p.limits = d.limits /\ p.comparer = d.comparer
        /\ p.version = Version(d)
    BY <2>3, LoadedProblem
  <2>6. /\ q.tests = TestCases(e) /\ q.limits = e.limits /\ q.comparer = e.comparer
        /\ q.version = Version(e)
    BY <2>4, LoadedProblem
  <2>7. TestCases(d) = TestCases(e) /\ d.limits = e.limits /\ d.comparer = e.comparer
    <3>1. Version(d) = Version(e)
      BY <2>1, <2>5, <2>6, Zenon
    <3> QED
      BY ONLY <2>3, <2>4, <3>1, VersionIsInjective
  <2> QED
    BY <2>1, <2>5, <2>6, <2>7 DEF Judges
<1> QED
  BY <1>1, <1>2, VersionInvStep, PTL DEF Spec
-----------------------------------------------------------------------------
(* What VerdictIsEarned says of one test: accepted, or not, by x.            *)
Earned(x, test, memory, comparer, accepted) ==
  /\ accepted => EndedWell(x, memory, StdoutBytes)
  /\ EndedWell(x, memory, StdoutBytes) =>
       IF test.expected = NULL THEN accepted
       ELSE JudgesRight(comparer, test.expected, FlattenSeq(x.chunks), accepted)

(* exec() says Ok exactly when the program ended well, and then the whole    *)
(* output was kept.                                                          *)
LEMMA ExecIsOk ==
  ASSUME NEW x \in Compilations \cup Executions, NEW memory \in Int, NEW bytes \in Nat,
         NEW out, out = Exec(x, [memory |-> memory, stdout |-> bytes], UseCgroups),
         out.status # "Err"
  PROVE  /\ ~Broken(x)
         /\ FlattenSeq(x.chunks) \in Text
         /\ out.status = "Ok" <=> EndedWell(x, memory, bytes)
         /\ out.status = "Ok" => out.stdout = FlattenSeq(x.chunks)
<1> DEFINE whole == FlattenSeq(x.chunks)
           pipe  == ReadCapped(x.chunks, bytes)
           clean == EndedWell(x, memory, bytes)
<1>1. /\ whole \in Text /\ Len(whole) \in Nat
      /\ pipe.truncated <=> Len(whole) > bytes
      /\ ~pipe.truncated => pipe.kept = whole
  <2>1. x.chunks \in Seq(Text)
    BY LimitsAssumption
  <2> QED
    BY <2>1, ReadCappedIs
<1>2. out.status = Interpret(x, memory, UseCgroups, pipe.truncated) /\ out.stdout = pipe.kept
  BY DEF Exec
<1>3. ~Broken(x)
  BY <1>2 DEF Interpret
<1>4. Memory(x.meta) \in Int
  <2>1. x.meta # NULL
    BY <1>3 DEF Broken
  <2>2. x.meta.max_rss \in Nat \cup {NULL} /\ x.meta.cg_mem \in Nat \cup {NULL}
    BY <2>1, LimitsAssumption
  <2> QED
    BY <2>2 DEF Memory
<1> HIDE DEF pipe, whole
<1>5. out.status = "Ok" <=> clean
  <2>1. clean <=> /\ x.meta.status = NULL /\ ~x.meta.oom_killed
                  /\ ~(Memory(x.meta) > memory) /\ ~pipe.truncated
    <3>1. Len(whole) <= bytes <=> ~pipe.truncated
      BY <1>1
    <3> QED
      BY <1>4, <3>1 DEF EndedWell, whole
  <2>2. CASE x.meta.status = NULL
    <3>1. NULL # "TO" /\ NULL # "SG" /\ NULL # "RE"
      BY NullIsNoExit
    <3>2. OverMemory(x.meta, memory, UseCgroups) <=> x.meta.oom_killed \/ Memory(x.meta) > memory
      BY <2>2 DEF OverMemory
    <3>3. out.status = IF OverMemory(x.meta, memory, UseCgroups) THEN "MemoryLimit"
                       ELSE IF pipe.truncated THEN "OutputLimit" ELSE "Ok"
      BY <1>2, <1>3, <2>2, <3>1 DEF Interpret
    <3> QED
      BY <2>1, <2>2, <3>2, <3>3
  <2>3. CASE x.meta.status # NULL
    <3>1. out.status # "Ok"
      BY <1>2, <1>3, <2>3 DEF Interpret
    <3> QED
      BY <2>1, <2>3, <3>1
  <2> QED
    BY <2>2, <2>3
<1>6. clean => out.stdout = whole
  BY <1>1, <1>2 DEF EndedWell, whole
<1> QED
  BY <1>1, <1>3, <1>5, <1>6 DEF whole

(* classify() of exec() earns its verdict, and says nothing if isolate failed. *)
LEMMA ExecEarns ==
  ASSUME NEW x \in Executions, NEW test \in TestCase, NEW memory \in Int,
         NEW comparer, comparer.kind \in {"lines", "tokens", "float"},
         NEW out, out = Exec(x, [memory |-> memory, stdout |-> StdoutBytes], UseCgroups),
         out.status # "Err"
  PROVE  ~Broken(x) /\ Earned(x, test, memory, comparer, Classify(out, test, comparer) = "AC")
<1> DEFINE whole == FlattenSeq(x.chunks)
           clean == EndedWell(x, memory, StdoutBytes)
           verdict == Classify(out, test, comparer)
<1>1. /\ ~Broken(x) /\ whole \in Text
      /\ out.status = "Ok" <=> clean
      /\ out.status = "Ok" => out.stdout = whole
  BY LimitsAssumption, ExecIsOk
<1> HIDE DEF whole, clean
<1>2. verdict = "AC" <=> out.status = "Ok" /\ (test.expected = NULL \/ Matches(comparer, test.expected, out.stdout))
  <2>1. out.status \in Statuses
    BY ExecStatus
  <2>2. CASE out.status = "Ok"
    BY <2>2 DEF Classify
  <2>3. CASE out.status # "Ok"
    <3>1. verdict \in {"RE", "TLE", "MLE", "OLE"}
      BY <2>1, <2>3 DEF Classify, Statuses
    <3> QED
      BY <2>3, <3>1
  <2> QED
    BY <2>2, <2>3
<1>3. ASSUME clean, test.expected # NULL
      PROVE  JudgesRight(comparer, test.expected, whole, verdict = "AC")
  <2>1. test.expected \in Text
    BY <1>3 DEF TestCase
  <2>2. (verdict = "AC") <=> Matches(comparer, test.expected, whole)
    BY <1>1, <1>2, <1>3
  <2>3. \A a \in BOOLEAN : (a <=> Matches(comparer, test.expected, whole))
                              => JudgesRight(comparer, test.expected, whole, a)
    BY <1>1, <2>1, ComparersJudgeRight
  <2> DEFINE accepts == verdict = "AC"
  <2>4. accepts \in BOOLEAN /\ (accepts <=> Matches(comparer, test.expected, whole))
    BY <2>2
  <2> HIDE DEF accepts
  <2>5. JudgesRight(comparer, test.expected, whole, accepts)
    BY <2>3, <2>4
  <2> QED
    BY <2>5 DEF accepts
<1> QED
  BY <1>1, <1>2, <1>3 DEF Earned, whole, clean

(* Results are earned by the executions at the end of ran: a compiler ran    *)
(* before them, or none; and an error comes only with a broken execution.    *)
EarnedInv ==
  /\ ran \in Seq(Compilations \cup Executions) /\ Len(results) <= Len(ran)
  /\ pc # "returned" \/ reply \notin Errors =>
       /\ \A i \in 1 .. Len(ran) : ~Broken(ran[i])
       /\ \A i \in 1 .. Len(results) :
             Earned(ran[Len(ran) - Len(results) + i], req.tests[i], req.memory, req.comparer,
                    results[i].verdict = "AC")

LEMMA EarnedEmpty ==
  ASSUME ran' = <<>>, results' = <<>>
  PROVE  EarnedInv'
<1>1. <<>> \in Seq(Compilations \cup Executions) /\ Len(<<>>) = 0
  BY EmptySeq
<1>2. ran' \in Seq(Compilations \cup Executions) /\ Len(ran') = 0 /\ Len(results') = 0
  BY <1>1
<1> QED
  BY <1>2 DEF EarnedInv

LEMMA EarnedInitially == Init => EarnedInv
<1> SUFFICES ASSUME Init PROVE EarnedInv
  OBVIOUS
<1>1. <<>> \in Seq(Compilations \cup Executions) /\ Len(<<>>) = 0
  BY EmptySeq
<1>2. ran \in Seq(Compilations \cup Executions) /\ Len(ran) = 0 /\ Len(results) = 0
  BY <1>1 DEF Init
<1> QED
  BY <1>2 DEF EarnedInv

LEMMA CompileEarns ==
  ASSUME JInv, EarnedInv, NEW x \in Compilations, Compile(x)
  PROVE  EarnedInv'
<1>1. ran = <<>> /\ results = <<>> /\ results' = results /\ ran' = Append(ran, x)
  BY DEF JInv, CallOK, Phases, Compile
<1>2. <<>> \in Seq(Compilations \cup Executions) /\ Len(<<>>) = 0
  BY EmptySeq
<1>3. /\ ran' \in Seq(Compilations \cup Executions) /\ Len(ran') = 1 /\ ran'[1] = x
      /\ Len(results') = 0
  BY <1>1, <1>2, AppendProperties
<1>4. ASSUME pc' # "returned" \/ reply' \notin Errors PROVE ~Broken(x)
  <2> DEFINE out == Exec(x, CompileLimits, UseCgroups)
  <2>1. out.status # "Err"
    <3>1. CASE out.status = "Ok"
      BY <3>1
    <3>2. CASE out.status # "Ok"
      BY <3>2, <1>4 DEF Compile, Return, Errors
    <3> QED
      BY <3>1, <3>2
  <2>2. out.status = Interpret(x, CompileMemory, UseCgroups, ReadCapped(x.chunks, CompileBytes).truncated)
    BY DEF Exec, CompileLimits
  <2> HIDE DEF out
  <2> QED
    BY <2>1, <2>2 DEF Interpret
<1>5. \A i \in 1 .. Len(ran') : i = 1
  BY <1>3
<1> QED
  BY <1>3, <1>4, <1>5 DEF EarnedInv

LEMMA RunTestEarns ==
  ASSUME JInv, EarnedInv, NEW x \in Executions, RunTest(x)
  PROVE  EarnedInv'
<1> DEFINE n    == Len(results)
           m    == Len(ran)
           test == req.tests[n + 1]
           out  == Exec(x, RunLimits, UseCgroups)
           verdict == Classify(out, test, req.comparer)
           first == verdict # "AC" /\ failed_test = NULL
           E == Compilations \cup Executions
<1>1. /\ pc = "tests" /\ n < Len(req.tests) /\ IsRequest(req)
      /\ results \in Seq(TestResults)
      /\ ran \in Seq(E) /\ n <= m
  BY DEF RunTest, JInv, CallOK, Phases, Results, EarnedInv
<1>2. n \in Nat /\ m \in Nat /\ n + 1 \in 1 .. Len(req.tests) /\ test \in TestCase
  <2>1. n \in Nat /\ m \in Nat /\ Len(req.tests) \in Nat
    BY <1>1, LenProperties DEF IsRequest
  <2>2. n + 1 \in 1 .. Len(req.tests)
    BY <1>1, <2>1
  <2> QED
    BY <1>1, <2>1, <2>2, ElementOfSeq DEF IsRequest
<1>3. ran' = Append(ran, x)
  BY DEF RunTest
<1>4. /\ ran' \in Seq(E) /\ Len(ran') = m + 1 /\ ran'[m + 1] = x
      /\ \A i \in 1 .. m : ran'[i] = ran[i]
  BY <1>1, <1>3, AppendProperties
<1>5. CASE out.status = "Err"
  <2>1. pc' = "returned" /\ reply' \in Errors /\ results' = results
    BY <1>5 DEF RunTest, Return, Errors
  <2> QED
    BY <1>1, <1>2, <1>4, <2>1 DEF EarnedInv
<1>6. CASE out.status # "Err"
  <2> DEFINE result == TestResult(test, verdict, first, out.stderr)
             R      == TestResults \cup {result}
  <2>1. results' = Append(results, result) /\ req' = req /\ pc' # "returned"
    BY <1>6 DEF RunTest, Return
  <2>2. result.verdict = verdict
    BY DEF TestResult
  <2>3. ~Broken(x) /\ Earned(x, test, req.memory, req.comparer, verdict = "AC")
    <3>1. out = Exec(x, [memory |-> req.memory, stdout |-> StdoutBytes], UseCgroups)
      BY DEF RunLimits
    <3>2. req.memory \in Int /\ req.comparer.kind \in {"lines", "tokens", "float"}
      BY <1>1 DEF IsRequest
    <3> HIDE DEF out, test
    <3> QED
      BY <1>2, <1>6, <3>1, <3>2, ExecEarns
  <2> HIDE DEF out, test, verdict, first, result
  <2>4. results \in Seq(R) /\ result \in R
    BY <1>1, SeqMonotonic
  <2> HIDE DEF R
  <2>5. /\ Len(results') = n + 1 /\ results'[n + 1] = result
        /\ \A i \in 1 .. n : results'[i] = results[i]
    BY <2>1, <2>4, AppendProperties
  <2>6. /\ \A i \in 1 .. m : ~Broken(ran[i])
        /\ \A i \in 1 .. n : Earned(ran[m - n + i], req.tests[i], req.memory, req.comparer,
                                   results[i].verdict = "AC")
    BY <1>1 DEF EarnedInv
  <2> HIDE DEF n, m, E
  <2>7. ASSUME NEW i \in 1 .. m + 1 PROVE ~Broken(ran'[i])
    <3>1. i \in 1 .. m \/ i = m + 1
      BY <1>2
    <3> QED
      BY <3>1, <1>4, <2>3, <2>6
  <2>8. ASSUME NEW i \in 1 .. n + 1
        PROVE  Earned(ran'[(m + 1) - (n + 1) + i], req.tests[i], req.memory, req.comparer,
                      results'[i].verdict = "AC")
    <3>1. CASE i \in 1 .. n
      <4>1. (m + 1) - (n + 1) + i = m - n + i /\ m - n + i \in 1 .. m
        BY <3>1, <1>1, <1>2
      <4>2. ran'[(m + 1) - (n + 1) + i] = ran[m - n + i] /\ results'[i] = results[i]
        BY <3>1, <4>1, <1>4, <2>5
      <4> QED
        BY <3>1, <4>2, <2>6
    <3>2. CASE i = n + 1
      <4>1. (m + 1) - (n + 1) + i = m + 1
        BY <3>2, <1>2
      <4>2. ran'[(m + 1) - (n + 1) + i] = x /\ results'[i] = result
        BY <3>2, <4>1, <1>4, <2>5
      <4>3. req.tests[i] = test
        BY <3>2 DEF test, n
      <4> QED
        BY <4>2, <4>3, <2>2, <2>3
    <3> QED
      BY <3>1, <3>2, <1>2
  <2>9. n + 1 <= m + 1
    BY <1>1, <1>2
  <2> QED
    BY <1>4, <2>1, <2>5, <2>7, <2>8, <2>9 DEF EarnedInv, E
<1> QED
  BY <1>5, <1>6

(* One step per action.                                                     *)
LEMMA EarnedInvStep == JInv /\ EarnedInv /\ [Next]_vars => EarnedInv'
<1> SUFFICES ASSUME JInv, EarnedInv, [Next]_vars PROVE EarnedInv'
  OBVIOUS
<1>1. ASSUME UNCHANGED call PROVE EarnedInv'
  BY <1>1 DEF EarnedInv, call
<1>2. ASSUME NEW r, Begin(r) PROVE EarnedInv'
  <2>1. ran = <<>> /\ results = <<>> /\ ran' = ran /\ results' = results
    BY <1>2 DEF Begin, JInv, CallOK, Phases, Fresh
  <2> QED
    BY <2>1, EarnedEmpty
<1>3. ASSUME Done PROVE EarnedInv'
  BY <1>3, EarnedEmpty DEF Done
<1>4. CASE JudgeStep
  <2>1. CASE Refuse
    <3>1. reply' \in Errors /\ pc' = "returned" /\ UNCHANGED <<req, ran, results>>
      BY <2>1 DEF Refuse, Return, Errors, Locals
    <3> QED
      BY <3>1 DEF EarnedInv
  <2>2. CASE Enter \/ Conclude
    <3>1. pc # "returned" /\ UNCHANGED <<req, ran, results>>
      BY <2>2 DEF Enter, Conclude, Return, Locals
    <3> QED
      BY <3>1 DEF EarnedInv
  <2> QED
    BY <1>4, <2>1, <2>2, CompileEarns, RunTestEarns DEF JudgeStep
<1>5. CASE UNCHANGED vars
  BY <1>1, <1>5 DEF vars
<1>6. CASE ServerStep
  BY <1>1, <1>2, <1>3, <1>6 DEF ServerStep, Start, Submission, Finish, Run, Complete
<1>7. CASE CliStep
  BY <1>1, <1>2, <1>3, <1>7
     DEF CliStep, CliJudge, CliJudged, CheckStart, CheckLoad, CheckSkip, CheckRun, CheckTally,
         CheckNext, CheckEnd, CheckExit
<1> QED
  BY <1>4, <1>5, <1>6, <1>7 DEF Next

(* A test is accepted exactly when its program ended well, within its memory *)
(* limit and with all of an output that the comparer has to accept; and no   *)
(* verdict is based on an execution that isolate failed.                     *)
THEOREM VerdictsEarned == Spec => []VerdictIsEarned
<1>1. JInv /\ EarnedInv => VerdictIsEarned
  <2> SUFFICES ASSUME JInv, EarnedInv, pc # "returned" \/ reply \notin Errors
               PROVE  /\ \A i \in DOMAIN results :
                            Earned(ran[Len(ran) - Len(results) + i], req.tests[i], req.memory,
                                   req.comparer, results[i].verdict = "AC")
                      /\ \A i \in DOMAIN ran : ~Broken(ran[i])
    BY DEF VerdictIsEarned, Earned
  <2>1. DOMAIN results = 1 .. Len(results)
    BY LenProperties DEF JInv, CallOK, Results
  <2>2. DOMAIN ran = 1 .. Len(ran)
    BY LenProperties DEF EarnedInv
  <2> QED
    BY <2>1, <2>2 DEF EarnedInv
<1> QED
  BY <1>1, JudgeInvariant, EarnedInitially, EarnedInvStep, PTL DEF Spec

(* Once the compiler has ended well judge() goes on to the tests, and else   *)
(* it returns CE at once.                                                    *)
Compiled == Len(ran) > 0 /\ EndedWell(ran[1], CompileMemory, CompileBytes)

CompileInv ==
  /\ pc \in {"tests", "stopped"} /\ req.language = "compiled" => Compiled
  /\ CompileErrorIsEarned

LEMMA RunTestKeepsCompiled ==
  ASSUME EarnedInv, NEW x, x \in Executions, RunTest(x), Compiled
  PROVE  Compiled'
<1>1. ran \in Seq(Compilations \cup Executions) /\ Len(ran) \in Nat
  BY LenProperties DEF EarnedInv
<1>2. ran' = Append(ran, x)
  BY DEF RunTest
<1>3. Len(ran') = Len(ran) + 1 /\ \A i \in 1 .. Len(ran) : ran'[i] = ran[i]
  BY <1>1, <1>2, AppendProperties
<1>4. Len(ran') > 0 /\ ran'[1] = ran[1]
  BY <1>1, <1>3 DEF Compiled
<1> QED
  BY <1>4 DEF Compiled

LEMMA CompileInvStep == JInv /\ EarnedInv /\ CompileInv /\ [Next]_vars => CompileInv'
<1> SUFFICES ASSUME JInv, EarnedInv, CompileInv, [Next]_vars PROVE CompileInv'
  OBVIOUS
<1>0. Phases
  BY DEF JInv, CallOK
<1>1. ASSUME UNCHANGED call PROVE CompileInv'
  BY <1>1 DEF CompileInv, Compiled, CompileErrorIsEarned, call
<1>2. ASSUME pc' \in {"idle", "called", "compile"} PROVE CompileInv'
  BY <1>2 DEF CompileInv, CompileErrorIsEarned
<1>3. ASSUME NEW r, Begin(r) PROVE CompileInv'
  BY <1>2, <1>3 DEF Begin
<1>4. ASSUME Done PROVE CompileInv'
  BY <1>2, <1>4 DEF Done
<1>5. CASE Refuse
  <2>1. pc' = "returned" /\ reply' \in Errors
    BY <1>5 DEF Refuse, Return, Errors
  <2> QED
    BY <2>1 DEF CompileInv, CompileErrorIsEarned
<1>6. CASE Enter
  <2>1. \/ pc' = "compile"
        \/ pc' = "tests" /\ req' = req /\ req.language # "compiled"
    BY <1>6 DEF Enter
  <2> QED
    BY <1>2, <2>1 DEF CompileInv, CompileErrorIsEarned
<1>7. ASSUME NEW x \in Compilations, Compile(x) PROVE CompileInv'
  <2> DEFINE out == Exec(x, CompileLimits, UseCgroups)
  <2>1. /\ ran' = Append(<<>>, x) /\ req' = req /\ req.language = "compiled"
        /\ \/ out.status = "Ok" /\ pc' = "tests"
           \/ out.status = "Err" /\ pc' = "returned" /\ reply' = "sandbox"
           \/ out.status \notin {"Ok", "Err"} /\ pc' = "returned" /\ reply' = "CE"
    BY <1>0, <1>7 DEF Compile, Return, Phases
  <2>2. Len(ran') = 1 /\ ran'[1] = x
    <3>1. <<>> \in Seq({x}) /\ Len(<<>>) = 0
      BY EmptySeq
    <3> QED
      BY <2>1, <3>1, AppendProperties
  <2>3. out.status # "Err" => (out.status = "Ok" <=> EndedWell(x, CompileMemory, CompileBytes))
    <3>1. out = Exec(x, [memory |-> CompileMemory, stdout |-> CompileBytes], UseCgroups)
      BY DEF CompileLimits
    <3> HIDE DEF out
    <3> QED
      BY <3>1, LimitsAssumption, ExecIsOk
  <2> HIDE DEF out
  <2>4. EndedWell(ran[1], CompileMemory, CompileBytes)' <=> EndedWell(x, CompileMemory, CompileBytes)
    BY <2>2 DEF EndedWell
  <2>5. "CE" \notin Errors /\ "sandbox" \in Errors
    BY DEF Errors
  <2> QED
    BY <2>1, <2>2, <2>3, <2>4, <2>5 DEF CompileInv, Compiled, CompileErrorIsEarned
<1>8. ASSUME NEW x \in Executions, RunTest(x) PROVE CompileInv'
  <2>1. /\ pc = "tests" /\ req' = req
        /\ pc' \in {"tests", "stopped"} \/ (pc' = "returned" /\ reply' \in Errors)
    BY <1>8 DEF RunTest, Return, Errors
  <2> QED
    BY <1>8, <2>1, RunTestKeepsCompiled DEF CompileInv, CompileErrorIsEarned
<1>9. CASE Conclude
  <2>1. /\ pc \in {"tests", "stopped"} /\ pc' = "returned" /\ reply' = FirstFailure(results)
        /\ UNCHANGED <<req, ran>>
    BY <1>9 DEF Conclude, Return, Locals
  <2>2. results \in Seq(TestResults) /\ \A i \in 1 .. Len(results) : results[i] \in TestResults
    BY ElementOfSeq DEF JInv, CallOK, Results
  <2>3. reply' = "AC" \/ \E i \in 1 .. Len(results) : reply' = results[i].verdict
    BY <2>1, <2>2, FirstFailureIs
  <2>4. reply' # "CE"
    BY <2>2, <2>3 DEF TestResults, Verdicts
  <2> QED
    BY <2>1, <2>4 DEF CompileInv, Compiled, CompileErrorIsEarned, EndedWell
<1>10. CASE UNCHANGED vars
  BY <1>1, <1>10 DEF vars
<1>11. CASE ServerStep
  BY <1>1, <1>3, <1>4, <1>11 DEF ServerStep, Start, Submission, Finish, Run, Complete
<1>12. CASE CliStep
  BY <1>1, <1>3, <1>4, <1>12
     DEF CliStep, CliJudge, CliJudged, CheckStart, CheckLoad, CheckSkip, CheckRun, CheckTally,
         CheckNext, CheckEnd, CheckExit
<1> QED
  BY <1>5, <1>6, <1>7, <1>8, <1>9, <1>10, <1>11, <1>12 DEF Next, JudgeStep

(* A compile error means that the compiler failed, ran into a limit or wrote *)
(* more than compile_output_bytes, and each of these is a compile error.     *)
THEOREM CompileErrorsEarned == Spec => []CompileErrorIsEarned
<1>1. Init => EarnedInv /\ CompileInv
  BY EarnedInitially DEF Init, CompileInv, CompileErrorIsEarned
<1>2. CompileInv => CompileErrorIsEarned
  BY DEF CompileInv
<1> QED
  BY <1>1, <1>2, JudgeInvariant, EarnedInvStep, CompileInvStep, PTL DEF Spec
=============================================================================
