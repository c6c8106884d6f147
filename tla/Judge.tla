------------------------------- MODULE Judge -------------------------------
(***************************************************************************)
(* One call of Judge::judge at a time (crates/judge/src/pipeline.rs) with  *)
(* its callers: submissions and runs of the server (server/src/worker.rs,  *)
(* http.rs), and the check-problem command (cli/src/main.rs).  A process   *)
(* loads problems and languages when it starts.                            *)
(*                                                                         *)
(* Calls share nothing but the pool of boxes (SandboxPool), so one at a    *)
(* time is enough.  Left out: messages, times and the length of excerpts.  *)
(***************************************************************************)
EXTENDS Compare, Problems

CONSTANTS
  Disks,         \* what the server may find: [problems, languages]
  Stdins,        \* custom inputs of runs
  Commands,      \* check-problem: [languages, problems], problems a sequence of
                 \* [dir, files], files a sequence of [label, extension]
  Compilations,  \* what isolate may leave behind when it runs a compiler
  Executions,    \* or a program, see Isolate
  UseCgroups,    \* IsolateConfig::use_cgroups
  StdoutBytes,   \* JudgeConfig::stdout_bytes
  CompileBytes,  \* JudgeConfig::compile_output_bytes
  CompileMemory, \* JudgeConfig::compile_memory_kb
  RunMemory      \* DEFAULT_RUN_MEMORY_KB

INSTANCE Isolate

ASSUME InputsAssumption ==
  /\ \A disk \in Disks : \A slug \in DOMAIN disk.problems : IsDirectory(disk.problems[slug])
  /\ \A c \in Commands :
        /\ c.problems \in Seq(Range(c.problems))
        /\ \A p \in Range(c.problems) : IsDirectory(p.dir) /\ p.files \in Seq(Range(p.files))
  /\ Stdins \subseteq Text

(* The limits are numbers, and so is the memory in a meta file.             *)
ASSUME LimitsAssumption ==
  /\ StdoutBytes \in Nat /\ CompileBytes \in Nat
  /\ RunMemory \in Int /\ CompileMemory \in Int
  /\ \A x \in Compilations \cup Executions :
        /\ x.chunks \in Seq(Text) /\ x.stderr \in StderrTexts
        /\ x.meta # NULL => x.meta.max_rss \in Nat \cup {NULL} /\ x.meta.cg_mem \in Nat \cup {NULL}

ASSUME NullIsNoExit == NULL \notin {"ok", "failed", "TO", "SG", "RE"}

Call(n) == INSTANCE JudgeCall WITH Tests <- n

VARIABLES
  loaded,      \* the server's problems and languages, NULL while it is down
  stored,      \* what the last verdict that finish() stored was based on
  check,       \* the check-problem command in progress or ended, or NULL
  pc,          \* where judge() is
  req,         \* its JudgeRequest, and the caller
  ran,         \* its executions in the box so far
  results,
  failed_test,
  sent,        \* its last Progress
  reply        \* what it returned

call == <<pc, req, ran, results, failed_test, sent, reply>>
vars == <<loaded, stored, check, call>>

Nothing   == Call(0)!Nothing
Compiling == Call(0)!Compiling

Init ==
  /\ loaded = NULL /\ stored = NULL /\ check = NULL
  /\ pc = "idle" /\ req = NULL /\ reply = NULL
  /\ ran = <<>> /\ results = <<>> /\ failed_test = NULL /\ sent = Nothing

-----------------------------------------------------------------------------
(* judge() is called with r ...                                             *)
Begin(r) ==
  /\ pc = "idle"
  /\ pc'  = "called"
  /\ req' = r
  /\ UNCHANGED <<ran, results, failed_test, sent, reply>>

(* ... and returns.                                                         *)
Return(outcome) ==
  /\ pc'    = "returned"
  /\ reply' = outcome
  /\ UNCHANGED <<loaded, stored, check, req>>

(* The caller goes on; the locals of judge() are gone.                      *)
Done ==
  /\ pc = "returned"
  /\ pc' = "idle" /\ req' = NULL /\ reply' = NULL
  /\ ran' = <<>> /\ results' = <<>> /\ failed_test' = NULL /\ sent' = Nothing

Errors == {"sandbox", "no language"}
Locals == <<ran, results, failed_test>>

(* The language is not configured, or no box, or the source file cannot be  *)
(* written: nothing was sent yet.                                           *)
Refuse ==
  /\ pc = "called"
  /\ Return(IF req.language = NULL THEN "no language" ELSE "sandbox")
  /\ UNCHANGED <<Locals, sent>>

NoCompiling == 0  \* mutant: Compiling is not sent
Swapped == Len(req.tests)  \* mutant: done and total swapped
FirstProgress == IF req.language = "compiled" THEN Compiling ELSE 0

Enter ==
  /\ pc = "called" /\ req.language # NULL
  /\ pc'   = IF req.language = "compiled" THEN "compile" ELSE "tests"
  /\ sent' = FirstProgress
  /\ UNCHANGED <<loaded, stored, check, req, Locals, reply>>

(* compile_spec and run_spec, without time and what only isolate sees.      *)
LimitsOfRun == [memory |-> CompileMemory, stdout |-> StdoutBytes]  \* mutant: the wrong cap
CompileLimits == [memory |-> CompileMemory, stdout |-> CompileBytes]
RunLimits     == [memory |-> req.memory, stdout |-> StdoutBytes]

(* Any status but Ok is a compile error, OutputLimit too.                   *)
Compile(x) ==
  /\ pc = "compile"
  /\ LET out == Exec(x, CompileLimits, UseCgroups)
     IN  \/ /\ out.status = "Ok"
            /\ pc' = "tests" /\ sent' = 0
            /\ UNCHANGED <<loaded, stored, check, req, reply>>
         \/ /\ out.status # "Ok"
            /\ Return(IF out.status = "Err" THEN "sandbox" ELSE "CE")
            /\ UNCHANGED sent
  /\ ran' = Append(ran, x)
  /\ UNCHANGED <<results, failed_test>>

Classify(out, test, comparer) ==
  CASE out.status = "Ok" ->
         IF test.expected = NULL \/ Matches(comparer, test.expected, out.stdout)
         THEN "AC" ELSE "WA"
    [] out.status \in {"NonZeroExit", "Signaled"}    -> "RE"
    [] out.status \in {"TimeLimit", "WallTimeLimit"} -> "TLE"
    [] out.status = "MemoryLimit"                    -> "MLE"
    [] out.status = "OutputLimit"                    -> "OLE"

ShowsFailures(first_failure) ==  \* mutant: every failing test
  req.capture \/ req.show
ShowsIO(first_failure) == req.capture \/ (first_failure /\ req.show)

StopsNever(first_failure) == FALSE  \* mutant
Stops(first_failure) == first_failure /\ req.stop

ShowsFailedStderr(first_failure, verdict) ==  \* mutant: any failure
  ShowsIO(first_failure) \/ verdict # "AC"
ShowsStderr(first_failure, verdict) == ShowsIO(first_failure) \/ verdict = "RE"

(* What the caller gets to see of a test: shown is for input, expected and  *)
(* stdout; stderr has a guard of its own, and an empty one is NULL.         *)
TestResult(test, verdict, first_failure, stderr) ==
  [name   |-> test.name, verdict |-> verdict, shown |-> ShowsIO(first_failure),
   stderr |-> IF ShowsStderr(first_failure, verdict) THEN stderr ELSE NULL]

(* One round of the loop over the tests.                                    *)
RunTest(x) ==
  /\ pc = "tests" /\ Len(results) < Len(req.tests)
  /\ LET test  == req.tests[Len(results) + 1]
         out   == Exec(x, RunLimits, UseCgroups)
         verdict == Classify(out, test, req.comparer)
         first == verdict # "AC" /\ failed_test = NULL
     IN  \/ /\ out.status = "Err"
            /\ Return("sandbox")
            /\ UNCHANGED <<results, failed_test, sent>>
         \/ /\ out.status # "Err"
            /\ results' = Append(results, TestResult(test, verdict, first, out.stderr))
            /\ failed_test' = IF first THEN test.name ELSE failed_test
            /\ sent' = Len(results')
            /\ pc'   = IF Stops(first) THEN "stopped" ELSE "tests"
            /\ UNCHANGED <<loaded, stored, check, req, reply>>
  /\ ran' = Append(ran, x)

(* results.iter().find(...).unwrap_or(Accepted)                             *)
FirstFailure(rs) ==
  LET i == SelectInSeq(rs, LAMBDA r : r.verdict # "AC")
  IN  IF i = 0 THEN "AC" ELSE rs[i].verdict

Conclude ==
  /\ \/ pc = "stopped"
     \/ pc = "tests" /\ Len(results) = Len(req.tests)
  /\ Return(FirstFailure(results))
  /\ UNCHANGED <<Locals, sent>>

-----------------------------------------------------------------------------
(* The server.                                                              *)

(* main: languages, then problems; the process ends if one of them does not *)
(* load or no language is defined.  A restart may find other files.         *)
Start ==
  /\ pc = "idle" /\ check = NULL
  /\ \E disk \in Disks :
        LET languages == LoadLanguages(disk.languages)
            problems  == LoadSet(disk.problems)
        IN  loaded' = IF languages = NULL \/ problems = NULL \/ DOMAIN disk.languages = {}
                      THEN NULL ELSE [languages |-> languages, problems |-> problems]
  /\ UNCHANGED <<stored, check, call>>

Kind(languages, id) ==
  IF id \notin DOMAIN languages THEN NULL
  ELSE IF languages[id].compile_argv = NULL THEN "interpreted" ELSE "compiled"

(* handle_submission: the problem is there, the language may be gone.       *)
Submission(slug, id) ==
  LET p == loaded.problems[slug]
  IN  /\ Begin([caller |-> "submission", slug |-> slug, language |-> Kind(loaded.languages, id),
                tests |-> p.tests, memory |-> p.limits.memory, comparer |-> p.comparer,
                stop |-> TRUE, capture |-> FALSE, show |-> p.show_failed_input])
      /\ stored' = NULL
      /\ UNCHANGED <<loaded, check>>

(* ... and then finish(), unless judging failed.                            *)
Finish ==
  /\ Done /\ req.caller = "submission"
  /\ stored' = IF reply \in Errors THEN NULL
               ELSE [slug |-> req.slug, tests |-> req.tests, memory |-> req.memory,
                     comparer |-> req.comparer, version |-> loaded.problems[req.slug].version]
  /\ UNCHANGED <<loaded, check>>

Custom(stdin) == <<[name |-> <<>>, input |-> stdin, expected |-> NULL]>>

(* create_run: custom input, the samples of the problem, or empty input.    *)
AllOrCustom(stdin, p) ==  \* mutant: not only the samples
  IF stdin = NULL /\ p # NULL THEN p.tests ELSE Custom(<<>>)

TestsOfRun(stdin, p) ==
  IF stdin # NULL THEN Custom(stdin)
  ELSE IF p # NULL /\ p.samples # {} THEN Samples(p) ELSE Custom(<<>>)

Run(slug, id, stdin) ==
  LET p == IF slug = NULL THEN NULL ELSE loaded.problems[slug]
  IN  /\ Begin([caller |-> "run", slug |-> slug, language |-> Kind(loaded.languages, id),
                tests |-> TestsOfRun(stdin, p),
                memory |-> IF p = NULL THEN RunMemory ELSE p.limits.memory,
                comparer |-> IF p = NULL THEN [kind |-> "lines"] ELSE p.comparer,
                stop |-> FALSE, capture |-> TRUE, show |-> TRUE])
      /\ UNCHANGED <<loaded, stored, check>>

Complete ==
  /\ Done /\ req.caller = "run"
  /\ UNCHANGED <<loaded, stored, check>>

-----------------------------------------------------------------------------
(* The command line, while no server runs: it would share the box ids.      *)

RequestOfCli(dir, languages, id, stop) ==
  LET p == Load(dir)
  IN  [caller |-> "cli", slug |-> NULL, language |-> Kind(languages, id),
       tests |-> p.tests, memory |-> p.limits.memory, comparer |-> p.comparer,
       stop |-> stop, capture |-> FALSE, show |-> TRUE]

(* codexec judge: with a language id that may not exist, or the one of the  *)
(* extension; --all is ~stop.                                               *)
CliJudge(c, id, stop) ==
  LET dir == Head(c.problems).dir
  IN  /\ loaded = NULL /\ check = NULL
      /\ LoadLanguages(c.languages) # NULL /\ Load(dir) # NULL
      /\ Begin(RequestOfCli(dir, c.languages, id, stop))
      /\ UNCHANGED <<loaded, stored, check>>

CliJudged ==
  /\ Done /\ req.caller = "cli" /\ check = NULL
  /\ UNCHANGED <<loaded, stored, check>>

(* codexec check-problem.  failures counts over all problems, accepted over *)
(* the files of one; log is for the properties only.  Reading a file or a   *)
(* directory may fail, and ends the command.                                *)
InCheck == check # NULL /\ check.exit = NULL /\ pc = "idle"
Fail    == check' = [check EXCEPT !.exit = "failed"]

CheckStart ==
  /\ pc = "idle" /\ loaded = NULL /\ check = NULL
  /\ \E c \in Commands :
        check' = [command |-> c, problem |-> 1, file |-> 0, failures |-> 0, accepted |-> 0,
                  log |-> {},
                  exit |-> IF LoadLanguages(c.languages) = NULL \/ c.problems = <<>>
                           THEN "failed" ELSE NULL]
  /\ UNCHANGED <<loaded, stored, call>>

Current == check.command.problems[check.problem]
File    == Current.files[check.file]

KeepAccepted == check.accepted  \* mutant: counted over all problems
NoneAccepted == 0

CheckLoad ==
  /\ InCheck /\ check.file = 0 /\ check.problem <= Len(check.command.problems)
  /\ \/ Fail
     \/ /\ Load(Current.dir) # NULL
        /\ check' = [check EXCEPT !.file = 1, !.accepted = NoneAccepted]
  /\ UNCHANGED <<loaded, stored, call>>

(* A file without a verdict code is passed over; one without a language, or *)
(* that cannot be read, ends the command.                                   *)
CheckSkip ==
  /\ InCheck /\ check.file > 0 /\ check.file <= Len(Current.files)
  /\ \/ File.label = NULL /\ check' = [check EXCEPT !.file = @ + 1]
     \/ File.label # NULL /\ Fail
  /\ UNCHANGED <<loaded, stored, call>>

CheckRun ==
  /\ InCheck /\ check.file > 0 /\ check.file <= Len(Current.files) /\ File.label # NULL
  /\ LET id == LanguageFor(check.command.languages, File.extension)
     IN  /\ id # NULL
         /\ Begin(RequestOfCli(Current.dir, check.command.languages, id, TRUE))
  /\ UNCHANGED <<loaded, stored, check>>

CheckTally ==
  /\ Done /\ req.caller = "cli" /\ check # NULL
  /\ \/ reply \in Errors /\ Fail
     \/ /\ reply \notin Errors
        /\ LET ok == reply = File.label
           IN  check' = [check EXCEPT !.file = @ + 1,
                           !.accepted = @ + (IF ok /\ reply = "AC" THEN 1 ELSE 0),
                           !.failures = @ + (IF ok THEN 0 ELSE 1),
                           !.log = @ \cup {<<check.problem, check.file, reply>>}]
  /\ UNCHANGED <<loaded, stored>>

(* All files of the problem are done: some solution has to be accepted.     *)
CheckNext ==
  /\ InCheck /\ check.file > 0 /\ check.file > Len(Current.files)
  /\ check' = [check EXCEPT !.problem = @ + 1, !.file = 0,
                 !.failures = @ + (IF check.accepted = 0 THEN 1 ELSE 0)]
  /\ UNCHANGED <<loaded, stored, call>>

CheckEnd ==
  /\ InCheck /\ check.problem > Len(check.command.problems)
  /\ check' = [check EXCEPT !.exit = IF check.failures > 0 THEN "failed" ELSE "ok"]
  /\ UNCHANGED <<loaded, stored, call>>

CheckExit ==
  /\ check # NULL /\ check.exit # NULL
  /\ check' = NULL
  /\ UNCHANGED <<loaded, stored, call>>

-----------------------------------------------------------------------------
JudgeStep ==
  \/ Refuse \/ Enter \/ Conclude
  \/ \E x \in Compilations : Compile(x)
  \/ \E x \in Executions : RunTest(x)

(* create_submission and create_run have checked the problem and the        *)
(* language; a submission may be older than this process.                   *)
ServerStep ==
  \/ Start \/ Finish \/ Complete
  \/ /\ loaded # NULL
     /\ \E id \in DOMAIN loaded.languages \cup {0} :
           \/ \E slug \in DOMAIN loaded.problems : Submission(slug, id)
           \/ /\ id # 0
              /\ \E slug \in DOMAIN loaded.problems \cup {NULL}, stdin \in Stdins \cup {NULL} :
                    Run(slug, id, stdin)

CliStep ==
  \/ \E c \in Commands : \E id \in DOMAIN c.languages \cup {0}, stop \in BOOLEAN :
        c.problems # <<>> /\ CliJudge(c, id, stop)
  \/ CliJudged
  \/ CheckStart \/ CheckLoad \/ CheckSkip \/ CheckRun
  \/ CheckTally \/ CheckNext \/ CheckEnd \/ CheckExit

Next == JudgeStep \/ ServerStep \/ CliStep

Spec == Init /\ [][Next]_vars

-----------------------------------------------------------------------------
Verdicts == {"AC", "WA", "RE", "TLE", "MLE", "OLE"}

(* The state of the call and of its callers keeps its shape.                *)
TypeOK ==
  /\ pc \in {"idle", "called", "compile", "tests", "stopped", "returned"}
  /\ reply \in Verdicts \cup {"CE", NULL} \cup Errors
  /\ \A i \in DOMAIN results :
        /\ results[i].verdict \in Verdicts /\ results[i].shown \in BOOLEAN
        /\ results[i].stderr \in StderrTexts
  /\ sent \in {Nothing, Compiling} \cup 0 .. Len(results)
  /\ check # NULL => check.exit \in {NULL, "ok", "failed"} /\ check.failures \in Nat

(* The program ended by itself with exit code 0 within its memory limit, and *)
(* nothing of its output was cut off.                                       *)
EndedWell(x, memory, bytes) ==
  /\ x.meta.status = NULL /\ ~x.meta.oom_killed
  /\ Memory(x.meta) <= memory
  /\ Len(FlattenSeq(x.chunks)) <= bytes

(* A test is accepted exactly when isolate worked, the program ended well   *)
(* and its output has the expected one's skeleton (interpret, read_capped,  *)
(* classify and compare together); and no verdict is based on an execution  *)
(* that isolate failed.                                                     *)
VerdictIsEarned ==
  /\ \A i \in DOMAIN results :
        LET x    == ran[Len(ran) - Len(results) + i]
            test == req.tests[i]
            clean == EndedWell(x, req.memory, StdoutBytes)
            accepted == results[i].verdict = "AC"
        IN  pc # "returned" \/ reply \notin Errors =>
              /\ accepted => clean
              /\ clean => IF test.expected = NULL THEN accepted
                          ELSE JudgesRight(req.comparer, test.expected, FlattenSeq(x.chunks), accepted)
  /\ pc = "returned" /\ reply \notin Errors => \A i \in DOMAIN ran : ~Broken(ran[i])

(* The verdict of a call is that of its first failing test, which it names; *)
(* a submission runs no test after it, a run or --all runs every test, and  *)
(* only a compile error comes without results.                              *)
VerdictIsFirstFailure ==
  pc = "returned" /\ reply \notin Errors =>
    \/ reply = "CE" /\ results = <<>> /\ Len(ran) = 1
    \/ /\ reply = "AC" /\ failed_test = NULL /\ Len(results) = Len(req.tests)
       /\ \A i \in DOMAIN results : results[i].verdict = "AC"
    \/ \E i \in DOMAIN results :
          /\ reply = results[i].verdict /\ reply # "AC" /\ failed_test = req.tests[i].name
          /\ \A j \in 1 .. i - 1 : results[j].verdict = "AC"
          /\ Len(results) = IF req.stop THEN i ELSE Len(req.tests)

(* A client of the server may know the input of test i: it is the client's  *)
(* own or a sample, or the test is the first failing one of a problem with  *)
(* show_failed_input.  Any other test is hidden.                            *)
MayKnow(i) ==
  \/ req.tests[i].expected = NULL
  \/ req.tests[i].name \in loaded.problems[req.slug].samples
  \/ loaded.problems[req.slug].show_failed_input /\ req.tests[i].name = failed_test

(* Of a hidden test a client sees no input, expected output or stdout, and  *)
(* the stderr only if the test is the first to fail and a runtime error     *)
(* (show_io, the guard of stderr and stop_on_first_failure together).       *)
HiddenShowsOnlyStderr ==
  loaded # NULL =>
    \A i \in DOMAIN results :
       \/ MayKnow(i)
       \/ /\ ~results[i].shown
          /\ results[i].stderr # NULL =>
               results[i].verdict = "RE" /\ req.tests[i].name = failed_test

(* The input of a hidden test does not come back in any field of a result   *)
(* (README.md: "The failing test's input is returned only if the problem    *)
(* sets `show_failed_input = true`").                                       *)
HiddenInputIsKept ==
  loaded # NULL =>
    \A i \in DOMAIN results :
       results[i].shown \/ results[i].stderr = "input" => MayKnow(i)

(* A stored version names what was judged: while the problem on disk has    *)
(* that version, it has the same tests, limits and comparer (Problem's      *)
(* "Content hash of limits + comparer + tests").                            *)
VersionNamesTests ==
  stored # NULL /\ loaded # NULL /\ stored.slug \in DOMAIN loaded.problems =>
    LET p == loaded.problems[stored.slug]
    IN  stored.version = p.version =>
          <<stored.tests, stored.memory, stored.comparer>> = <<p.tests, p.limits.memory, p.comparer>>

(* check-problem succeeds only if every problem loads, every labelled file  *)
(* got the verdict of its label, and each problem has an accepted solution. *)
CheckMeansChecked ==
  check # NULL /\ check.exit = "ok" =>
    \A i \in DOMAIN check.command.problems :
       LET p == check.command.problems[i]
       IN  /\ Load(p.dir) # NULL
           /\ \A f \in DOMAIN p.files :
                 p.files[f].label # NULL => <<i, f, p.files[f].label>> \in check.log
           /\ \E f \in DOMAIN p.files : <<i, f, "AC">> \in check.log

(* The next message of a call, and its end.                                 *)
CallStep ==
  LET n == Len(req.tests)
      outcome == IF reply' \in Verdicts \ {"AC"} THEN "WA" ELSE reply'
  IN  /\ pc # "idle" /\ sent' # sent /\ pc' # "idle" => sent' = Call(n)!NextProgress(req.language, sent)
      /\ pc # "returned" /\ pc' = "returned" => outcome \in Call(n)!Outcomes(req.language, sent)

(* The call behaves as Workers takes it to: its progress messages come in   *)
(* the order of NextProgress and its outcome is one of Outcomes, where any  *)
(* failing verdict stands for "WA".                                         *)
ImplementsCall == [][CallStep]_vars

(* A verdict is CE exactly when the compiler did not end well: it failed,   *)
(* ran into a limit of time or memory, or wrote more than                   *)
(* compile_output_bytes (compile_spec takes them for the output limit, so   *)
(* that warnings may be too many although the program is there).            *)
CompileErrorIsEarned ==
  pc = "returned" /\ reply \notin Errors =>
    (reply = "CE" <=> /\ req.language = "compiled"
                      /\ ~EndedWell(ran[1], CompileMemory, CompileBytes))
=============================================================================
