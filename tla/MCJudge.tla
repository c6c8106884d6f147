------------------------------ MODULE MCJudge ------------------------------
(* Small instances of Judge.  Bytes: 49 is "1", 50 is "2".                  *)
EXTENDS Judge

One == <<49>>
Two == <<50>>

(* A problem directory, and ways it differs from this one.                  *)
Plain == [slug_ok |-> TRUE, manifest |-> "ok", samples |-> {}, show_failed_input |-> FALSE,
          limits |-> [time |-> 1, memory |-> 10], comparer |-> [kind |-> "lines"],
          tests |-> One :> [in |-> One, out |-> <<49, LF>>]]
TwoTests == [Plain EXCEPT !.tests = Plain.tests @@ Two :> [in |-> Two, out |-> Two],
                          !.samples = {One}]

Good == {Plain,
         TwoTests,
         [TwoTests EXCEPT !.show_failed_input = TRUE, !.comparer = [kind |-> "tokens"]],
         [Plain EXCEPT !.comparer = [kind |-> "float", eps |-> <<1, 2>>]],
         [Plain EXCEPT !.comparer = [kind |-> "tokens"], !.tests[One].out = <<48>>],
         [Plain EXCEPT !.tests = One :> [in |-> <<49, 49>>, out |-> <<LF>>]]}
Bad  == {[Plain EXCEPT !.slug_ok = FALSE],
         [Plain EXCEPT !.manifest = "bad"],
         [Plain EXCEPT !.tests = <<>>],
         [Plain EXCEPT !.tests = One :> [in |-> One, out |-> NULL]],
         [Plain EXCEPT !.samples = {Two}],
         [Plain EXCEPT !.limits.memory = 0]}

C  == [source_file_ok |-> TRUE, run_argv |-> <<"run">>, compile_argv |-> <<"cc">>,
       time_multiplier |-> 1, extension |-> "c"]
Py == [C EXCEPT !.compile_argv = NULL, !.extension = "py"]
Both == 1 :> C @@ 2 :> Py

BadTables == {1 :> [C EXCEPT !.source_file_ok = FALSE], 1 :> [C EXCEPT !.run_argv = <<>>],
              1 :> [C EXCEPT !.compile_argv = <<>>], 1 :> [C EXCEPT !.time_multiplier = 0]}

(* "b" has no manifest: it is passed over.                                  *)
Disk(dir, table) == [problems  |-> "a" :> dir @@ "b" :> [Plain EXCEPT !.manifest = "none"],
                     languages |-> table]

MCDisks == {Disk(dir, Both) : dir \in Good \cup Bad}
      \cup {Disk(Plain, table) : table \in BadTables \cup {<<>>, 2 :> Py}}

MCStdins == {Two}

Ac == [label |-> "AC", extension |-> "py"]
Wa == [label |-> "WA", extension |-> "c"]
Checked(dir, files) == [dir |-> dir, files |-> files]
Skipped == [label |-> NULL, extension |-> "md"]
Command(table, problems) == [languages |-> table, problems |-> problems]

MCCommands ==
  {Command(Both, <<>>),
   Command(Both, <<Checked(Plain, <<Ac, Skipped, Wa>>), Checked(TwoTests, <<Skipped, Wa>>)>>),
   Command(Both, <<Checked(Plain, <<>>), Checked(Plain, <<Ac>>)>>),
   Command(Both, <<Checked(Plain, <<Ac>>), Checked(TwoTests, <<Ac>>)>>),
   Command(2 :> Py, <<Checked(Plain, <<Ac, Wa>>)>>)}
    \cup {Command(Both, <<Checked(dir, <<Ac>>)>>) : dir \in Bad}
    \cup {Command(table, <<Checked(Plain, <<Ac>>)>>) : table \in BadTables}

Clean(rss, cg) == [status |-> NULL, wall |-> FALSE, oom_killed |-> FALSE,
                   max_rss |-> rss, cg_mem |-> cg]
Failed(status) == [Clean(8, NULL) EXCEPT !.status = status]
Execution(exit, meta, chunks) ==
  [exit |-> exit, meta |-> meta, chunks |-> chunks, stderr |-> NULL]
Saying(text, x) == [x EXCEPT !.stderr = text]

Outputs == {<<>>, <<One>>, <<Two>>, <<<<49, LF>>>>, <<One, <<SP, SP>>>>, <<<<49, LF, LF>>>>,
            <<<<LF, 49>>>>, <<<<49, FF>>>>, <<<<49, LF, LF>>, One>>, <<<<49, LF>>, <<LF, LF>>>>,
            <<<<48, 48>>>>}

(* Succeeds silently, talks too much, fails, runs out of memory, is broken. *)
MCCompilations ==
  {Execution(0, Clean(8, NULL), <<>>), Execution(0, Clean(8, NULL), <<<<49, 49, LF>>>>),
   Execution(1, Failed("RE"), <<One>>), Execution(1, Clean(11, NULL), <<>>),
   Execution(0, NULL, <<>>)}

MCExecutions ==
       {Execution(0, Clean(8, NULL), chunks) : chunks \in Outputs}
  \cup {Execution(0, meta, <<One>>) :
          meta \in {Clean(10, 12), Clean(11, NULL), Clean(NULL, 11), Clean(NULL, NULL),
                    [Clean(8, NULL) EXCEPT !.oom_killed = TRUE]}}
  \cup {Execution(1, meta, <<One>>) :
          meta \in {Failed("SG"), Failed("RE"), Failed("TO"), Failed("XX"), Failed("??"),
                    [Failed("TO") EXCEPT !.wall = TRUE], [Failed("SG") EXCEPT !.max_rss = 9]}}
  \cup {Execution(0, NULL, <<One>>), Execution(2, Clean(8, NULL), <<One>>)}
  \cup {Saying("words", Execution(1, Failed("RE"), <<>>)),
        Saying("input", Execution(1, Failed("RE"), <<>>)),
        Saying("input", Execution(1, Failed("TO"), <<>>)),
        Saying("input", Execution(0, Clean(8, NULL), <<One>>))}
=============================================================================
