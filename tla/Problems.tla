------------------------------ MODULE Problems ------------------------------
(***************************************************************************)
(* Problems and languages on disk, as a process loads them                 *)
(* (crates/judge/src/problem.rs, language.rs) and the command line looks   *)
(* them up (crates/cli/src/main.rs).                                       *)
(*                                                                         *)
(* A problem directory is a record: slug_ok, manifest ("none", "bad" or    *)
(* "ok"), samples (a set of names), limits, comparer, show_failed_input,   *)
(* and tests, a function from names to [in, out] with out = NULL for a     *)
(* missing .out file.  Names and contents are sequences of bytes.          *)
(***************************************************************************)
EXTENDS Integers, SequencesExt

CONSTANT NULL

Byte == 0 .. 255
Text == Seq(Byte)

IsDirectory(dir) ==
  /\ IsFiniteSet(DOMAIN dir.tests) /\ DOMAIN dir.tests \subseteq Text
  /\ \A name \in DOMAIN dir.tests :
        dir.tests[name].in \in Text /\ dir.tests[name].out \in {NULL} \cup Text
  /\ dir.show_failed_input \in BOOLEAN
  /\ dir.limits.time \in Int /\ dir.limits.memory \in Int
  /\ dir.comparer.kind \in {"lines", "tokens", "float"}

ASSUME NullIsNoText == NULL \notin Text

(* names.sort(): byte by byte.                                              *)
Before(a, b) ==
  \/ IsStrictPrefix(a, b)
  \/ \E i \in DOMAIN a \cap DOMAIN b :
        a[i] < b[i] /\ SubSeq(a, 1, i - 1) = SubSeq(b, 1, i - 1)

InOrder(names) ==
  CHOOSE s \in [1 .. Cardinality(names) -> names] :
     \A i, j \in DOMAIN s : i < j => Before(s[i], s[j])

Loadable(dir) ==
  /\ dir.slug_ok
  /\ dir.manifest = "ok"
  /\ DOMAIN dir.tests # {}
  /\ \A name \in DOMAIN dir.tests : dir.tests[name].out # NULL
  /\ dir.samples \subseteq DOMAIN dir.tests
  /\ dir.limits.time > 0 /\ dir.limits.memory > 0

TestCases(dir) ==
  LET names == InOrder(DOMAIN dir.tests)
  IN  [i \in DOMAIN names |-> [name     |-> names[i],
                               input    |-> dir.tests[names[i]].in,
                               expected |-> dir.tests[names[i]].out]]

NoBytes(n) == <<>>  \* mutant: no length prefix

(* u64::to_le_bytes, for lengths below 2^32.                                *)
LeBytes(n) ==
  LET upper(k) == k \div 256
  IN  <<n % 256, upper(n) % 256, upper(upper(n)) % 256, upper(upper(upper(n))), 0, 0, 0, 0>>

Sized(data) == LeBytes(Len(data)) \o data

(* What is hashed, after "v1|<limits>|<comparer>|".  SHA-256 itself is taken *)
(* to be injective.                                                          *)
Version(dir) ==
  << <<dir.limits, dir.comparer>>,
     FlattenSeq([i \in DOMAIN TestCases(dir) |->
        TestCases(dir)[i].name \o Sized(TestCases(dir)[i].input) \o Sized(TestCases(dir)[i].expected)]) >>

(* Problem::load; NULL is any ProblemError.                                  *)
Load(dir) ==
  IF ~Loadable(dir) THEN NULL
  ELSE [tests |-> TestCases(dir), samples |-> dir.samples, limits |-> dir.limits,
        comparer |-> dir.comparer, show_failed_input |-> dir.show_failed_input,
        version |-> Version(dir)]

(* Problem::samples: an iter().filter() over the tests.                      *)
Samples(problem) ==
  LET kept[n \in 0 .. Len(problem.tests)] ==
        IF n = 0 THEN <<>>
        ELSE IF problem.tests[n].name \in problem.samples
        THEN Append(kept[n - 1], problem.tests[n]) ELSE kept[n - 1]
  IN  kept[Len(problem.tests)]

(* ProblemSet::load: directories without a manifest are passed over, and one *)
(* problem that does not load fails them all.                                *)
LoadSet(dirs) ==
  LET found == {slug \in DOMAIN dirs : dirs[slug].manifest # "none"}
  IN  IF \E slug \in found : Load(dirs[slug]) = NULL THEN NULL
      ELSE [slug \in found |-> Load(dirs[slug])]

-----------------------------------------------------------------------------
(* LanguageRegistry::from_toml: ids in order (a BTreeMap), each one checked. *)
ValidLanguage(lang) ==
  /\ lang.source_file_ok
  /\ lang.run_argv # <<>>
  /\ lang.compile_argv # <<>>      \* NULL: no compile step
  /\ lang.time_multiplier >= 1

LoadLanguages(table) ==
  IF \A id \in DOMAIN table : ValidLanguage(table[id]) THEN table ELSE NULL

(* language_for: the first id whose source file has the extension.           *)
LanguageFor(languages, extension) ==
  LET ids == {id \in DOMAIN languages : languages[id].extension = extension}
  IN  IF ids = {} THEN NULL ELSE Min(ids)
=============================================================================
