--------------------------- MODULE BundlePackaging ---------------------------
(***************************************************************************)
(* The classifiers of attack families, the packaging of a bundle from what   *)
(* the other scripts left, the contract a bundle must meet to be loaded, and *)
(* the evaluation of the two stages together.  A bundle's directory is not   *)
(* emptied: its files are replaced one by one and the manifest comes last.   *)
(***************************************************************************)
EXTENDS ModelTraining

CONSTANTS
    ClosedSet       \* DEFAULT_STAGE2_FAMILY_LABELS

\* The list in model_bundle.py names the families the views keep.
ASSUME ClosedSetAssumption == ClosedSet = KnownAttackFamilies

VARIABLE bundle      \* the files of the directory of each kind of bundle

vars == <<prepVars, runVars, viewVars, kaggleVars, trainVars, bundle>>

Kinds == {"binary", "composite"}
BundleFiles == {"model", "columns", "metrics", "training", "manifest", "card",
                "stage2_model", "stage2_columns", "stage2_report"}

Init ==
    /\ PrepInit /\ ViewInit /\ KaggleInit /\ TrainInit
    /\ bundle = [kind \in Kinds |-> [f \in BundleFiles |-> None]]

-----------------------------------------------------------------------------
\* The classifier of known families, and its rival with Benign as a class.
ScriptOf == [attack_only |-> "family", direct_multiclass |-> "multiclass"]
KernelOf == [attack_only |-> "stage2", direct_multiclass |-> "direct"]

Place(l) == CHOOSE k \in DOMAIN FamilyOrder : FamilyOrder[k] = l
Lowest(labels, n) == {l \in labels : Cardinality({k \in labels : Place(k) < Place(l)}) < n}

\* sample_train_split: the first row of every label, then rows drawn by chance, cut
\* to the limit without touching the first ones; were these too many, the labels
\* that come first stay.
Samples(rows, limit) ==
    LET first == {CHOOSE r \in rows : r.family = l : l \in Labels(rows)}
        m == Cardinality(first)
        rest == rows \ first
    IN  CASE Cardinality(rows) <= limit -> {rows}
          [] m >= limit -> {{r \in first : r.family \in Lowest(Labels(rows), limit)}}
          [] OTHER -> {first \cup e : e \in {e \in SUBSET rest :
                                                Cardinality(e) <= limit - m}}

BeginFamily ==
    \E v \in Range(ViewOrder) :
        /\ step = "idle"
        /\ IF ~views.index \/ \E s \in Splits : Resolved(v, s) = {}
           THEN Raise(ScriptOf[v])
           ELSE \E sample \in Samples(Resolved(v, "train"), MaxTrainRows) :
                    Begin(ScriptOf[v], "family",
                          [script |-> ScriptOf[v], columns |-> views.columns, labels |-> Labels(sample)])
        /\ UNCHANGED <<prepVars, viewVars, kaggleVars, trainVars, bundle>>

\* The same code in a kernel, on the views it derives for itself.
BeginFamilyKernel ==
    \E v \in Range(ViewOrder) :
        /\ step = "idle"
        /\ IF published = None \/ \E s \in Splits : KernelResolved(v, s) = {}
           THEN Raise(KernelOf[v])
           ELSE \E sample \in Samples(KernelResolved(v, "train"), KernelTrainRows) :
                    Begin(KernelOf[v], "family",
                          [script |-> KernelOf[v], columns |-> published.columns,
                           labels |-> Labels(sample)])
        /\ UNCHANGED <<prepVars, viewVars, kaggleVars, trainVars, bundle>>

\* The classes are the view's, seen or not.  What a kernel writes is brought back by
\* hand, the model and then the report.
Fitted(w) == [columns |-> w.columns, labels |-> w.labels]

FitFamily ==
    /\ step = "family" /\ Makes(work.script) = "family"
    /\ IF work.columns = {} THEN Raise(work.script) /\ UNCHANGED trainVars
       ELSE /\ Go("oracle", work)
            /\ family' = [family EXCEPT !.model = Fitted(work)]
            /\ UNCHANGED <<release, thresholds>>
    /\ UNCHANGED <<prepVars, viewVars, kaggleVars, bundle>>

\* The families it was scored on are those of the view, in train or not.
OracleReport(w) == [labels |-> LabelSpace["attack_only"], columns |-> w.columns]

WriteOracle ==
    /\ step = "oracle" /\ Complete(work.script)
    /\ family' = [family EXCEPT !.report = OracleReport(work)]
    /\ UNCHANGED <<prepVars, viewVars, kaggleVars, release, thresholds, bundle>>

\* What the rival writes, people read.
FitMulticlass ==
    /\ step = "family" /\ Makes(work.script) # "family"
    /\ IF work.columns = {} THEN Raise(work.script) ELSE Complete(work.script)
    /\ UNCHANGED <<prepVars, viewVars, kaggleVars, trainVars, bundle>>

-----------------------------------------------------------------------------
\* The contract: files present, the digest and the count of each feature schema,
\* the closed set of families, abstention thresholds that can be met.  The manifest
\* has no digest of a model.
Present(b) == None \notin {b["manifest"], b["model"], b["columns"]}

StageTwoMeets(b, m) ==
    /\ None \notin {b["stage2_model"], b["stage2_columns"]}
    /\ m.stage2_columns = b["stage2_columns"]
    /\ m.labels = ClosedSet

MeetsContract(b) ==
    LET m == b["manifest"]
    IN  /\ Present(b)
        /\ m.columns = b["columns"]
        /\ m.kind = "composite" => StageTwoMeets(b, m)

\* SLIP: the manifest is written before what it describes.
Packaging_EarlyManifest ==
    [binary    |-> <<"model", "manifest", "columns", "metrics", "training", "card">>,
     composite |-> <<"model", "columns", "metrics", "training",
                     "stage2_model", "stage2_columns", "stage2_report", "manifest", "card">>]

\* What a packaging does, in order.  It copies before it reads.
Packaging ==
    [binary    |-> <<"model", "columns", "metrics", "training", "manifest", "card">>,
     composite |-> <<"model", "columns", "metrics", "training",
                     "stage2_model", "stage2_columns", "stage2_report", "manifest", "card">>]

Manifest(kind) ==
    LET b == bundle[kind]
    IN  [kind |-> kind, columns |-> b["columns"], recommended |-> thresholds,
         stage2_columns |-> IF kind = "composite" THEN b["stage2_columns"] ELSE None,
         labels |-> IF kind = "composite" THEN family.report.labels ELSE None]

\* What each file is made of; None when something it needs is not there.  Both
\* stages get the columns of the dataset.
Content(kind, f) ==
    CASE f = "model"         -> release.model
      [] f \in {"columns", "stage2_columns"} -> data.columns
      [] f = "metrics"       -> IF None \in {release.training, thresholds} THEN None
                                ELSE release.summary
      [] f = "training"      -> release.training
      [] f = "stage2_model"  -> family.model
      [] f = "stage2_report" -> family.report
      [] f = "manifest"      -> Manifest(kind)
      [] f = "card"          -> kind

BeginPackaging ==
    \E kind \in DOMAIN Packaging :
        /\ step = "idle"
        /\ IF release.model = None THEN Raise(kind) /\ UNCHANGED bundle
           ELSE /\ Begin(kind, "package", [kind |-> kind, at |-> 2])
                /\ bundle' = [bundle EXCEPT ![kind]["model"] = release.model]
        /\ UNCHANGED <<prepVars, viewVars, kaggleVars, trainVars>>

Package ==
    LET f == Packaging[work.kind][work.at]
        new == Content(work.kind, f)
    IN  /\ step = "package" /\ work.at <= Len(Packaging[work.kind])
        /\ IF new = None THEN Raise(work.kind) /\ UNCHANGED bundle
           ELSE /\ IF f = "card" THEN Complete(work.kind)
                   ELSE Go("package", [work EXCEPT !.at = @ + 1])
                /\ bundle' = [bundle EXCEPT ![work.kind][f] = new]
        /\ UNCHANGED <<prepVars, viewVars, kaggleVars, trainVars>>

\* The evaluation of both stages loads the bundle as the sensor does and scores the
\* rows of the views, with the columns of the views.
BeginGated ==
    /\ step = "idle"
    /\ IF \/ ~views.index \/ None \in {family.report, family.model} \/ ~MeetsContract(bundle["binary"])
          \/ \E s \in Splits \ {"train"} : Resolved("attack_only", s) = {}
       THEN Raise("gated") ELSE Begin("gated", "gated", None)
    /\ UNCHANGED <<prepVars, viewVars, kaggleVars, trainVars, bundle>>

EvaluateGated ==
    /\ step = "gated"
    /\ IF bundle["binary"]["columns"] \subseteq views.columns THEN Complete("gated") ELSE Raise("gated")
    /\ UNCHANGED <<prepVars, viewVars, kaggleVars, trainVars, bundle>>

-----------------------------------------------------------------------------
Next ==
    \/ PreprocessNext /\ UNCHANGED <<viewVars, kaggleVars, trainVars, bundle>>
    \/ ViewNext /\ UNCHANGED <<kaggleVars, trainVars, bundle>>
    \/ KaggleNext /\ UNCHANGED <<trainVars, bundle>>
    \/ TrainNext /\ UNCHANGED bundle
    \/ BeginFamily \/ BeginFamilyKernel \/ FitFamily \/ WriteOracle \/ FitMulticlass
    \/ BeginPackaging \/ Package \/ BeginGated \/ EvaluateGated
    \/ (Exit \/ Kill) /\ UNCHANGED <<prepVars, viewVars, kaggleVars, trainVars, bundle>>

Spec == Init /\ [][Next]_vars
-----------------------------------------------------------------------------
\* What is derived from a dataset, at home or for Kaggle, is whole where its index or
\* its metadata says so.
DerivedIsWhole == IndexMeansViews /\ StagedIsWhole

\* What is chosen: the counts under a threshold are those of evaluating it; if any
\* threshold of the grid stays under the cap, the one chosen does and none that
\* does has a better F1; the trial promoted first passes the gate if any does, and
\* no other of those has a better F1; and the sample of the family classifier has every
\* known family of train, if the limit leaves room for one row of each.
SelectionHonest ==
    /\ step = "evaluate" =>
           LET At(t) == Evaluate(DOMAIN work.score, work.score, t)
           IN  \A cap \in Caps :
                   LET c == work.chosen[cap]
                       under == {t \in Grid : Under(At(t), cap)}
                   IN  /\ c = At(c.t)
                       /\ under # {} => c.t \in under
                       /\ \A t \in under : ~Less(F1(c), F1(At(t)))
                       /\ under = {} => \A t \in Grid : ~Less(FPR(At(t)), FPR(c))
    /\ (step = "trials" /\ work.promoted # None) =>
           LET best == work.trials[work.promoted]
           IN  \A i \in DOMAIN work.trials :
                   LET m == work.trials[i]
                   IN  Passes(m) => Passes(best) /\ ~Less(F1(best.tuned), F1(m.tuned))
    /\ ("family" \in fresh
        /\ \A limit \in {MaxTrainRows, KernelTrainRows} : Cardinality(KnownAttackFamilies) <= limit)
           => family.model.labels = KnownAttackFamilies \cap Labels(data.rows["train"])

\* A corpus the scripts are meant for.  All files can be read; of Benign and of each
\* known family there are three, and one that may be among the three largest has a
\* row that no other file has; a held-out family has a row; and there is a family whose
\* largest file, whichever it is, has two such rows that differ in the same column.
CleanedFiles(c) ==
    [i \in DOMAIN c |-> [family |-> c[i].family, scenario |-> c[i].scenario, rows |-> Cleaned(c[i])]]
Larger(files, i) == {j \in Members(files, files[i].family) : Size(files, j) > Size(files, i)}
OwnRows(files, i) == RowsOf(files[i]) \ UNION {RowsOf(files[j]) : j \in DOMAIN files \ {i}}

SoundCorpus(c) ==
    LET files == CleanedFiles(c)
        known == LabelSpace["direct_multiclass"]
    IN  /\ c # <<>>
        /\ \A i \in DOMAIN c : Discovered(c[i]) /\ ~Quarantined(c[i], c[1].columns)
        /\ \A name \in known :
               /\ Cardinality(Members(files, name)) >= 3
               /\ \A i \in Members(files, name) :
                      Cardinality(Larger(files, i)) < 3 => OwnRows(files, i) # {}
        /\ \E i \in DOMAIN files : files[i].family \in OODFamilies /\ RowsOf(files[i]) # {}
        /\ \E name \in known, col \in c[1].columns :
               \A i \in Members(files, name) :
                   Larger(files, i) = {} => \E r, q \in OwnRows(files, i) : r.cells[col] # q.cells[col]

\* What scripts make of a corpus, and write; None is nothing of it.
Columns(c) == SUBSET c[1].columns
Tables(c) == SUBSET UNION {RowsOf(f) : f \in Range(c)}
Manifests(c) ==
    [DOMAIN c -> [family : Range(FamilyOrder), scenario : {f.scenario : f \in Range(c)},
                  rows : {Cleaned(f) : f \in Range(c)}, split : Splits]]
Datasets(c) ==
    [rows : [Splits -> Tables(c)], columns : Columns(c), manifest : Manifests(c),
     report : [Splits -> [Benign : Nat, Attack : Nat]]]
Classifiers(c) == [columns : Columns(c), labels : SUBSET KnownAttackFamilies]
Contracts(c) ==
    [kind : Kinds, columns : Columns(c), recommended : Columns(c),
     stage2_columns : {None} \cup Columns(c), labels : {None, ClosedSet}]

ASSUME NoneAssumption ==
    /\ None \notin Nat
    /\ None \notin Kinds \cup [Splits -> [Benign : Nat, Attack : Nat]]
    /\ None \notin [benign : Nat, attack : Nat]
    /\ None \notin [script : {"tuning", "search"}, attack : {0}, trials : {<<>>}, promoted : {None}]
    /\ \A c \in Corpora \ {<<>>} :
           /\ \A x \in Columns(c) \cup Tables(c) : None # x
           /\ None \notin Manifests(c) /\ None \notin Datasets(c)
           /\ None \notin Classifiers(c) /\ None \notin Contracts(c)

\* With a sound corpus a script raises only when something it reads was not made,
\* or not since what it was made from, or when chance or the target left its
\* sample without an attack.
ScriptsFailForCause ==
    (step = "raised" /\ SoundCorpus(corpus)) =>
        \/ ~(Reads[work.script] \subseteq fresh)
        \/ /\ work.script \in {"release", "baselines", "tuning", "benchmark", "promotion", "search"}
           /\ work.had # None /\ work.had.attack = 0

\* A bundle packaged after all it is made from meets the contract, has the columns
\* its models were trained with, and recommends a threshold found with its model.
ReleaseIsWhole ==
    \A kind \in Kinds \cap fresh :
        LET b == bundle[kind]
            m == b["manifest"]
        IN  /\ MeetsContract(b) /\ m.kind = kind
            /\ b["model"] = b["columns"] /\ m.recommended = b["model"]
            /\ kind = "composite" =>
                   /\ b["stage2_model"].columns = b["stage2_columns"]
                   /\ b["stage2_report"].labels = m.labels
=============================================================================
