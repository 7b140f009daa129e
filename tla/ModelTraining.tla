---------------------------- MODULE ModelTraining ----------------------------
(***************************************************************************)
(* The scripts that train on the dataset: the kernel whose model is released *)
(* (kaggle/kernel_template/scaling_experiment_template.py), the baselines,   *)
(* the search over hyperparameters, at home and on Kaggle, and the choice of *)
(* an operating threshold.  Fitting and scoring are external: a model is the *)
(* columns and labels it was given, and scores are chosen freely.  None of   *)
(* the output directories is emptied, and every script writes its files one  *)
(* after another.                                                            *)
(***************************************************************************)
EXTENDS KaggleStaging

CONSTANTS
    TrainTargets,   \* %%TRAIN_TARGET_ROWS%%; None for all rows
    AttackRatio,    \* ModelSpec.attack_ratio
    MaxAttackRows,  \* ModelSpec.max_attack_rows
    MaxTrainRows,   \* --max-train-rows of the family classifiers
    KernelTrainRows,  \* the same in their kernels
    Grid,           \* the threshold grid; scores are taken from it too
    Half,           \* 0.5 on the grid
    Caps,           \* DEFAULT_THRESHOLD_CAPS, in percent
    RankCap,        \* the cap a trial's F1 is taken at, in percent
    OODCap,         \* the cap its held-out recall is taken at, in percent
    Gate,           \* passes_selection_gate, in percent
    Trials          \* BOUND: trials of a search

ASSUME GridAssumption == Grid # {} /\ Grid \subseteq Nat /\ IsFiniteSet(Grid)
ASSUME LimitsAssumption == MaxTrainRows \in Int /\ KernelTrainRows \in Int

VARIABLES
    release,     \* model, training_summary.json, summary.csv: the columns of the run that wrote each
    thresholds,  \* the threshold selection: the model it was made with
    family       \* the stage-2 model and its oracle report

trainVars == <<release, thresholds, family>>

TrainInit ==
    /\ release = [model |-> None, training |-> None, summary |-> None]
    /\ thresholds = None
    /\ family = [model |-> None, report |-> None]

IsBenign(r) == r.family = "Benign"
Benign(rows) == {r \in rows : IsBenign(r)}
Attacks(rows) == rows \ Benign(rows)

Have(ss) == \A s \in ss : data.rows[s] # None

-----------------------------------------------------------------------------
\* The released run.  All benign rows, and attack rows up to the target; a target
\* the benign rows fill alone leaves no attack.
TrainCaps(target, benign) ==
    CASE target = None     -> [benign |-> None, attack |-> None]
      [] target <= benign  -> [benign |-> target, attack |-> 0]
      [] OTHER             -> [benign |-> None, attack |-> target - benign]

BeginRelease ==
    /\ step = "idle"
    /\ IF ~Served({"train", "val"}) THEN Raise("release")
       ELSE \E target \in TrainTargets :
                LET n == published.report["train"]
                    cap == TrainCaps(target, n.Benign)
                IN  \E draw \in Draws(n, cap.benign, cap.attack) : Begin("release", "fit", draw)
    /\ UNCHANGED <<prepVars, viewVars, kaggleVars, trainVars>>

\* A classifier of one class cannot be fitted.  The model is written when all three
\* other splits have been evaluated, over the one of the last run.
FitRelease ==
    /\ step = "fit"
    /\ IF 0 \in {work.benign, work.attack} \/ published.columns = {} \/ ~Served(Splits)
       THEN Raise("release") /\ UNCHANGED trainVars
       ELSE /\ Go("training", None)
            /\ release' = [release EXCEPT !.model = published.columns]
            /\ UNCHANGED <<thresholds, family>>
    /\ UNCHANGED <<prepVars, viewVars, kaggleVars>>

WriteTraining ==
    /\ step = "training" /\ Go("summary", None)
    /\ release' = [release EXCEPT !.training = published.columns]
    /\ UNCHANGED <<prepVars, viewVars, kaggleVars, thresholds, family>>

WriteSummary ==
    /\ step = "summary" /\ Complete("release")
    /\ release' = [release EXCEPT !.summary = published.columns]
    /\ UNCHANGED <<prepVars, viewVars, kaggleVars, thresholds, family>>

-----------------------------------------------------------------------------
\* The baselines: every benign row, and attack rows in proportion to them.  Their
\* reports are read by people, so only the sample is kept here.
SamplingTarget(n) ==
    LET wanted == {n.Attack, n.Benign * AttackRatio, MaxAttackRows}
    IN  CHOOSE t \in wanted : \A u \in wanted : t <= u

\* sample_train_frame: the attack rows that are drawn, by chance when fewer are wanted.
AttackSample(n) == Kept(n.Attack, SamplingTarget(n))

BeginBaselines ==
    /\ step = "idle"
    /\ IF None \in {data.columns, data.report} \/ ~Have(Splits)
          \/ 0 \in {data.report["train"].Benign, data.report["train"].Attack}
       THEN Raise("baselines")
       ELSE LET n == data.report["train"]
            IN  \E a \in AttackSample(n) :
                    Begin("baselines", "baseline", [benign |-> n.Benign, attack |-> a])
    /\ UNCHANGED <<prepVars, viewVars, kaggleVars, trainVars>>

FitBaseline ==
    /\ step = "baseline"
    /\ IF work.attack = 0 \/ data.columns = {} THEN Raise("baselines")
       ELSE Go("score baseline", None)
    /\ UNCHANGED <<prepVars, viewVars, kaggleVars, trainVars>>

ScoreBaseline ==
    /\ step = "score baseline" /\ Complete("baselines")
    /\ UNCHANGED <<prepVars, viewVars, kaggleVars, trainVars>>

-----------------------------------------------------------------------------
\* The sweep: scores in descending order under one cursor, thresholds in descending
\* order; at each threshold the cursor passes the scores that are not below it.
Descending(rows, score) ==
    CHOOSE o \in SetToSeqs(rows) : \A i, j \in DOMAIN o : i < j => score[o[i]] >= score[o[j]]

\* SLIP: the cursor passes one score at most.
Cursor_OneStep(o, score, t, from) ==
    IF from < Len(o) /\ score[o[from + 1]] >= t THEN from + 1 ELSE from

Cursor(o, score, t, from) ==
    LET below == {k \in from + 1 .. Len(o) : score[o[k]] < t}
    IN  IF below = {} THEN Len(o) ELSE (CHOOSE k \in below : \A l \in below : k <= l) - 1

Point(t, tp, fp, rows) ==
    [t |-> t, tp |-> tp, fp |-> fp,
     fn |-> Cardinality(Attacks(rows)) - tp, tn |-> Cardinality(Benign(rows)) - fp]

Sweep(rows, score) ==
    LET o == Descending(rows, score)
        ts == Descending(Grid, [t \in Grid |-> t])
        Passed[i \in 0..Len(ts)] == IF i = 0 THEN 0 ELSE Cursor(o, score, ts[i], Passed[i - 1])
        Alerts(i) == {o[k] : k \in 1..Passed[i]}
    IN  {Point(ts[i], Cardinality(Attacks(Alerts(i))), Cardinality(Benign(Alerts(i))), rows) :
            i \in DOMAIN ts}

\* evaluate_at_threshold
Evaluate(rows, score, t) ==
    LET alerts == {r \in rows : score[r] >= t}
    IN  Point(t, Cardinality(Attacks(alerts)), Cardinality(Benign(alerts)), rows)

\* Rates are compared as fractions; a rate of nothing is 0.
Less(x, y) == x[1] * (IF y[2] = 0 THEN 1 ELSE y[2]) < y[1] * (IF x[2] = 0 THEN 1 ELSE x[2])
FPR(p) == <<p.fp, p.fp + p.tn>>
Recall(p) == <<p.tp, p.tp + p.fn>>
F1(p) == <<2 * p.tp, 2 * p.tp + p.fp + p.fn>>
Under(p, cap) == ~Less(<<cap, 100>>, FPR(p))

\* The first difference decides; each key is the pair of the values compared.
FirstLess(keys) ==
    \E i \in DOMAIN keys : /\ Less(keys[i][1], keys[i][2])
                           /\ \A j \in 1..(i - 1) : ~Less(keys[j][2], keys[j][1])
Top(points, Ahead(_, _)) == CHOOSE p \in points : \A q \in points \ {p} : Ahead(p, q)

\* select_threshold_under_fpr_cap
ByQuality(p, q) ==
    FirstLess(<<<<F1(q), F1(p)>>, <<Recall(q), Recall(p)>>, <<FPR(p), FPR(q)>>,
                <<<<q.t, 1>>, <<p.t, 1>>>>>>)
ByAlarms(p, q) ==
    FirstLess(<<<<FPR(p), FPR(q)>>, <<F1(q), F1(p)>>, <<Recall(q), Recall(p)>>,
                <<<<q.t, 1>>, <<p.t, 1>>>>>>)
Selected(points, cap) ==
    LET eligible == {p \in points : Under(p, cap)}
    IN  IF eligible = {} THEN Top(points, ByAlarms) ELSE Top(eligible, ByQuality)

\* A model scores the columns it was given; with others it may refuse.
Scores(columns) == IF columns = data.columns THEN {TRUE} ELSE BOOLEAN

BeginThresholds ==
    \E scores \in Scores(release.model) :
        /\ step = "idle"
        /\ IF None \in {data.columns, release.model} \/ ~Have({"val"}) \/ ~scores
           THEN Raise("thresholds")
           ELSE \E score \in [data.rows["val"] -> Grid] :
                    LET points == Sweep(data.rows["val"], score)
                    IN  Begin("thresholds", "evaluate",
                              [score |-> score,
                               chosen |-> [cap \in Caps |-> Selected(points, cap)]])
        /\ UNCHANGED <<prepVars, viewVars, kaggleVars, trainVars>>

\* The curves of a split of one class have no area under them.
WriteSelection ==
    /\ step = "evaluate"
    /\ \/ /\ Have(Splits) /\ Complete("thresholds") /\ thresholds' = release.model
       \/ /\ \/ ~Have(Splits)
             \/ \E s \in {"val", "test"} : {} \in {Benign(data.rows[s]), Attacks(data.rows[s])}
          /\ Raise("thresholds") /\ UNCHANGED thresholds
    /\ UNCHANGED <<prepVars, viewVars, kaggleVars, release, family>>

-----------------------------------------------------------------------------
\* The search, at home or by a kernel: each trial is scored on val and on the held-out
\* families, and all results are ranked and written again.  Here all benign rows have
\* one score and all attack rows one, and a later trial takes longer.

\* The template has a selection of its own, decided by fewer keys.
KernelSelected(points, cap) ==
    LET eligible == {p \in points : Under(p, cap)}
        ByF1(p, q) ==
            FirstLess(<<<<F1(q), F1(p)>>, <<Recall(q), Recall(p)>>, <<<<p.t, 1>>, <<q.t, 1>>>>>>)
        ByFPR(p, q) == FirstLess(<<<<FPR(p), FPR(q)>>, <<<<p.t, 1>>, <<q.t, 1>>>>>>)
    IN  IF eligible = {} THEN Top(points, ByFPR) ELSE Top(eligible, ByF1)

ScoreOf(rows, scores) == [r \in rows |-> IF IsBenign(r) THEN scores.benign ELSE scores.attack]

Metrics(scores) ==
    LET On(rows) == ScoreOf(rows, scores)
        Tuned(rows, cap) == Evaluate(rows, On(rows), Selected(Sweep(rows, On(rows)), cap).t)
        val == data.rows["val"]
    IN  [default |-> Evaluate(val, On(val), Half), tuned |-> Tuned(val, RankCap),
         ood |-> Tuned(data.rows["ood"], OODCap)]

\* The template evaluates every threshold anew.
KernelMetrics(scores) ==
    LET On(rows) == ScoreOf(rows, scores)
        Points(rows) == {Evaluate(rows, On(rows), t) : t \in Grid}
        Tuned(rows, cap) == Evaluate(rows, On(rows), KernelSelected(Points(rows), cap).t)
        val == published.rows["val"]
    IN  [default |-> Evaluate(val, On(val), Half), tuned |-> Tuned(val, RankCap),
         ood |-> Tuned(published.rows["ood"], OODCap)]

Passes(m) == Under(m.default, Gate)

\* rank_trials
Ahead(trials, i, j) ==
    LET x == trials[i]
        y == trials[j]
    IN  \/ Passes(x) /\ ~Passes(y)
        \/ /\ Passes(x) = Passes(y)
           /\ FirstLess(<<<<F1(y.tuned), F1(x.tuned)>>, <<FPR(x.default), FPR(y.default)>>,
                          <<Recall(y.ood), Recall(x.ood)>>, <<<<i, 1>>, <<j, 1>>>>>>)

Search(script, attack) ==
    [script |-> script, attack |-> IF attack = 0 THEN 0 ELSE 1, trials |-> <<>>, promoted |-> None]

BeginTuning ==
    /\ step = "idle"
    /\ IF \/ None \in {data.columns, data.report} \/ ~Have({"train", "val", "ood"})
          \/ 0 \in {data.report["train"].Benign, data.report["train"].Attack}
       THEN Raise("tuning")
       ELSE LET n == data.report["train"]
            IN  \E a \in AttackSample(n) :
                    Begin("tuning", "trials", Search("tuning", a))
    /\ UNCHANGED <<prepVars, viewVars, kaggleVars, trainVars>>

BeginSearch ==
    /\ step = "idle"
    /\ IF ~Served({"train", "val", "ood"}) THEN Raise("search")
       ELSE LET n == published.report["train"]
            IN  \E a \in AttackSample(n) :
                    Begin("search", "trials", Search("search", a))
    /\ UNCHANGED <<prepVars, viewVars, kaggleVars, trainVars>>

\* build_tuned_model, fit_model: whatever the hyperparameters.
Fits(columns) == columns # {} /\ work.attack # 0

\* persist_reports
Ranked(trials) ==
    [work EXCEPT !.trials = trials,
                 !.promoted = CHOOSE i \in DOMAIN trials : \A j \in DOMAIN trials \ {i} :
                                  Ahead(trials, i, j)]

RunTrial ==
    /\ step = "trials" /\ work.script = "tuning" /\ Len(work.trials) < Trials
    /\ IF ~Fits(data.columns) THEN Raise("tuning")
       ELSE \E scores \in [{"benign", "attack"} -> Grid] :
                Go("trials", Ranked(Append(work.trials, Metrics(scores))))
    /\ UNCHANGED <<prepVars, viewVars, kaggleVars, trainVars>>

RunKernelTrial ==
    /\ step = "trials" /\ work.script = "search" /\ Len(work.trials) < Trials
    /\ IF ~Fits(published.columns) THEN Raise("search")
       ELSE \E scores \in [{"benign", "attack"} -> Grid] :
                Go("trials", Ranked(Append(work.trials, KernelMetrics(scores))))
    /\ UNCHANGED <<prepVars, viewVars, kaggleVars, trainVars>>

FinishTuning ==
    /\ step = "trials" /\ Len(work.trials) = Trials /\ Complete(work.script)
    /\ UNCHANGED <<prepVars, viewVars, kaggleVars, trainVars>>

TrainNext ==
    \/ BeginRelease \/ FitRelease \/ WriteTraining \/ WriteSummary
    \/ BeginBaselines \/ FitBaseline \/ ScoreBaseline
    \/ BeginThresholds \/ WriteSelection
    \/ BeginTuning \/ BeginSearch \/ RunTrial \/ RunKernelTrial \/ FinishTuning
=============================================================================
