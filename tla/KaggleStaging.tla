---------------------------- MODULE KaggleStaging ----------------------------
(***************************************************************************)
(* The way to Kaggle.  The dataset is linked into a bundle, the bundle is    *)
(* uploaded as a version of a Kaggle dataset, and the kernels rendered from  *)
(* the templates train on that version, whatever the dataset at home has     *)
(* become since.  Kaggle, and the author who uploads, are external.          *)
(***************************************************************************)
EXTENDS FamilyViews

CONSTANTS
    BenchmarkCaps,  \* MODEL_CONFIG: train_attack_cap of each model, None where it streams
    PromotionCaps   \* FINALISTS: train_attack_cap and train_benign_cap of each

\* No finalist of the list in stage_kaggle_promotion.py has a cap on its benign rows.
ASSUME FinalistsAssumption == \A cap \in PromotionCaps : cap.benign = None

VARIABLES
    staged,    \* artifacts/kaggle/datasets: the files of the bundle, and its metadata
    published  \* the version that kernels are given; None before the first upload

kaggleVars == <<staged, published>>

NothingStaged == [files |-> NoData, metadata |-> FALSE]
KaggleInit == staged = NothingStaged /\ published = None

-----------------------------------------------------------------------------
\* validate_inputs: every file is there; nobody looks into them.
Linkable(d) ==
    None # d.columns /\ None # d.manifest /\ None # d.report /\ \A s \in Splits : None # d.rows[s]

\* SLIP: the bundle of the last time is not removed.
BeginStaging_InPlace ==
    /\ step = "idle"
    /\ IF ~Linkable(data) THEN Raise("stage") ELSE Begin("stage", "splits", None)
    /\ UNCHANGED <<prepVars, viewVars, kaggleVars>>

BeginStaging ==
    /\ step = "idle"
    /\ IF ~Linkable(data) THEN Raise("stage") /\ UNCHANGED staged
       ELSE Begin("stage", "splits", None) /\ staged' = NothingStaged
    /\ UNCHANGED <<prepVars, viewVars, published>>

\* The files are linked, not copied: a dataset that is built again unlinks its own
\* names first and leaves the bundle's.
LinkSplits ==
    /\ step = "splits" /\ Go("manifests", None)
    /\ staged' = [staged EXCEPT !.files.rows = data.rows]
    /\ UNCHANGED <<prepVars, viewVars, published>>

LinkManifests ==
    /\ step = "manifests" /\ Go("metadata", None)
    /\ staged' = [staged EXCEPT !.files = [data EXCEPT !.rows = staged.files.rows]]
    /\ UNCHANGED <<prepVars, viewVars, published>>

\* Then the kernels are rendered from the templates, which nothing here tells apart.
WriteMetadata ==
    /\ step = "metadata" /\ Complete("stage")
    /\ staged' = [staged EXCEPT !.metadata = TRUE]
    /\ UNCHANGED <<prepVars, viewVars, published>>

\* version_dataset.ps1, run by hand; the client refuses a directory without metadata.
Publish ==
    /\ step = "idle" /\ "publish" \in plan /\ staged.metadata /\ published # staged.files
    /\ published' = staged.files
    /\ fresh' = (fresh \ Outdated("publish")) \cup {p \in {"publish"} : Reads[p] \subseteq fresh}
    /\ UNCHANGED <<prepVars, viewVars, staged, step, work, begun, kills, plan>>

-----------------------------------------------------------------------------
\* The templates: resolve_dataset_file finds what was uploaded, in a flat bundle.
Served(ss) == published # None /\ \A s \in ss : published.rows[s] # None

\* What is left of n rows when at most cap are kept: with fewer to keep than there
\* are, each row is drawn by chance, and the excess is cut.
Kept(n, cap) == IF cap = None \/ cap >= n THEN {n} ELSE 0..cap

Draws(n, benign, attack) ==
    {[benign |-> b, attack |-> a] : b \in Kept(n.Benign, benign), a \in Kept(n.Attack, attack)}

\* The benchmark: two of the models pass over all rows, the others draw attack rows.
BeginBenchmark ==
    /\ step = "idle"
    /\ IF ~Served({"train", "val"}) THEN Raise("benchmark")
       ELSE \E cap \in BenchmarkCaps :
                \E draw \in Draws(published.report["train"], None, cap) :
                    Begin("benchmark", IF cap = None THEN "stream" ELSE "fit kernel", draw)
    /\ UNCHANGED <<prepVars, viewVars, kaggleVars>>

\* The run of a finalist of the search, with caps of its own.
BeginPromotion ==
    /\ step = "idle"
    /\ IF ~Served({"train", "val"}) THEN Raise("promotion")
       ELSE \E cap \in PromotionCaps :
                \E draw \in Draws(published.report["train"], cap.benign, cap.attack) :
                    Begin("promotion", "fit finalist", draw)
    /\ UNCHANGED <<prepVars, viewVars, kaggleVars>>

\* The models that stream scale the columns first and are told the classes.
FitStreaming ==
    /\ step = "stream"
    /\ IF published.columns = {} THEN Raise("benchmark") ELSE Go("evaluate kernel", None)
    /\ UNCHANGED <<prepVars, viewVars, kaggleVars>>

\* Not every kind of model refuses a sample of one class.
Fit(script, next) ==
    \/ published.columns # {} /\ Go(next, None)
    \/ (published.columns = {} \/ 0 \in {work.benign, work.attack}) /\ Raise(script)

FitSampled ==
    /\ step = "fit kernel" /\ Fit("benchmark", "evaluate kernel")
    /\ UNCHANGED <<prepVars, viewVars, kaggleVars>>

FitFinalist ==
    /\ step = "fit finalist" /\ Fit("promotion", "evaluate finalist")
    /\ UNCHANGED <<prepVars, viewVars, kaggleVars>>

\* Three splits are evaluated before anything is written; the reports are for people.
EvaluateKernel ==
    /\ step = "evaluate kernel"
    /\ IF Served(Splits) THEN Complete("benchmark") ELSE Raise("benchmark")
    /\ UNCHANGED <<prepVars, viewVars, kaggleVars>>

EvaluateFinalist ==
    /\ step = "evaluate finalist"
    /\ IF Served(Splits) THEN Complete("promotion") ELSE Raise("promotion")
    /\ UNCHANGED <<prepVars, viewVars, kaggleVars>>

-----------------------------------------------------------------------------
\* The kernels of the family classifiers are given the dataset and derive the views
\* they need on the spot, with none of the checks made at home.
KernelViews == [attack_only |-> {"attack_only"}, direct_multiclass |-> Range(ViewOrder)]

KernelFile(v, s) == Filtered(v, s, published.rows[s])

KernelResolved(v, s) ==
    IF KernelFile(v, s) # {} \/ \A u \in KernelViews[v] : KernelFile(u, s) = {}
    THEN KernelFile(v, s)
    ELSE CHOOSE f \in {KernelFile(u, s) : u \in KernelViews[v]} : f # {}

KaggleNext ==
    \/ BeginStaging \/ LinkSplits \/ LinkManifests \/ WriteMetadata \/ Publish
    \/ BeginBenchmark \/ FitStreaming \/ FitSampled \/ EvaluateKernel
    \/ BeginPromotion \/ FitFinalist \/ EvaluateFinalist

-----------------------------------------------------------------------------
\* A dataset of one piece: all of its files, and a report that counts its rows.
OfOnePiece(d) == Linkable(d) /\ d.report = Counts(d.rows)

\* Metadata stands only over the files of one finished dataset, and so does what
\* kernels are given, whatever was killed, staged again or rebuilt at home.
StagedIsWhole ==
    /\ staged.metadata => OfOnePiece(staged.files)
    /\ published # None => OfOnePiece(published)
=============================================================================
