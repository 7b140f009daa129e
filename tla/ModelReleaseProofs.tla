-------------------------- MODULE ModelReleaseProofs --------------------------
(***************************************************************************)
(* Proofs about the scripts that make a bundle out of captures, run in any   *)
(* order and killed anywhere (BundlePackaging and the modules it extends).   *)
(***************************************************************************)
EXTENDS BundlePackaging, FiniteSetTheorems, WellFoundedInduction, TLAPS

-----------------------------------------------------------------------------
(* The scripts from captures to a bundle.  Neither DerivedIsWhole nor        *)
(* ReleaseIsWhole is inductive: both speak of what stands on the disk when a  *)
(* script has finished, and hold because of what the scripts under way have   *)
(* left so far.  ReleaseInv adds this: while a script is at work nothing made *)
(* from its product counts as up to date (NothingStale), a report counts the  *)
(* rows beside it, the files a derivation, a staging or a packaging has       *)
(* passed are the right ones, and everything that is up to date was made for  *)
(* the columns of the dataset.                                               *)

\* Where a script stands: the steps of the preprocessing, of the views, of the staging,
\* of the released run and of the family classifiers.
PrepSteps == {"clean", "assign", "trim", "write", "report"}
ViewSteps == {"derive", "index"}
StageSteps == {"splits", "manifests", "metadata"}
ReleaseSteps == {"fit", "training", "summary"}
FamilySteps == {"family", "oracle"}

\* The scripts whose products others read, and which the invariant follows.
Chain == {"preprocess", "views", "stage", "publish", "release", "thresholds", "family",
          "binary", "composite"}

\* The directories keep their layout.
LayoutsKept ==
    /\ data = [rows |-> data.rows, columns |-> data.columns, manifest |-> data.manifest,
               report |-> data.report]
    /\ staged = [files |-> staged.files, metadata |-> staged.metadata]
    /\ "rows" \in DOMAIN staged.files
    /\ views = [columns |-> views.columns, index |-> views.index, report |-> views.report,
                files |-> views.files]
    /\ DOMAIN views.files = Range(ViewOrder)
    /\ \A v \in Range(ViewOrder) : DOMAIN views.files[v] = Splits
    /\ release = [model |-> release.model, training |-> release.training,
                  summary |-> release.summary]
    /\ family = [model |-> family.model, report |-> family.report]
    /\ DOMAIN bundle = Kinds /\ \A k \in Kinds : DOMAIN bundle[k] = BundleFiles

\* While a script is at work, neither its product nor what others made of it is up to date;
\* a search has no product.
NothingStale ==
    /\ fresh \subseteq Chain
    /\ step \in PrepSteps => fresh = {}
    /\ step \in ViewSteps => "views" \notin fresh
    /\ step \in StageSteps => {"stage", "publish"} \cap fresh = {}
    /\ step \in ReleaseSteps => {"release", "thresholds"} \cap fresh = {}
    /\ step = "evaluate" => "thresholds" \notin fresh
    /\ (step \in FamilySteps /\ Makes(work.script) = "family") => "family" \notin fresh
    /\ step = "package" => work.kind \notin fresh
    /\ step = "trials" =>
           /\ work = [script |-> work.script, attack |-> work.attack, trials |-> work.trials,
                      promoted |-> work.promoted]
           /\ work.script \in {"tuning", "search"}

\* A report on the disk counts the rows beside it.
ReportCounts ==
    /\ step \in PrepSteps => data.report = None
    /\ data.report # None => data.report = Counts(data.rows)

\* One split of one view is as the source says.
Whole(v, s) ==
    LET rows == Filtered(v, s, source.rows[s])
    IN  views.files[v][s] = rows /\ (rows = {} => s = "ood")

ViewsGrow ==
    /\ step = "derive" =>
           /\ work = [view |-> work.view, at |-> work.at]
           /\ work.view \in 1..2 /\ work.at \in 1..5
           /\ \A i \in 1..2, j \in 1..4 :
                  (i < work.view \/ (i = work.view /\ j < work.at)) => Whole(ViewOrder[i], SplitNames[j])
    /\ step = "index" => \A v \in Range(ViewOrder), s \in Splits : Whole(v, s)
    /\ step \in ViewSteps => source = data /\ source.report # None /\ views.columns = source.columns /\ ~views.index
    /\ "views" \in fresh => views.columns = data.columns

StagingGrows ==
    /\ step \in StageSteps => OfOnePiece(data) /\ ~staged.metadata
    /\ step = "manifests" => staged.files.rows = data.rows
    /\ step = "metadata" => staged.files = data
    /\ "stage" \in fresh => staged.files.columns = data.columns
    /\ "publish" \in fresh => published.columns = data.columns

\* Every product that is up to date was made for the columns of the dataset.
ColumnsAgree ==
    /\ step \in {"training", "summary"} => release.model = published.columns
    /\ "release" \in fresh => release.model = data.columns
    /\ "thresholds" \in fresh => thresholds = release.model
    /\ step \in FamilySteps =>
           /\ work = [script |-> work.script, columns |-> work.columns, labels |-> work.labels]
           /\ work.script \in {"family", "multiclass", "stage2", "direct"}
           /\ Reads[work.script] \subseteq fresh => work.columns = data.columns
    /\ step = "oracle" => Makes(work.script) = "family" /\ family.model.columns = work.columns
    /\ "family" \in fresh =>
           family.model.columns = data.columns /\ family.report.labels = LabelSpace["attack_only"]

\* What a packaging has copied so far, and what a finished one has.
Packed ==
    LET k == work.kind
    IN  step = "package" =>
        /\ work = [kind |-> k, at |-> work.at]
        /\ k \in Kinds /\ work.at \in 2..Len(Packaging[k])
        /\ \A i \in 1..(work.at - 1) :
               LET f == Packaging[k][i]
               IN  bundle[k][f] # None /\ bundle[k][f] = Content(k, f)

ReleaseInv ==
    /\ LayoutsKept /\ NothingStale /\ ReportCounts /\ ViewsGrow /\ StagingGrows
    /\ ColumnsAgree /\ Packed /\ IndexMeansViews /\ StagedIsWhole /\ ReleaseIsWhole
-----------------------------------------------------------------------------
LEMMA Names ==
    /\ Range(ViewOrder) = {"attack_only", "direct_multiclass"}
    /\ SplitNames = <<"train", "val", "test", "ood">>
    /\ Splits = {"train", "val", "test", "ood"}
    /\ Len(SplitNames) = 4 /\ Len(ViewOrder) = 2
    /\ \A i, j \in 1..2 : ViewOrder[i] = ViewOrder[j] => i = j
    /\ \A i, j \in 1..4 : SplitNames[i] = SplitNames[j] => i = j
    /\ \A v \in Range(ViewOrder) : \E i \in 1..2 : v = ViewOrder[i]
    /\ \A s \in Splits : \E j \in 1..4 : s = SplitNames[j]
    /\ \A i \in 1..2 : ViewOrder[i] \in Range(ViewOrder)
    /\ \A j \in 1..4 : SplitNames[j] \in Splits
<1>1. Range(ViewOrder) = {"attack_only", "direct_multiclass"}
  BY DEF Range, ViewOrder
<1>2. SplitNames = <<"train", "val", "test", "ood">>
  BY DEF SplitNames
<1>3. Splits = {"train", "val", "test", "ood"}
  BY <1>2 DEF Splits, Range
<1>4. Len(SplitNames) = 4 /\ Len(ViewOrder) = 2
  BY <1>2 DEF ViewOrder
<1>5. /\ ViewOrder[1] = "attack_only" /\ ViewOrder[2] = "direct_multiclass"
      /\ SplitNames[1] = "train" /\ SplitNames[2] = "val" /\ SplitNames[3] = "test"
      /\ SplitNames[4] = "ood"
  BY <1>2 DEF ViewOrder
<1> QED
  BY <1>1, <1>2, <1>3, <1>4, <1>5

LEMMA ProductsFollowed == Products \subseteq Chain
<1>1. \A s \in DOMAIN Reads : Reads[s] \subseteq Chain
  BY DEF Reads, OnKaggle, Chain
<1> SUFFICES ASSUME NEW x \in Products PROVE x \in Chain
  OBVIOUS
<1>2. CASE x = "composite"
  BY <1>2 DEF Chain
<1>3. CASE x # "composite"
  <2>1. x \in UNION Range(Reads)
    BY <1>3 DEF Products
  <2>2. PICK A \in Range(Reads) : x \in A
    BY <2>1
  <2>3. PICK s \in DOMAIN Reads : A = Reads[s]
    BY DEF Range
  <2> QED
    BY <1>1, <2>2, <2>3
<1> QED
  BY <1>2, <1>3

LEMMA OutdatedFollowed ==
    ASSUME NEW s, NEW x \in fresh, x \in Chain,
           x = Makes(s) \/ Makes(s) \in Reads[x]
    PROVE  x \in Outdated(s)
<1>1. x \in DOMAIN Reads /\ Makes(x) = x
  BY DEF Reads, Makes, Chain
<1> QED
  BY <1>1 DEF Outdated

\* What beginning a script leaves up to date.
LEMMA AfterBegin ==
    ASSUME fresh \subseteq Chain, NEW s, fresh' = fresh \ Outdated(s)
    PROVE  /\ fresh' \subseteq fresh /\ Makes(s) \notin fresh'
           /\ s = "preprocess" => fresh' = {}
           /\ s = "stage" => "publish" \notin fresh'
           /\ s = "release" => "thresholds" \notin fresh'
<1>1. fresh' \subseteq fresh
  OBVIOUS
<1>2. Makes(s) \notin fresh'
  BY OutdatedFollowed
<1>3. ASSUME s = "preprocess", NEW x \in fresh PROVE x \in Outdated(s)
  <2>1. Makes(s) = "preprocess" /\ x \in Chain
    BY <1>3 DEF Makes
  <2>2. x = "preprocess" \/ "preprocess" \in Reads[x]
    BY <2>1 DEF Reads, OnKaggle, Chain
  <2> QED
    BY <2>1, <2>2, OutdatedFollowed
<1>4. s = "stage" => "publish" \notin fresh'
  <2>1. "stage" \in Reads["publish"] /\ "publish" \in Chain /\ Makes("stage") = "stage"
    BY DEF Reads, Chain, Makes
  <2> QED
    BY <2>1, OutdatedFollowed
<1>5. s = "release" => "thresholds" \notin fresh'
  <2>1. "release" \in Reads["thresholds"] /\ "thresholds" \in Chain /\ Makes("release") = "release"
    BY DEF Reads, Chain, Makes
  <2> QED
    BY <2>1, OutdatedFollowed
<1> QED
  BY <1>1, <1>2, <1>3, <1>4, <1>5

\* What a completion adds.
LEMMA AfterComplete ==
    ASSUME NEW s, Complete(s)
    PROVE  /\ step' = "idle" /\ work' = None
           /\ fresh' \subseteq fresh \cup ({Makes(s)} \cap Chain)
           /\ fresh' # fresh => Reads[s] \subseteq fresh
  BY ProductsFollowed DEF Complete

-----------------------------------------------------------------------------
\* What each part of the invariant needs, when what it speaks of is left alone.
LEMMA LayoutsFrame ==
    ASSUME LayoutsKept, UNCHANGED <<data, staged, views, release, family, bundle>>
    PROVE  LayoutsKept'
  BY DEF LayoutsKept

Watched == PrepSteps \cup ViewSteps \cup StageSteps \cup ReleaseSteps \cup FamilySteps
               \cup {"evaluate", "package", "trials"}

LEMMA StaleFrame ==
    ASSUME NothingStale, fresh' \subseteq Chain, step' \notin Watched
    PROVE  NothingStale'
  BY DEF NothingStale, Watched, PrepSteps, ViewSteps, StageSteps, ReleaseSteps, FamilySteps

LEMMA ReportFrame ==
    ASSUME ReportCounts, data' = data, step' \notin PrepSteps
    PROVE  ReportCounts'
  BY DEF ReportCounts

LEMMA ViewsFrame ==
    ASSUME ViewsGrow, UNCHANGED <<views, source, data>>, step' \notin ViewSteps,
           "views" \in fresh' => "views" \in fresh
    PROVE  ViewsGrow'
  BY DEF ViewsGrow, ViewSteps

LEMMA StagingFrame ==
    ASSUME StagingGrows, UNCHANGED <<data, staged, published>>, step' \notin StageSteps,
           "stage" \in fresh' => "stage" \in fresh, "publish" \in fresh' => "publish" \in fresh
    PROVE  StagingGrows'
  BY DEF StagingGrows, StageSteps

LEMMA ColumnsFrame ==
    ASSUME ColumnsAgree, UNCHANGED <<data, published, release, thresholds, family>>,
           step' \notin ReleaseSteps \cup FamilySteps,
           \A x \in {"release", "thresholds", "family"} : x \in fresh' => x \in fresh
    PROVE  ColumnsAgree'
  BY DEF ColumnsAgree, ReleaseSteps, FamilySteps

LEMMA PackedFrame == ASSUME step' # "package" PROVE Packed'
  BY DEF Packed

LEMMA IndexFrame == ASSUME IndexMeansViews, UNCHANGED <<views, source>> PROVE IndexMeansViews'
  BY DEF IndexMeansViews

LEMMA UploadFrame == ASSUME StagedIsWhole, UNCHANGED <<staged, published>> PROVE StagedIsWhole'
  BY DEF StagedIsWhole

LEMMA ReleaseFrame ==
    ASSUME ReleaseIsWhole, bundle' = bundle, \A k \in Kinds : k \in fresh' => k \in fresh
    PROVE  ReleaseIsWhole'
<1> SUFFICES ASSUME NEW k \in Kinds \cap fresh' PROVE
        LET b == bundle[k]
            m == b["manifest"]
        IN  /\ MeetsContract(b) /\ m.kind = k
            /\ b["model"] = b["columns"] /\ m.recommended = b["model"]
            /\ k = "composite" =>
                   /\ b["stage2_model"].columns = b["stage2_columns"]
                   /\ b["stage2_report"].labels = m.labels
  BY DEF ReleaseIsWhole
<1> QED
  BY DEF ReleaseIsWhole

\* A step that touches none of it and ends where nothing is at work.
LEMMA Quiet ==
    ASSUME ReleaseInv,
           UNCHANGED <<data, views, source, staged, published, release, thresholds, family, bundle>>,
           fresh' \subseteq fresh, step' \notin Watched
    PROVE  ReleaseInv'
<1>1. /\ step' \notin PrepSteps /\ step' \notin ViewSteps /\ step' \notin StageSteps
      /\ step' \notin ReleaseSteps \cup FamilySteps /\ step' # "package"
  BY DEF Watched
<1>2. LayoutsKept'
  BY LayoutsFrame DEF ReleaseInv
<1>3. NothingStale'
  <2>1. fresh' \subseteq Chain
    BY DEF ReleaseInv, NothingStale
  <2> QED
    BY <2>1, StaleFrame DEF ReleaseInv
<1>4. ReportCounts' /\ ViewsGrow' /\ StagingGrows' /\ ColumnsAgree' /\ Packed'
  BY <1>1, ReportFrame, ViewsFrame, StagingFrame, ColumnsFrame, PackedFrame DEF ReleaseInv
<1>5. IndexMeansViews' /\ StagedIsWhole' /\ ReleaseIsWhole'
  BY IndexFrame, UploadFrame, ReleaseFrame DEF ReleaseInv
<1> QED
  BY <1>2, <1>3, <1>4, <1>5 DEF ReleaseInv

\* A script that gives up.
LEMMA Gives ==
    ASSUME ReleaseInv,
           UNCHANGED <<data, views, source, staged, published, release, thresholds, family, bundle>>,
           NEW s, Raise(s)
    PROVE  ReleaseInv'
<1>1. fresh' = fresh /\ step' = "raised"
  BY DEF Raise
<1>2. step' \notin Watched
  BY <1>1 DEF Watched, PrepSteps, ViewSteps, StageSteps, ReleaseSteps, FamilySteps
<1> QED
  BY <1>1, <1>2, Quiet

-----------------------------------------------------------------------------
\* The preprocessing: while it runs nothing is up to date, and afterwards nothing else.
LEMMA Rebuilding ==
    ASSUME ReleaseInv,
           UNCHANGED <<views, source, staged, published, release, thresholds, family, bundle>>,
           fresh' \subseteq {"preprocess"}, step' \in PrepSteps \cup {"idle", "raised"},
           step' \in PrepSteps => fresh' = {},
           data' = [rows |-> data'.rows, columns |-> data'.columns, manifest |-> data'.manifest,
                    report |-> data'.report],
           ReportCounts'
    PROVE  ReleaseInv'
<1>1. /\ step' \notin ViewSteps /\ step' \notin StageSteps /\ step' \notin ReleaseSteps
      /\ step' \notin FamilySteps /\ step' \notin {"evaluate", "package", "trials"}
  BY DEF PrepSteps, ViewSteps, StageSteps, ReleaseSteps, FamilySteps
<1>2. LayoutsKept'
  BY DEF ReleaseInv, LayoutsKept
<1>3. NothingStale'
  <2>1. fresh' \subseteq Chain
    BY DEF Chain
  <2> QED
    BY <1>1, <2>1 DEF NothingStale
<1>4. ViewsGrow'
  BY <1>1 DEF ViewsGrow, ViewSteps
<1>5. StagingGrows'
  BY <1>1 DEF StagingGrows, StageSteps
<1>6. ColumnsAgree'
  BY <1>1 DEF ColumnsAgree, ReleaseSteps, FamilySteps
<1>7. Packed'
  BY <1>1, PackedFrame
<1>8. IndexMeansViews' /\ StagedIsWhole'
  BY IndexFrame, UploadFrame DEF ReleaseInv
<1>9. ReleaseIsWhole'
  <2>1. \A k \in Kinds : k \in fresh' => k \in fresh
    BY DEF Kinds
  <2> QED
    BY <2>1, ReleaseFrame DEF ReleaseInv
<1> QED
  BY <1>2, <1>3, <1>4, <1>5, <1>6, <1>7, <1>8, <1>9 DEF ReleaseInv

LEMMA PreprocessKeeps ==
    ASSUME ReleaseInv, PreprocessNext, UNCHANGED <<viewVars, kaggleVars, trainVars, bundle>>
    PROVE  ReleaseInv'
<1> USE DEF viewVars, kaggleVars, trainVars
<1>0. /\ fresh \subseteq Chain /\ LayoutsKept /\ ReportCounts
      /\ step \in PrepSteps => fresh = {} /\ data.report = None
  BY DEF ReleaseInv, NothingStale, ReportCounts
<1>1. CASE BeginPreprocess
  <2>1. fresh' = {} /\ step' = "clean" /\ data' = NoData
    <3>1. fresh' = fresh \ Outdated("preprocess") /\ step' = "clean" /\ data' = NoData
      BY <1>1 DEF BeginPreprocess, Begin
    <3> QED
      BY <1>0, <3>1, AfterBegin
  <2>2. step' \in PrepSteps
    BY <2>1 DEF PrepSteps
  <2>3. data'.report = None
    BY <2>1 DEF NoData
  <2>4. data' = [rows |-> data'.rows, columns |-> data'.columns, manifest |-> data'.manifest,
                 report |-> data'.report]
    BY <2>1 DEF NoData
  <2>5. ReportCounts'
    BY <2>3 DEF ReportCounts
  <2> QED
    BY <2>1, <2>2, <2>4, <2>5, Rebuilding
<1>2. ASSUME step \in PrepSteps, fresh' = fresh, step' \in PrepSteps \cup {"raised"},
             data' = [rows |-> data'.rows, columns |-> data'.columns,
                      manifest |-> data'.manifest, report |-> data'.report],
             data'.report = None
      PROVE  ReleaseInv'
  <2>1. ReportCounts'
    BY <1>2 DEF ReportCounts
  <2>2. fresh' = {}
    BY <1>0, <1>2
  <2> QED
    BY <1>2, <2>1, <2>2, Rebuilding
<1>3. CASE CleanFiles \/ AssignFamily \/ Dedupe \/ Trim
  <2>1. step \in PrepSteps /\ data' = data /\ fresh' = fresh /\ step' \in PrepSteps \cup {"raised"}
    BY <1>3 DEF CleanFiles, AssignFamily, Dedupe, Trim, Go, Raise, PrepSteps, prepVars
  <2> QED
    BY <1>0, <1>2, <2>1 DEF LayoutsKept
<1>4. CASE WriteSplit
  <2>1. step \in PrepSteps /\ fresh' = fresh /\ step' \in PrepSteps \cup {"raised"}
    BY <1>4 DEF WriteSplit, Go, Raise, PrepSteps
  <2>2. data' = data \/ \E s, r : data' = [data EXCEPT !.rows[s] = r]
    BY <1>4 DEF WriteSplit, prepVars
  <2>3. data' = [rows |-> data'.rows, columns |-> data'.columns, manifest |-> data'.manifest,
                 report |-> data'.report] /\ data'.report = data.report
    BY <1>0, <2>2 DEF LayoutsKept
  <2> QED
    BY <1>0, <1>2, <2>1, <2>3
<1>5. CASE WriteManifests
  <2>1. step \in PrepSteps /\ fresh' = fresh /\ step' \in PrepSteps
    BY <1>5 DEF WriteManifests, Go, PrepSteps
  <2>2. data' = [rows |-> data'.rows, columns |-> data'.columns, manifest |-> data'.manifest,
                 report |-> data'.report] /\ data'.report = data.report
    BY <1>0, <1>5 DEF WriteManifests, LayoutsKept
  <2> QED
    BY <1>0, <1>2, <2>1, <2>2
<1>6. CASE WriteReport
  <2>1. step \in PrepSteps /\ Complete("preprocess") /\ data' = [data EXCEPT !.report = Counts(data.rows)]
    BY <1>6 DEF WriteReport, PrepSteps
  <2>2. fresh' \subseteq {"preprocess"} /\ step' = "idle"
    BY <1>0, <2>1, AfterComplete DEF Makes
  <2>3. /\ data' = [rows |-> data'.rows, columns |-> data'.columns, manifest |-> data'.manifest,
                    report |-> data'.report]
        /\ data'.report = Counts(data.rows) /\ data'.rows = data.rows
    BY <1>0, <2>1 DEF LayoutsKept
  <2>4. ReportCounts'
    BY <2>2, <2>3 DEF ReportCounts, PrepSteps
  <2>5. step' \notin PrepSteps
    BY <2>2 DEF PrepSteps
  <2> QED
    BY <2>2, <2>3, <2>4, <2>5, Rebuilding
<1> QED
  BY <1>1, <1>3, <1>4, <1>5, <1>6 DEF PreprocessNext

-----------------------------------------------------------------------------
\* A step of the views: all else is left alone.
LEMMA Deriving ==
    ASSUME ReleaseInv,
           UNCHANGED <<data, staged, published, release, thresholds, family, bundle>>,
           fresh' \subseteq fresh \cup {"views"},
           step' \in ViewSteps \cup {"idle", "raised"},
           step' \in ViewSteps => "views" \notin fresh',
           views' = [columns |-> views'.columns, index |-> views'.index, report |-> views'.report,
                     files |-> views'.files],
           DOMAIN views'.files = Range(ViewOrder),
           \A v \in Range(ViewOrder) : DOMAIN views'.files[v] = Splits,
           ViewsGrow', IndexMeansViews'
    PROVE  ReleaseInv'
<1>1. /\ step' \notin PrepSteps /\ step' \notin StageSteps /\ step' \notin ReleaseSteps
      /\ step' \notin FamilySteps /\ step' \notin {"evaluate", "package", "trials"}
  BY DEF PrepSteps, ViewSteps, StageSteps, ReleaseSteps, FamilySteps
<1>2. LayoutsKept'
  BY DEF ReleaseInv, LayoutsKept
<1>3. NothingStale'
  <2>1. fresh' \subseteq Chain
    BY DEF ReleaseInv, NothingStale, Chain
  <2> QED
    BY <1>1, <2>1 DEF NothingStale
<1>4. ReportCounts' /\ StagingGrows' /\ Packed'
  BY <1>1, ReportFrame, StagingFrame, PackedFrame DEF ReleaseInv
<1>5. ColumnsAgree'
  <2>1. \A x \in {"release", "thresholds", "family"} : x \in fresh' => x \in fresh
    OBVIOUS
  <2> QED
    BY <1>1, <2>1, ColumnsFrame DEF ReleaseInv
<1>6. StagedIsWhole'
  BY UploadFrame DEF ReleaseInv
<1>7. ReleaseIsWhole'
  <2>1. \A k \in Kinds : k \in fresh' => k \in fresh
    BY DEF Kinds
  <2> QED
    BY <2>1, ReleaseFrame DEF ReleaseInv
<1> QED
  BY <1>2, <1>3, <1>4, <1>5, <1>6, <1>7 DEF ReleaseInv

LEMMA ViewsKeep ==
    ASSUME ReleaseInv, ViewNext, UNCHANGED <<kaggleVars, trainVars, bundle>>
    PROVE  ReleaseInv'
<1> USE DEF prepVars, viewVars, kaggleVars, trainVars
<1>0. /\ fresh \subseteq Chain /\ LayoutsKept /\ ReportCounts /\ ViewsGrow /\ IndexMeansViews
      /\ step \in ViewSteps => "views" \notin fresh
  BY DEF ReleaseInv, NothingStale
<1>a. /\ views = [columns |-> views.columns, index |-> views.index, report |-> views.report,
                  files |-> views.files]
      /\ DOMAIN views.files = Range(ViewOrder)
      /\ \A v \in Range(ViewOrder) : DOMAIN views.files[v] = Splits
  BY <1>0 DEF LayoutsKept
<1>1. CASE BeginViews
  <2>1. CASE None \in {data.columns, data.manifest, data.report}
    BY <1>1, <2>1, Gives DEF BeginViews
  <2>2. CASE None \notin {data.columns, data.manifest, data.report}
    <3>1. /\ fresh' = fresh \ Outdated("views") /\ step' = "derive"
          /\ work' = [view |-> 1, at |-> 1] /\ data' = data
          /\ views' = [NoViews EXCEPT !.columns = data.columns] /\ source' = data
      BY <1>1, <2>2 DEF BeginViews, Begin
    <3>2. fresh' \subseteq fresh /\ "views" \notin fresh'
      BY <1>0, <3>1, AfterBegin DEF Makes
    <3>3. /\ views' = [columns |-> data.columns, index |-> FALSE, report |-> {},
                       files |-> [v \in Range(ViewOrder) |-> [s \in Splits |-> {}]]]
      BY <3>1 DEF NoViews
    <3>4. ViewsGrow'
      <4>1. work'.view = 1 /\ work'.at = 1 /\ step' \in ViewSteps /\ step' # "index"
        BY <3>1 DEF ViewSteps
      <4>2. source'.report # None /\ views'.columns = source'.columns /\ views'.index = FALSE
        BY <2>2, <3>1, <3>3
      <4> QED
        BY <3>1, <3>2, <4>1, <4>2 DEF ViewsGrow
    <3>5. IndexMeansViews'
      BY <3>3 DEF IndexMeansViews
    <3>6. step' \in ViewSteps
      BY <3>1 DEF ViewSteps
    <3> QED
      BY <1>1, <3>2, <3>3, <3>4, <3>5, <3>6, Deriving DEF BeginViews
  <2> QED
    BY <2>1, <2>2
<1>2. CASE DeriveSplit
  <2> DEFINE v == ViewOrder[work.view]
             s == SplitNames[work.at]
             rows == Filtered(v, s, data.rows[s])
  <2>1. step = "derive" /\ step \in ViewSteps /\ work.at <= 4
    BY <1>2, Names DEF DeriveSplit, ViewSteps
  <2>2. CASE Unexpected(s, data.rows[s]) # {} \/ (s # "ood" /\ rows = {})
    BY <1>2, <2>2, Gives DEF DeriveSplit
  <2>3. CASE ~(Unexpected(s, data.rows[s]) # {} \/ (s # "ood" /\ rows = {}))
    <3>1. /\ step' = "derive" /\ fresh' = fresh /\ work' = [work EXCEPT !.at = @ + 1]
          /\ views' = [views EXCEPT !.files[v][s] = rows]
          /\ UNCHANGED <<data, source>>
      BY <1>2, <2>3 DEF DeriveSplit, Go
    <3>2. /\ work = [view |-> work.view, at |-> work.at]
          /\ work.view \in 1..2 /\ work.at \in 1..4
          /\ source = data /\ source.report # None /\ views.columns = source.columns /\ ~views.index
      BY <1>0, <2>1 DEF ViewsGrow
    <3>3. v \in Range(ViewOrder) /\ s \in Splits
      BY <3>2, Names
    <3>4. /\ views' = [columns |-> views'.columns, index |-> views'.index, report |-> views'.report,
                       files |-> views'.files]
          /\ views'.columns = views.columns /\ views'.index = views.index
          /\ views'.files = [views.files EXCEPT ![v][s] = rows]
      <4> HIDE DEF v, s, rows
      <4> QED
        BY <1>a, <3>1
    <3>5. /\ DOMAIN views'.files = Range(ViewOrder)
          /\ \A u \in Range(ViewOrder) : DOMAIN views'.files[u] = Splits
          /\ views'.files[v][s] = rows
          /\ \A u \in Range(ViewOrder), t \in Splits :
                 <<u, t>> # <<v, s>> => views'.files[u][t] = views.files[u][t]
      <4> HIDE DEF v, s, rows
      <4> QED
        BY <1>a, <3>3, <3>4
    <3>6. work'.view = work.view /\ work'.at = work.at + 1
          /\ work' = [view |-> work'.view, at |-> work'.at]
      BY <3>1, <3>2
    <3>7. ASSUME NEW i \in 1..2, NEW j \in 1..4,
                 i < work'.view \/ (i = work'.view /\ j < work'.at)
          PROVE  Whole(ViewOrder[i], SplitNames[j])'
      <4>1. CASE i = work.view /\ j = work.at
        <5>1. rows = {} => s = "ood"
          BY <2>3
        <5> QED
          BY <3>1, <3>2, <3>5, <4>1, <5>1 DEF Whole
      <4>2. CASE ~(i = work.view /\ j = work.at)
        <5>1. Whole(ViewOrder[i], SplitNames[j])
          BY <1>0, <2>1, <3>2, <3>6, <3>7, <4>2 DEF ViewsGrow
        <5>2. <<ViewOrder[i], SplitNames[j]>> # <<v, s>>
          BY <3>2, <4>2, Names
        <5>3. views'.files[ViewOrder[i]][SplitNames[j]] = views.files[ViewOrder[i]][SplitNames[j]]
          BY <3>5, <5>2, Names
        <5> QED
          BY <3>1, <5>1, <5>3 DEF Whole
      <4> QED
        BY <4>1, <4>2
    <3>8. ViewsGrow'
      <4>1. step' # "index" /\ "views" \notin fresh'
        BY <1>0, <2>1, <3>1
      <4>2. work'.view \in 1..2 /\ work'.at \in 1..5
        BY <3>2, <3>6
      <4> QED
        BY <3>1, <3>2, <3>4, <3>6, <3>7, <4>1, <4>2 DEF ViewsGrow
    <3>9. IndexMeansViews'
      BY <3>2, <3>4 DEF IndexMeansViews
    <3>10. step' \in ViewSteps /\ "views" \notin fresh' /\ fresh' \subseteq fresh \cup {"views"}
      BY <1>0, <2>1, <3>1 DEF ViewSteps
    <3> HIDE DEF v, s, rows
    <3> QED
      BY <3>1, <3>4, <3>5, <3>8, <3>9, <3>10, Deriving
  <2> QED
    BY <2>2, <2>3
<1>3. CASE CloseView
  <2>1. /\ step = "derive" /\ step \in ViewSteps /\ work.at > 4 /\ UNCHANGED <<data, source>>
        /\ views' = [views EXCEPT !.report = @ \cup {ViewOrder[work.view]}] /\ fresh' = fresh
    BY <1>3, Names DEF CloseView, ViewSteps, Go
  <2>2. /\ work.view \in 1..2 /\ work.at = 5
        /\ source = data /\ source.report # None /\ views.columns = source.columns /\ ~views.index
    BY <1>0, <2>1 DEF ViewsGrow
  <2>3. /\ views' = [columns |-> views'.columns, index |-> views'.index, report |-> views'.report,
                     files |-> views'.files]
        /\ views'.columns = views.columns /\ views'.index = views.index
        /\ views'.files = views.files
    BY <1>a, <2>1
  <2>4. \A i \in 1..2, j \in 1..4 : i <= work.view => Whole(ViewOrder[i], SplitNames[j])
    BY <1>0, <2>1, <2>2 DEF ViewsGrow
  <2>5. \A i \in 1..2, j \in 1..4 : i <= work.view => Whole(ViewOrder[i], SplitNames[j])'
    BY <2>1, <2>3, <2>4 DEF Whole
  <2>6. "views" \notin fresh' /\ step' \in ViewSteps /\ fresh' \subseteq fresh \cup {"views"}
    BY <1>0, <1>3, <2>1 DEF CloseView, Go, ViewSteps
  <2>7. ViewsGrow'
    <3>1. CASE work.view < Len(ViewOrder)
      <4>1. step' = "derive" /\ work' = [view |-> work.view + 1, at |-> 1]
        BY <1>3, <3>1 DEF CloseView, Go
      <4>2. work'.view = 2 /\ work'.at = 1 /\ work.view = 1 /\ step' # "index"
        BY <2>2, <3>1, <4>1, Names
      <4>3. \A i \in 1..2, j \in 1..4 :
                (i < work'.view \/ (i = work'.view /\ j < work'.at)) => Whole(ViewOrder[i], SplitNames[j])'
        BY <2>5, <4>2
      <4> QED
        BY <2>1, <2>2, <2>3, <2>6, <4>1, <4>2, <4>3 DEF ViewsGrow
    <3>2. CASE ~(work.view < Len(ViewOrder))
      <4>1. step' = "index" /\ work.view = 2
        BY <1>3, <2>2, <3>2, Names DEF CloseView, Go
      <4>2. \A i \in 1..2, j \in 1..4 : Whole(ViewOrder[i], SplitNames[j])'
        BY <2>2, <2>5, <4>1
      <4>3. \A v \in Range(ViewOrder), s \in Splits : Whole(v, s)'
        BY <4>2, Names
      <4> QED
        BY <2>1, <2>2, <2>3, <2>6, <4>1, <4>3 DEF ViewsGrow
    <3> QED
      BY <3>1, <3>2
  <2>8. IndexMeansViews'
    BY <2>2, <2>3 DEF IndexMeansViews
  <2> QED
    BY <1>a, <2>1, <2>3, <2>6, <2>7, <2>8, Deriving
<1>4. CASE WriteIndex
  <2>1. /\ step = "index" /\ step \in ViewSteps /\ UNCHANGED <<data, source>>
        /\ views' = [views EXCEPT !.index = TRUE] /\ Complete("views")
    BY <1>4 DEF WriteIndex, ViewSteps
  <2>2. /\ views' = [columns |-> views'.columns, index |-> views'.index, report |-> views'.report,
                     files |-> views'.files]
        /\ views'.columns = views.columns /\ views'.files = views.files
    BY <1>a, <2>1
  <2>3. step' = "idle" /\ fresh' \subseteq fresh \cup {"views"} /\ step' \notin ViewSteps
    BY <2>1, AfterComplete DEF ViewSteps, Makes
  <2>4. ViewsGrow'
    BY <1>0, <2>1, <2>2, <2>3 DEF ViewsGrow, ViewSteps
  <2>5. IndexMeansViews'
    <3>1. source.report # None /\ views.columns = source.columns
          /\ \A v \in Range(ViewOrder), s \in Splits : Whole(v, s)
      BY <1>0, <2>1 DEF ViewsGrow
    <3> QED
      BY <2>1, <2>2, <3>1 DEF IndexMeansViews, Whole
  <2> QED
    BY <1>a, <2>1, <2>2, <2>3, <2>4, <2>5, Deriving
<1> QED
  BY <1>1, <1>2, <1>3, <1>4 DEF ViewNext

-----------------------------------------------------------------------------
\* A step of the staging: all else is left alone.
LEMMA Staging ==
    ASSUME ReleaseInv,
           UNCHANGED <<data, views, source, release, thresholds, family, bundle, published>>,
           fresh' \subseteq fresh \cup {"stage"},
           step' \in StageSteps \cup {"idle"},
           step' \in StageSteps => {"stage", "publish"} \cap fresh' = {},
           staged' = [files |-> staged'.files, metadata |-> staged'.metadata],
           "rows" \in DOMAIN staged'.files, StagingGrows', StagedIsWhole'
    PROVE  ReleaseInv'
<1>1. /\ step' \notin PrepSteps /\ step' \notin ViewSteps /\ step' \notin ReleaseSteps
      /\ step' \notin FamilySteps /\ step' \notin {"evaluate", "package", "trials"}
  BY DEF PrepSteps, ViewSteps, StageSteps, ReleaseSteps, FamilySteps
<1>2. LayoutsKept'
  BY DEF ReleaseInv, LayoutsKept
<1>3. NothingStale'
  <2>1. fresh' \subseteq Chain
    BY DEF ReleaseInv, NothingStale, Chain
  <2> QED
    BY <1>1, <2>1 DEF NothingStale
<1>4. ReportCounts' /\ ViewsGrow' /\ Packed' /\ IndexMeansViews'
  BY <1>1, ReportFrame, ViewsFrame, PackedFrame, IndexFrame DEF ReleaseInv
<1>5. ColumnsAgree'
  <2>1. \A x \in {"release", "thresholds", "family"} : x \in fresh' => x \in fresh
    OBVIOUS
  <2> QED
    BY <1>1, <2>1, ColumnsFrame DEF ReleaseInv
<1>6. ReleaseIsWhole'
  <2>1. \A k \in Kinds : k \in fresh' => k \in fresh
    BY DEF Kinds
  <2> QED
    BY <2>1, ReleaseFrame DEF ReleaseInv
<1> QED
  BY <1>2, <1>3, <1>4, <1>5, <1>6 DEF ReleaseInv

\* A script whose results are read by people only.
LEMMA NoProduct ==
    ASSUME NEW s \in {"benchmark", "promotion", "search", "baselines", "tuning", "multiclass",
                      "direct", "gated"},
           Complete(s)
    PROVE  step' = "idle" /\ fresh' \subseteq fresh /\ step' \notin Watched
<1>1. Makes(s) \notin Chain
  BY DEF Makes, Chain
<1>2. step' = "idle" /\ fresh' \subseteq fresh
  BY <1>1, AfterComplete
<1> QED
  BY <1>2 DEF Watched, PrepSteps, ViewSteps, StageSteps, ReleaseSteps, FamilySteps

LEMMA KaggleKeeps ==
    ASSUME ReleaseInv, KaggleNext, UNCHANGED <<trainVars, bundle>>
    PROVE  ReleaseInv'
<1> USE DEF prepVars, viewVars, kaggleVars, trainVars
<1>0. /\ fresh \subseteq Chain /\ LayoutsKept /\ ReportCounts /\ StagingGrows /\ StagedIsWhole
      /\ step \in StageSteps => {"stage", "publish"} \cap fresh = {}
      /\ staged = [files |-> staged.files, metadata |-> staged.metadata]
      /\ "rows" \in DOMAIN staged.files
  BY DEF ReleaseInv, NothingStale, LayoutsKept
<1>1. CASE BeginStaging
  <2>1. CASE ~Linkable(data)
    BY <1>1, <2>1, Gives DEF BeginStaging
  <2>2. CASE Linkable(data)
    <3>1. /\ fresh' = fresh \ Outdated("stage") /\ step' = "splits" /\ staged' = NothingStaged
          /\ UNCHANGED <<data, published>>
      BY <1>1, <2>2 DEF BeginStaging, Begin
    <3>2. fresh' \subseteq fresh /\ {"stage", "publish"} \cap fresh' = {}
      BY <1>0, <3>1, AfterBegin DEF Makes
    <3>3. OfOnePiece(data)
      BY <1>0, <2>2 DEF OfOnePiece, Linkable, ReportCounts
    <3>4. /\ staged' = [files |-> staged'.files, metadata |-> staged'.metadata]
          /\ ~staged'.metadata /\ "rows" \in DOMAIN staged'.files
      BY <3>1 DEF NothingStaged, NoData
    <3>5. OfOnePiece(data)'
      BY <3>1, <3>3
    <3>6. StagingGrows'
      BY <3>1, <3>2, <3>4, <3>5 DEF StagingGrows, StageSteps
    <3>7. StagedIsWhole'
      BY <1>0, <3>1, <3>4 DEF StagedIsWhole
    <3> QED
      BY <1>1, <3>1, <3>2, <3>4, <3>6, <3>7, Staging DEF BeginStaging, StageSteps
  <2> QED
    BY <2>1, <2>2
<1>2. CASE LinkSplits
  <2>1. /\ step = "splits" /\ step' = "manifests" /\ fresh' = fresh /\ UNCHANGED <<data, published>>
        /\ staged' = [staged EXCEPT !.files.rows = data.rows]
    BY <1>2 DEF LinkSplits, Go
  <2>2. OfOnePiece(data) /\ ~staged.metadata /\ {"stage", "publish"} \cap fresh = {}
    BY <1>0, <2>1 DEF StagingGrows, StageSteps
  <2>3. /\ staged' = [files |-> staged'.files, metadata |-> staged'.metadata]
        /\ staged'.metadata = staged.metadata
        /\ staged'.files = [staged.files EXCEPT !.rows = data.rows]
    BY <1>0, <2>1
  <2>4. staged'.files.rows = data.rows /\ "rows" \in DOMAIN staged'.files
    BY <1>0, <2>3
  <2>5. OfOnePiece(data)'
    BY <2>1, <2>2
  <2>6. StagingGrows'
    BY <2>1, <2>2, <2>3, <2>4, <2>5 DEF StagingGrows, StageSteps
  <2>7. StagedIsWhole'
    BY <1>0, <2>1, <2>2, <2>3 DEF StagedIsWhole
  <2> QED
    BY <1>2, <2>1, <2>2, <2>3, <2>4, <2>6, <2>7, Staging DEF LinkSplits, StageSteps
<1>3. CASE LinkManifests
  <2>1. /\ step = "manifests" /\ step' = "metadata" /\ fresh' = fresh /\ UNCHANGED <<data, published>>
        /\ staged' = [staged EXCEPT !.files = [data EXCEPT !.rows = staged.files.rows]]
    BY <1>3 DEF LinkManifests, Go
  <2>2. /\ OfOnePiece(data) /\ ~staged.metadata /\ {"stage", "publish"} \cap fresh = {}
        /\ staged.files.rows = data.rows
    BY <1>0, <2>1 DEF StagingGrows, StageSteps
  <2>3. [data EXCEPT !.rows = staged.files.rows] = data
    BY <1>0, <2>2 DEF LayoutsKept
  <2>4. /\ staged' = [files |-> staged'.files, metadata |-> staged'.metadata]
        /\ staged'.metadata = staged.metadata /\ staged'.files = data
        /\ "rows" \in DOMAIN staged'.files
    BY <1>0, <2>1, <2>3 DEF LayoutsKept
  <2>5. OfOnePiece(data)'
    BY <2>1, <2>2
  <2>6. StagingGrows'
    BY <2>1, <2>2, <2>4, <2>5 DEF StagingGrows, StageSteps
  <2>7. StagedIsWhole'
    BY <1>0, <2>1, <2>2, <2>4 DEF StagedIsWhole
  <2> QED
    BY <1>3, <2>1, <2>2, <2>4, <2>6, <2>7, Staging DEF LinkManifests, StageSteps
<1>4. CASE WriteMetadata
  <2>1. /\ step = "metadata" /\ Complete("stage") /\ UNCHANGED <<data, published>>
        /\ staged' = [staged EXCEPT !.metadata = TRUE]
    BY <1>4 DEF WriteMetadata
  <2>2. OfOnePiece(data) /\ staged.files = data /\ "publish" \notin fresh
    BY <1>0, <2>1 DEF StagingGrows, StageSteps
  <2>3. /\ staged' = [files |-> staged'.files, metadata |-> staged'.metadata]
        /\ staged'.files = staged.files
    BY <1>0, <2>1
  <2>4. step' = "idle" /\ fresh' \subseteq fresh \cup {"stage"} /\ step' \notin StageSteps
    BY <2>1, AfterComplete DEF Makes, StageSteps
  <2>5. StagingGrows'
    BY <2>1, <2>2, <2>3, <2>4 DEF StagingGrows, StageSteps
  <2>6. StagedIsWhole'
    BY <1>0, <2>1, <2>2, <2>3 DEF StagedIsWhole
  <2> QED
    BY <1>0, <1>4, <2>1, <2>3, <2>4, <2>5, <2>6, Staging DEF WriteMetadata
<1>5. CASE Publish
  <2>1. /\ step = "idle" /\ step' = step /\ staged.metadata /\ published' = staged.files
        /\ fresh' = (fresh \ Outdated("publish")) \cup {p \in {"publish"} : Reads[p] \subseteq fresh}
        /\ UNCHANGED <<data, views, source, staged, release, thresholds, family, bundle>>
    BY <1>5 DEF Publish
  <2>2. fresh' \subseteq fresh \cup {"publish"} /\ fresh' \subseteq Chain /\ step' \notin Watched
    BY <1>0, <2>1 DEF Chain, Watched, PrepSteps, ViewSteps, StageSteps, ReleaseSteps, FamilySteps
  <2>3. "publish" \in fresh' => staged.files.columns = data.columns
    <3>1. ASSUME "publish" \in fresh' PROVE Reads["publish"] \subseteq fresh
      <4>1. "publish" \notin fresh \ Outdated("publish")
        BY <1>0, OutdatedFollowed DEF Makes, Chain
      <4> QED
        BY <2>1, <3>1, <4>1
    <3>2. "stage" \in Reads["publish"]
      BY DEF Reads
    <3> QED
      BY <1>0, <3>1, <3>2 DEF StagingGrows
  <2>4. StagingGrows'
    BY <1>0, <2>1, <2>2, <2>3 DEF StagingGrows, StageSteps
  <2>5. StagedIsWhole'
    BY <1>0, <2>1 DEF StagedIsWhole
  <2>6. /\ step' \notin PrepSteps /\ step' \notin ViewSteps /\ step' \notin ReleaseSteps
        /\ step' \notin FamilySteps /\ step' \notin {"evaluate", "package", "trials"}
    BY <2>2 DEF Watched
  <2>7. LayoutsKept' /\ NothingStale' /\ ReportCounts' /\ ViewsGrow' /\ Packed' /\ IndexMeansViews'
    BY <2>1, <2>2, <2>6, LayoutsFrame, StaleFrame, ReportFrame, ViewsFrame, PackedFrame, IndexFrame
       DEF ReleaseInv
  <2>8. ColumnsAgree'
    <3>1. "release" \in fresh' => "release" \in fresh
      BY <2>2
    <3>2. "thresholds" \in fresh' => "thresholds" \in fresh
      BY <2>2
    <3>3. "family" \in fresh' => "family" \in fresh
      BY <2>2
    <3>4. step' \notin FamilySteps /\ step' \notin {"training", "summary"} /\ step' # "oracle"
      BY <2>6 DEF ReleaseSteps, FamilySteps
    <3> QED
      BY <2>1, <3>1, <3>2, <3>3, <3>4 DEF ReleaseInv, ColumnsAgree
  <2>9. ReleaseIsWhole'
    <3>1. \A k \in Kinds : k \in fresh' => k \in fresh
      BY <2>2 DEF Kinds
    <3> QED
      BY <2>1, <3>1, ReleaseFrame DEF ReleaseInv
  <2> QED
    BY <2>4, <2>5, <2>7, <2>8, <2>9 DEF ReleaseInv
<1>6. CASE BeginBenchmark \/ BeginPromotion
  <2>1. /\ UNCHANGED <<data, views, source, staged, published, release, thresholds, family, bundle>>
        /\ \/ \E s : Raise(s)
           \/ fresh' \subseteq fresh /\ step' \in {"stream", "fit kernel", "fit finalist"}
    BY <1>6 DEF BeginBenchmark, BeginPromotion, Begin
  <2>2. step' \in {"stream", "fit kernel", "fit finalist"} => step' \notin Watched
    BY DEF Watched, PrepSteps, ViewSteps, StageSteps, ReleaseSteps, FamilySteps
  <2> QED
    BY <2>1, <2>2, Gives, Quiet
<1>7. CASE FitStreaming \/ FitSampled \/ FitFinalist
  <2>1. /\ UNCHANGED <<data, views, source, staged, published, release, thresholds, family, bundle>>
        /\ \/ \E s : Raise(s)
           \/ fresh' = fresh /\ step' \in {"evaluate kernel", "evaluate finalist"}
    BY <1>7 DEF FitStreaming, FitSampled, FitFinalist, Fit, Go
  <2>2. step' \in {"evaluate kernel", "evaluate finalist"} => step' \notin Watched
    BY DEF Watched, PrepSteps, ViewSteps, StageSteps, ReleaseSteps, FamilySteps
  <2> QED
    BY <2>1, <2>2, Gives, Quiet
<1>8. CASE EvaluateKernel \/ EvaluateFinalist
  <2>1. /\ UNCHANGED <<data, views, source, staged, published, release, thresholds, family, bundle>>
        /\ \E s \in {"benchmark", "promotion"} : Raise(s) \/ Complete(s)
    BY <1>8 DEF EvaluateKernel, EvaluateFinalist
  <2> QED
    BY <2>1, Gives, NoProduct, Quiet
<1> QED
  BY <1>1, <1>2, <1>3, <1>4, <1>5, <1>6, <1>7, <1>8 DEF KaggleNext

-----------------------------------------------------------------------------
\* A step of the training: of what the invariant speaks of, only its products change.
LEMMA Training ==
    ASSUME ReleaseInv, UNCHANGED <<data, views, source, staged, published, bundle>>,
           NEW Own, Own \subseteq {"release", "thresholds", "family"},
           fresh' \subseteq fresh \cup Own,
           step' \in ReleaseSteps => {"release", "thresholds"} \cap fresh' = {},
           step' = "evaluate" => "thresholds" \notin fresh',
           (step' \in FamilySteps /\ Makes(work'.script) = "family") => "family" \notin fresh',
           step' \in ReleaseSteps \cup FamilySteps \cup {"evaluate", "idle"},
           release' = [model |-> release'.model, training |-> release'.training,
                       summary |-> release'.summary],
           family' = [model |-> family'.model, report |-> family'.report],
           ColumnsAgree'
    PROVE  ReleaseInv'
<1>1. /\ step' \notin PrepSteps /\ step' \notin ViewSteps /\ step' \notin StageSteps
      /\ step' \notin {"package", "trials"}
  BY DEF PrepSteps, ViewSteps, StageSteps, ReleaseSteps, FamilySteps
<1>2. LayoutsKept'
  BY DEF ReleaseInv, LayoutsKept
<1>3. NothingStale'
  <2>1. fresh' \subseteq Chain
    BY DEF ReleaseInv, NothingStale, Chain
  <2> QED
    BY <1>1, <2>1 DEF NothingStale
<1>4. "views" \notin Own /\ "stage" \notin Own /\ "publish" \notin Own
  OBVIOUS
<1>5. ReportCounts' /\ ViewsGrow' /\ StagingGrows' /\ Packed' /\ IndexMeansViews' /\ StagedIsWhole'
  BY <1>1, <1>4, ReportFrame, ViewsFrame, StagingFrame, PackedFrame, IndexFrame, UploadFrame
     DEF ReleaseInv
<1>6. ReleaseIsWhole'
  <2>1. \A k \in Kinds : k \in fresh' => k \in fresh
    BY DEF Kinds
  <2> QED
    BY <2>1, ReleaseFrame DEF ReleaseInv
<1> QED
  BY <1>2, <1>3, <1>5, <1>6 DEF ReleaseInv

LEMMA TrainKeeps ==
    ASSUME ReleaseInv, TrainNext, UNCHANGED bundle
    PROVE  ReleaseInv'
<1> USE DEF prepVars, viewVars, kaggleVars, trainVars
<1>0. /\ fresh \subseteq Chain /\ ColumnsAgree /\ StagingGrows
      /\ step \in ReleaseSteps => {"release", "thresholds"} \cap fresh = {}
      /\ step = "evaluate" => "thresholds" \notin fresh
      /\ release = [model |-> release.model, training |-> release.training,
                    summary |-> release.summary]
      /\ family = [model |-> family.model, report |-> family.report]
  BY DEF ReleaseInv, NothingStale, LayoutsKept
<1>1. CASE BeginRelease
  <2>1. CASE \E s : Raise(s)
    BY <1>1, <2>1, Gives DEF BeginRelease
  <2>2. CASE ~\E s : Raise(s)
    <3>1. /\ fresh' = fresh \ Outdated("release") /\ step' = "fit"
          /\ UNCHANGED <<data, views, source, staged, published, release, thresholds, family, bundle>>
      BY <1>1, <2>2 DEF BeginRelease, Begin
    <3>2. fresh' \subseteq fresh /\ {"release", "thresholds"} \cap fresh' = {}
      BY <1>0, <3>1, AfterBegin DEF Makes
    <3>3. ColumnsAgree'
      BY <1>0, <3>1, <3>2 DEF ColumnsAgree, FamilySteps
    <3> QED
      BY <1>0, <3>1, <3>2, <3>3, Training DEF ReleaseSteps, FamilySteps
  <2> QED
    BY <2>1, <2>2
<1>2. CASE FitRelease
  <2>1. CASE \E s : Raise(s)
    BY <1>2, <2>1, Gives DEF FitRelease, Go, Raise
  <2>2. CASE ~\E s : Raise(s)
    <3>1. /\ step = "fit" /\ step' = "training" /\ fresh' = fresh
          /\ release' = [release EXCEPT !.model = published.columns]
          /\ UNCHANGED <<data, views, source, staged, published, thresholds, family, bundle>>
      BY <1>2, <2>2 DEF FitRelease, Go
    <3>2. /\ release' = [model |-> release'.model, training |-> release'.training,
                         summary |-> release'.summary]
          /\ release'.model = published.columns
      BY <1>0, <3>1
    <3>3. {"release", "thresholds"} \cap fresh' = {}
      BY <1>0, <3>1 DEF ReleaseSteps
    <3>4. ColumnsAgree'
      BY <1>0, <3>1, <3>2, <3>3 DEF ColumnsAgree, FamilySteps
    <3> QED
      BY <1>0, <3>1, <3>2, <3>3, <3>4, Training DEF ReleaseSteps, FamilySteps
  <2> QED
    BY <2>1, <2>2
<1>3. CASE WriteTraining
  <2>1. /\ step = "training" /\ step' = "summary" /\ fresh' = fresh
        /\ release' = [release EXCEPT !.training = published.columns]
        /\ UNCHANGED <<data, views, source, staged, published, thresholds, family, bundle>>
    BY <1>3 DEF WriteTraining, Go
  <2>2. /\ release' = [model |-> release'.model, training |-> release'.training,
                       summary |-> release'.summary]
        /\ release'.model = release.model
    BY <1>0, <2>1
  <2>3. {"release", "thresholds"} \cap fresh' = {}
    BY <1>0, <2>1 DEF ReleaseSteps
  <2>4. ColumnsAgree'
    BY <1>0, <2>1, <2>2, <2>3 DEF ColumnsAgree, FamilySteps
  <2> QED
    BY <1>0, <2>1, <2>2, <2>3, <2>4, Training DEF ReleaseSteps, FamilySteps
<1>4. CASE WriteSummary
  <2>1. /\ step = "summary" /\ Complete("release")
        /\ release' = [release EXCEPT !.summary = published.columns]
        /\ UNCHANGED <<data, views, source, staged, published, thresholds, family, bundle>>
    BY <1>4 DEF WriteSummary
  <2>2. /\ release' = [model |-> release'.model, training |-> release'.training,
                       summary |-> release'.summary]
        /\ release'.model = release.model
    BY <1>0, <2>1
  <2>3. {"release", "thresholds"} \cap fresh = {} /\ release.model = published.columns
    BY <1>0, <2>1 DEF ReleaseSteps, ColumnsAgree
  <2>4. /\ step' = "idle" /\ fresh' \subseteq fresh \cup {"release"}
        /\ fresh' # fresh => Reads["release"] \subseteq fresh
    BY <2>1, AfterComplete DEF Makes
  <2>5. "release" \in fresh' => release'.model = data.columns
    <3>1. "publish" \in Reads["release"]
      BY DEF Reads, OnKaggle
    <3> QED
      BY <1>0, <2>2, <2>3, <2>4, <3>1 DEF StagingGrows
  <2>6. ColumnsAgree'
    BY <1>0, <2>1, <2>2, <2>3, <2>4, <2>5 DEF ColumnsAgree, FamilySteps
  <2> QED
    BY <1>0, <2>1, <2>2, <2>4, <2>6, Training DEF ReleaseSteps, FamilySteps
<1>5. CASE BeginBaselines \/ FitBaseline \/ ScoreBaseline
  <2>1. /\ UNCHANGED <<data, views, source, staged, published, release, thresholds, family, bundle>>
        /\ \/ \E s : Raise(s)
           \/ fresh' \subseteq fresh /\ step' \in {"baseline", "score baseline"}
           \/ Complete("baselines")
    BY <1>5 DEF BeginBaselines, FitBaseline, ScoreBaseline, Begin, Go
  <2>2. step' \in {"baseline", "score baseline"} => step' \notin Watched
    BY DEF Watched, PrepSteps, ViewSteps, StageSteps, ReleaseSteps, FamilySteps
  <2> QED
    BY <2>1, <2>2, Gives, NoProduct, Quiet
<1>6. CASE BeginThresholds
  <2>1. CASE \E s : Raise(s)
    BY <1>6, <2>1, Gives DEF BeginThresholds
  <2>2. CASE ~\E s : Raise(s)
    <3>1. /\ fresh' = fresh \ Outdated("thresholds") /\ step' = "evaluate"
          /\ UNCHANGED <<data, views, source, staged, published, release, thresholds, family, bundle>>
      BY <1>6, <2>2 DEF BeginThresholds, Begin
    <3>2. fresh' \subseteq fresh /\ "thresholds" \notin fresh'
      BY <1>0, <3>1, AfterBegin DEF Makes
    <3>3. step' \notin ReleaseSteps \cup FamilySteps
      BY <3>1 DEF ReleaseSteps, FamilySteps
    <3>4. ColumnsAgree'
      BY <1>0, <3>1, <3>2, <3>3, ColumnsFrame
    <3> QED
      BY <1>0, <3>1, <3>2, <3>3, <3>4, Training
  <2> QED
    BY <2>1, <2>2
<1>7. CASE WriteSelection
  <2>1. CASE \E s : Raise(s)
    BY <1>7, <2>1, Gives DEF WriteSelection, Complete, Raise
  <2>2. CASE ~\E s : Raise(s)
    <3>1. /\ step = "evaluate" /\ Complete("thresholds") /\ thresholds' = release.model
          /\ UNCHANGED <<data, views, source, staged, published, release, family, bundle>>
      BY <1>7, <2>2 DEF WriteSelection
    <3>2. step' = "idle" /\ fresh' \subseteq fresh \cup {"thresholds"}
      BY <3>1, AfterComplete DEF Makes
    <3>3. ColumnsAgree'
      BY <1>0, <3>1, <3>2 DEF ColumnsAgree, FamilySteps
    <3> QED
      BY <1>0, <3>1, <3>2, <3>3, Training DEF ReleaseSteps, FamilySteps
  <2> QED
    BY <2>1, <2>2
<1>8. ASSUME fresh' \subseteq fresh, step' = "trials",
             work' = [script |-> work'.script, attack |-> work'.attack, trials |-> work'.trials,
                      promoted |-> work'.promoted],
             work'.script \in {"tuning", "search"},
             UNCHANGED <<data, views, source, staged, published, release, thresholds, family, bundle>>
      PROVE  ReleaseInv'
  <2>1. /\ step' \notin PrepSteps /\ step' \notin ViewSteps /\ step' \notin StageSteps
        /\ step' \notin ReleaseSteps \cup FamilySteps /\ step' # "package" /\ step' # "evaluate"
    BY <1>8 DEF PrepSteps, ViewSteps, StageSteps, ReleaseSteps, FamilySteps
  <2>2. NothingStale'
    BY <1>0, <1>8, <2>1 DEF NothingStale
  <2>3. LayoutsKept' /\ ReportCounts' /\ ViewsGrow' /\ StagingGrows' /\ ColumnsAgree' /\ Packed'
    BY <1>8, <2>1, LayoutsFrame, ReportFrame, ViewsFrame, StagingFrame, ColumnsFrame, PackedFrame
       DEF ReleaseInv
  <2>4. IndexMeansViews' /\ StagedIsWhole' /\ ReleaseIsWhole'
    BY <1>8, IndexFrame, UploadFrame, ReleaseFrame DEF ReleaseInv
  <2> QED
    BY <2>2, <2>3, <2>4 DEF ReleaseInv
<1>9. CASE BeginTuning \/ BeginSearch
  <2>1. CASE \E s : Raise(s)
    BY <1>9, <2>1, Gives DEF BeginTuning, BeginSearch
  <2>2. CASE ~\E s : Raise(s)
    <3>1. /\ fresh' \subseteq fresh /\ step' = "trials"
          /\ \E s \in {"tuning", "search"} : \E a : work' = Search(s, a)
          /\ UNCHANGED <<data, views, source, staged, published, release, thresholds, family, bundle>>
      BY <1>9, <2>2 DEF BeginTuning, BeginSearch, Begin
    <3>2. PICK s \in {"tuning", "search"} : \E a : work' = Search(s, a)
      BY <3>1
    <3>3. /\ work' = [script |-> work'.script, attack |-> work'.attack, trials |-> work'.trials,
                      promoted |-> work'.promoted]
          /\ work'.script = s
      BY <3>2 DEF Search
    <3> QED
      BY <1>8, <3>1, <3>3
  <2> QED
    BY <2>1, <2>2
<1>10. CASE RunTrial \/ RunKernelTrial
  <2>1. CASE \E s : Raise(s)
    BY <1>10, <2>1, Gives DEF RunTrial, RunKernelTrial
  <2>2. CASE ~\E s : Raise(s)
    <3>1. /\ step = "trials" /\ fresh' = fresh /\ step' = "trials"
          /\ \E t, p : work' = [work EXCEPT !.trials = t, !.promoted = p]
          /\ UNCHANGED <<data, views, source, staged, published, release, thresholds, family, bundle>>
      BY <1>10, <2>2 DEF RunTrial, RunKernelTrial, Ranked, Go
    <3>2. PICK t, p : work' = [work EXCEPT !.trials = t, !.promoted = p]
      BY <3>1
    <3>3. /\ work = [script |-> work.script, attack |-> work.attack, trials |-> work.trials,
                     promoted |-> work.promoted]
          /\ work.script \in {"tuning", "search"}
      BY <3>1 DEF ReleaseInv, NothingStale
    <3>4. /\ work' = [script |-> work'.script, attack |-> work'.attack, trials |-> work'.trials,
                      promoted |-> work'.promoted]
          /\ work'.script = work.script
      BY <3>2, <3>3
    <3> QED
      BY <1>8, <3>1, <3>3, <3>4
  <2> QED
    BY <2>1, <2>2
<1>11. CASE FinishTuning
  <2>1. /\ step = "trials" /\ Complete(work.script)
        /\ UNCHANGED <<data, views, source, staged, published, release, thresholds, family, bundle>>
    BY <1>11 DEF FinishTuning
  <2>2. work.script \in {"tuning", "search"}
    BY <2>1 DEF ReleaseInv, NothingStale
  <2> QED
    BY <2>1, <2>2, NoProduct, Quiet
<1> QED
  BY <1>1, <1>2, <1>3, <1>4, <1>5, <1>6, <1>7, <1>9, <1>10, <1>11 DEF TrainNext

-----------------------------------------------------------------------------
LEMMA FamilyKeeps ==
    ASSUME ReleaseInv,
           \/ BeginFamily \/ BeginFamilyKernel \/ FitFamily \/ WriteOracle \/ FitMulticlass
    PROVE  ReleaseInv'
<1> USE DEF prepVars, viewVars, kaggleVars, trainVars
<1>0. /\ fresh \subseteq Chain /\ ColumnsAgree /\ StagingGrows /\ ViewsGrow
      /\ (step \in FamilySteps /\ Makes(work.script) = "family") => "family" \notin fresh
      /\ release = [model |-> release.model, training |-> release.training,
                    summary |-> release.summary]
      /\ family = [model |-> family.model, report |-> family.report]
  BY DEF ReleaseInv, NothingStale, LayoutsKept
<1>1. ASSUME NEW s \in {"family", "multiclass", "stage2", "direct"}, NEW c, NEW l,
             UNCHANGED <<data, views, source, staged, published, release, thresholds, family, bundle>>,
             Begin(s, "family", [script |-> s, columns |-> c, labels |-> l]),
             Reads[s] \subseteq fresh => c = data.columns
      PROVE  ReleaseInv'
  <2>1. /\ fresh' = fresh \ Outdated(s) /\ step' = "family"
        /\ work' = [script |-> s, columns |-> c, labels |-> l]
    BY <1>1 DEF Begin
  <2>2. fresh' \subseteq fresh /\ Makes(s) \notin fresh'
    BY <1>0, <2>1, AfterBegin
  <2>3. /\ work' = [script |-> work'.script, columns |-> work'.columns, labels |-> work'.labels]
        /\ work'.script = s /\ work'.columns = c
    BY <2>1
  <2>4. Reads[s] \subseteq fresh' => c = data.columns
    BY <1>1, <2>2
  <2>5. ColumnsAgree'
    BY <1>0, <1>1, <2>1, <2>2, <2>3, <2>4 DEF ColumnsAgree
  <2> QED
    BY <1>0, <1>1, <2>1, <2>2, <2>3, <2>5, Training DEF ReleaseSteps, FamilySteps
<1>2. CASE BeginFamily
  <2>1. CASE \E s : Raise(s)
    BY <1>2, <2>1, Gives DEF BeginFamily
  <2>2. CASE ~\E s : Raise(s)
    <3>1. PICK v \in Range(ViewOrder) : \E l :
              /\ Begin(ScriptOf[v], "family",
                       [script |-> ScriptOf[v], columns |-> views.columns, labels |-> l])
              /\ UNCHANGED <<data, views, source, staged, published, release, thresholds, family, bundle>>
      BY <1>2, <2>2 DEF BeginFamily
    <3>2. ScriptOf[v] \in {"family", "multiclass"}
      BY Names DEF ScriptOf
    <3>3. "views" \in Reads[ScriptOf[v]]
      BY <3>2 DEF Reads
    <3>4. Reads[ScriptOf[v]] \subseteq fresh => views.columns = data.columns
      BY <1>0, <3>3 DEF ViewsGrow
    <3> QED
      BY <1>1, <3>1, <3>2, <3>4
  <2> QED
    BY <2>1, <2>2
<1>3. CASE BeginFamilyKernel
  <2>1. CASE \E s : Raise(s)
    BY <1>3, <2>1, Gives DEF BeginFamilyKernel
  <2>2. CASE ~\E s : Raise(s)
    <3>1. PICK v \in Range(ViewOrder) : \E l :
              /\ Begin(KernelOf[v], "family",
                       [script |-> KernelOf[v], columns |-> published.columns, labels |-> l])
              /\ UNCHANGED <<data, views, source, staged, published, release, thresholds, family, bundle>>
      BY <1>3, <2>2 DEF BeginFamilyKernel
    <3>2. KernelOf[v] \in {"stage2", "direct"}
      BY Names DEF KernelOf
    <3>3. "publish" \in Reads[KernelOf[v]]
      BY <3>2 DEF Reads, OnKaggle
    <3>4. Reads[KernelOf[v]] \subseteq fresh => published.columns = data.columns
      BY <1>0, <3>3 DEF StagingGrows
    <3> QED
      BY <1>1, <3>1, <3>2, <3>4
  <2> QED
    BY <2>1, <2>2
<1>4. CASE FitFamily
  <2>1. CASE \E s : Raise(s)
    BY <1>4, <2>1, Gives DEF FitFamily, Go, Raise
  <2>2. CASE ~\E s : Raise(s)
    <3>1. /\ step = "family" /\ Makes(work.script) = "family" /\ step' = "oracle" /\ work' = work
          /\ fresh' = fresh
          /\ family' = [family EXCEPT !.model = [columns |-> work.columns, labels |-> work.labels]]
          /\ UNCHANGED <<data, views, source, staged, published, release, thresholds, bundle>>
      BY <1>4, <2>2 DEF FitFamily, Fitted, Go
    <3>2. /\ family' = [model |-> family'.model, report |-> family'.report]
          /\ family'.model.columns = work.columns
      BY <1>0, <3>1
    <3>3. "family" \notin fresh'
      BY <1>0, <3>1 DEF FamilySteps
    <3>4. ColumnsAgree'
      BY <1>0, <3>1, <3>2, <3>3 DEF ColumnsAgree, FamilySteps
    <3> QED
      BY <1>0, <3>1, <3>2, <3>3, <3>4, Training DEF ReleaseSteps, FamilySteps
  <2> QED
    BY <2>1, <2>2
<1>5. CASE WriteOracle
  <2>1. /\ step = "oracle" /\ Complete(work.script)
        /\ family' = [family EXCEPT !.report = [labels |-> LabelSpace["attack_only"],
                                               columns |-> work.columns]]
        /\ UNCHANGED <<data, views, source, staged, published, release, thresholds, bundle>>
    BY <1>5 DEF WriteOracle, OracleReport
  <2>2. /\ Makes(work.script) = "family" /\ family.model.columns = work.columns
        /\ "family" \notin fresh
        /\ Reads[work.script] \subseteq fresh => work.columns = data.columns
    BY <1>0, <2>1 DEF ColumnsAgree, FamilySteps
  <2>3. /\ step' = "idle" /\ fresh' \subseteq fresh \cup {"family"}
        /\ fresh' # fresh => Reads[work.script] \subseteq fresh
    BY <2>1, <2>2, AfterComplete
  <2>4. /\ family' = [model |-> family'.model, report |-> family'.report]
        /\ family'.model = family.model /\ family'.report.labels = LabelSpace["attack_only"]
    BY <1>0, <2>1
  <2>5. "family" \in fresh' => family'.model.columns = data.columns
    BY <2>2, <2>3, <2>4
  <2>6. ColumnsAgree'
    BY <1>0, <2>1, <2>3, <2>4, <2>5 DEF ColumnsAgree, FamilySteps
  <2> QED
    BY <1>0, <2>1, <2>3, <2>4, <2>6, Training DEF ReleaseSteps, FamilySteps
<1>6. CASE FitMulticlass
  <2>1. CASE Raise(work.script)
    BY <1>6, <2>1, Gives DEF FitMulticlass
  <2>2. CASE ~Raise(work.script)
    <3>1. /\ step = "family" /\ Makes(work.script) # "family" /\ Complete(work.script)
          /\ UNCHANGED <<data, views, source, staged, published, release, thresholds, family, bundle>>
      BY <1>6, <2>2 DEF FitMulticlass
    <3>2. work.script \in {"multiclass", "direct"}
      BY <1>0, <3>1 DEF ColumnsAgree, FamilySteps, Makes
    <3> QED
      BY <3>1, <3>2, NoProduct, Quiet
  <2> QED
    BY <2>1, <2>2
<1> QED
  BY <1>2, <1>3, <1>4, <1>5, <1>6

-----------------------------------------------------------------------------
\* No file is written twice, and nothing but the card after the manifest.
LEMMA PackagingOrder ==
    ASSUME NEW k \in Kinds
    PROVE  /\ Len(Packaging[k]) \in Nat
           /\ \A i \in 1..Len(Packaging[k]) : Packaging[k][i] \in BundleFiles
           /\ \A i, j \in 1..Len(Packaging[k]) :
                  i < j => /\ Packaging[k][i] # Packaging[k][j]
                           /\ Packaging[k][i] = "manifest" => Packaging[k][j] = "card"
           /\ Packaging[k][1] = "model"
           /\ \A i \in 1..Len(Packaging[k]) : Packaging[k][i] = "card" <=> i = Len(Packaging[k])
           /\ Len(Packaging[k]) >= 2
<1>1. CASE k = "binary"
  BY <1>1 DEF Packaging, BundleFiles
<1>2. CASE k = "composite"
  BY <1>2 DEF Packaging, BundleFiles
<1> QED
  BY <1>1, <1>2 DEF Kinds

\* The files a bundle of a kind must have been given before its card.
LEMMA PackagingFiles ==
    ASSUME NEW k \in Kinds, NEW f,
           \/ f \in {"model", "columns", "manifest"}
           \/ k = "composite" /\ f \in {"stage2_model", "stage2_columns", "stage2_report"}
    PROVE  \E i \in 1..(Len(Packaging[k]) - 1) : Packaging[k][i] = f
<1>1. CASE k = "binary"
  <2>1. /\ Len(Packaging[k]) = 6
        /\ Packaging[k][1] = "model" /\ Packaging[k][2] = "columns" /\ Packaging[k][5] = "manifest"
    BY <1>1 DEF Packaging
  <2> QED
    BY <1>1, <2>1
<1>2. CASE k = "composite"
  <2>1. /\ Len(Packaging[k]) = 9
        /\ Packaging[k][1] = "model" /\ Packaging[k][2] = "columns" /\ Packaging[k][8] = "manifest"
        /\ Packaging[k][5] = "stage2_model" /\ Packaging[k][6] = "stage2_columns"
        /\ Packaging[k][7] = "stage2_report"
    BY <1>2 DEF Packaging
  <2> QED
    BY <1>2, <2>1
<1> QED
  BY <1>1, <1>2 DEF Kinds

\* A step of a packaging: only a bundle changes.
LEMMA Packing ==
    ASSUME ReleaseInv,
           UNCHANGED <<data, views, source, staged, published, release, thresholds, family>>,
           fresh' \subseteq fresh \cup Kinds, step' \in {"package", "idle"},
           step' = "package" => work'.kind \notin fresh',
           DOMAIN bundle' = Kinds, \A k \in Kinds : DOMAIN bundle'[k] = BundleFiles,
           Packed', ReleaseIsWhole'
    PROVE  ReleaseInv'
<1>1. /\ step' \notin PrepSteps /\ step' \notin ViewSteps /\ step' \notin StageSteps
      /\ step' \notin ReleaseSteps \cup FamilySteps /\ step' \notin {"evaluate", "trials"}
  BY DEF PrepSteps, ViewSteps, StageSteps, ReleaseSteps, FamilySteps
<1>2. LayoutsKept'
  BY DEF ReleaseInv, LayoutsKept
<1>3. NothingStale'
  <2>1. fresh' \subseteq Chain
    BY DEF ReleaseInv, NothingStale, Chain, Kinds
  <2> QED
    BY <1>1, <2>1 DEF NothingStale
<1>4. \A x \in {"views", "stage", "publish", "release", "thresholds", "family"} :
          x \in fresh' => x \in fresh
  BY DEF Kinds
<1>5. ReportCounts' /\ ViewsGrow' /\ StagingGrows' /\ ColumnsAgree' /\ IndexMeansViews'
      /\ StagedIsWhole'
  BY <1>1, <1>4, ReportFrame, ViewsFrame, StagingFrame, ColumnsFrame, IndexFrame, UploadFrame
     DEF ReleaseInv
<1> QED
  BY <1>2, <1>3, <1>5 DEF ReleaseInv

\* A bundle as ReleaseIsWhole wants it.
Sound(k, b) ==
    LET m == b["manifest"]
    IN  /\ MeetsContract(b) /\ m.kind = k
        /\ b["model"] = b["columns"] /\ m.recommended = b["model"]
        /\ k = "composite" =>
               /\ b["stage2_model"].columns = b["stage2_columns"]
               /\ b["stage2_report"].labels = m.labels

LEMMA PackagingKeeps ==
    ASSUME ReleaseInv, BeginPackaging \/ Package
    PROVE  ReleaseInv'
<1> USE DEF prepVars, viewVars, kaggleVars, trainVars
<1>0. /\ fresh \subseteq Chain /\ ColumnsAgree /\ Packed
      /\ step = "package" => work.kind \notin fresh
      /\ DOMAIN bundle = Kinds /\ \A k \in Kinds : DOMAIN bundle[k] = BundleFiles
      /\ \A k \in Kinds \cap fresh : Sound(k, bundle[k])
  BY DEF ReleaseInv, NothingStale, LayoutsKept, ReleaseIsWhole, Sound
<1>1. CASE BeginPackaging
  <2>1. CASE \E s : Raise(s)
    BY <1>1, <2>1, Gives DEF BeginPackaging, Begin, Raise
  <2>2. CASE ~\E s : Raise(s)
    <3>1. PICK k \in DOMAIN Packaging :
              /\ release.model # None
              /\ Begin(k, "package", [kind |-> k, at |-> 2])
              /\ bundle' = [bundle EXCEPT ![k]["model"] = release.model]
              /\ UNCHANGED <<data, views, source, staged, published, release, thresholds, family>>
      BY <1>1, <2>2 DEF BeginPackaging
    <3>2. k \in Kinds /\ Makes(k) = k
      BY DEF Packaging, Kinds, Makes
    <3>3. /\ fresh' = fresh \ Outdated(k) /\ step' = "package" /\ work' = [kind |-> k, at |-> 2]
      BY <3>1 DEF Begin
    <3>4. fresh' \subseteq fresh /\ k \notin fresh'
      BY <1>0, <3>2, <3>3, AfterBegin
    <3>5. "model" \in BundleFiles
      BY DEF BundleFiles
    <3>6. /\ DOMAIN bundle' = Kinds /\ \A j \in Kinds : DOMAIN bundle'[j] = BundleFiles
          /\ bundle'[k]["model"] = release.model
          /\ \A j \in Kinds \ {k} : bundle'[j] = bundle[j]
      BY <1>0, <3>1, <3>2, <3>5
    <3>7. Packed'
      <4>1. work'.kind = k /\ work'.at = 2
        BY <3>3
      <4>2. Packaging[k][1] = "model" /\ Len(Packaging[k]) \in Nat /\ Len(Packaging[k]) >= 2
        BY <3>2, PackagingOrder
      <4>3. release'.model # None /\ bundle'[k]["model"] = Content(k, "model")'
        BY <3>1, <3>6 DEF Content
      <4>4. \A i \in 1..(2 - 1) : i = 1
        OBVIOUS
      <4>5. \A i \in 1..(2 - 1) : LET f == Packaging[k][i]
                                  IN  bundle'[k][f] # None /\ bundle'[k][f] = Content(k, f)'
        BY <3>1, <3>6, <4>2, <4>3, <4>4
      <4>6. work' = [kind |-> k, at |-> 2] /\ 2 \in 2..Len(Packaging[k])
        BY <3>3, <4>2
      <4> QED
        BY <3>2, <4>1, <4>5, <4>6 DEF Packed
    <3>8. ReleaseIsWhole'
      <4>1. \A j \in Kinds \cap fresh' : Sound(j, bundle'[j])
        BY <1>0, <3>4, <3>6
      <4> QED
        BY <4>1 DEF ReleaseIsWhole, Sound
    <3>9. work'.kind \notin fresh' /\ fresh' \subseteq fresh \cup Kinds
      BY <3>3, <3>4
    <3> QED
      BY <3>1, <3>3, <3>6, <3>7, <3>8, <3>9, Packing
  <2> QED
    BY <2>1, <2>2
<1>2. CASE Package
  <2>1. CASE \E s : Raise(s)
    BY <1>2, <2>1, Gives DEF Package, Go, Complete, Raise
  <2>2. CASE ~\E s : Raise(s)
    <3>1. PICK k, at : k = work.kind /\ at = work.at
      OBVIOUS
    <3>2. PICK f : f = Packaging[k][at]
      OBVIOUS
    <3>3. /\ step = "package" /\ at <= Len(Packaging[k])
          /\ Content(k, f) # None
          /\ IF f = "card" THEN Complete(k) ELSE Go("package", [work EXCEPT !.at = @ + 1])
          /\ bundle' = [bundle EXCEPT ![k][f] = Content(k, f)]
          /\ UNCHANGED <<data, views, source, staged, published, release, thresholds, family>>
      BY <1>2, <2>2, <3>1, <3>2 DEF Package
    <3>4. /\ work = [kind |-> k, at |-> at] /\ k \in Kinds /\ at \in 2..Len(Packaging[k])
          /\ k \notin fresh
          /\ \A i \in 1..(at - 1) :
                 /\ bundle[k][Packaging[k][i]] # None
                 /\ bundle[k][Packaging[k][i]] = Content(k, Packaging[k][i])
      BY <1>0, <3>1, <3>3 DEF Packed
    <3>5. /\ f \in BundleFiles /\ Len(Packaging[k]) \in Nat /\ at \in Nat
          /\ f = "card" <=> at = Len(Packaging[k])
          /\ \A i \in 1..(at - 1) :
                 /\ Packaging[k][i] \in BundleFiles /\ Packaging[k][i] # f
                 /\ Packaging[k][i] = "manifest" => f = "card"
      <4>1. Len(Packaging[k]) \in Nat /\ at \in 1..Len(Packaging[k]) /\ at \in Nat
        BY <3>4, PackagingOrder
      <4>2. f \in BundleFiles /\ (f = "card" <=> at = Len(Packaging[k]))
        BY <3>2, <3>4, <4>1, PackagingOrder
      <4>3. ASSUME NEW i \in 1..(at - 1)
            PROVE  /\ Packaging[k][i] \in BundleFiles /\ Packaging[k][i] # f
                   /\ Packaging[k][i] = "manifest" => f = "card"
        <5>1. i \in 1..Len(Packaging[k]) /\ i < at
          BY <4>1
        <5> QED
          BY <3>2, <3>4, <4>1, <5>1, PackagingOrder
      <4> QED
        BY <4>1, <4>2, <4>3
    <3>6. /\ DOMAIN bundle' = Kinds /\ \A j \in Kinds : DOMAIN bundle'[j] = BundleFiles
          /\ bundle'[k][f] = Content(k, f)
          /\ \A j \in Kinds \ {k} : bundle'[j] = bundle[j]
          /\ \A g \in BundleFiles \ {f} : bundle'[k][g] = bundle[k][g]
      BY <1>0, <3>3, <3>4, <3>5
    <3>7. ASSUME NEW g \in BundleFiles,
                 g = "manifest" => f \notin {"columns", "stage2_columns"}
          PROVE  Content(k, g)' = Content(k, g)
      <4>1. CASE g = "manifest"
        <5>1. /\ bundle'[k]["columns"] = bundle[k]["columns"]
              /\ bundle'[k]["stage2_columns"] = bundle[k]["stage2_columns"]
          BY <3>6, <3>7, <4>1 DEF BundleFiles
        <5>2. Manifest(k)' = Manifest(k)
          BY <3>3, <5>1 DEF Manifest
        <5> QED
          BY <4>1, <5>2 DEF Content
      <4>2. CASE g # "manifest"
        BY <3>3, <4>2 DEF Content, BundleFiles
      <4> QED
        BY <4>1, <4>2
    <3>8. ASSUME NEW i \in 1..at
          PROVE  /\ bundle'[k][Packaging[k][i]] # None
                 /\ bundle'[k][Packaging[k][i]] = Content(k, Packaging[k][i])'
      <4>1. CASE i = at
        <5>1. Packaging[k][i] = f
          BY <3>2, <4>1
        <5>2. Content(k, f)' = Content(k, f)
          BY <3>5, <3>7
        <5> QED
          BY <3>3, <3>6, <5>1, <5>2
      <4>2. CASE i # at
        <5>1. i \in 1..(at - 1)
          BY <3>5, <4>2
        <5>2. PICK g : g = Packaging[k][i]
          OBVIOUS
        <5>3. g \in BundleFiles \ {f} /\ (g = "manifest" => f \notin {"columns", "stage2_columns"})
          BY <3>5, <5>1, <5>2
        <5>4. bundle'[k][g] = bundle[k][g] /\ Content(k, g)' = Content(k, g)
          BY <3>6, <3>7, <5>3
        <5> QED
          BY <3>4, <5>1, <5>2, <5>4
      <4> QED
        BY <4>1, <4>2
    <3>9. CASE f = "card"
      <4>1. Complete(k) /\ Makes(k) = k
        BY <3>3, <3>4, <3>9 DEF Makes, Kinds
      <4>2. /\ step' = "idle" /\ fresh' \subseteq fresh \cup {k}
            /\ fresh' # fresh => Reads[k] \subseteq fresh
        BY <4>1, AfterComplete
      <4>3. Packed'
        BY <4>2, PackedFrame
      <4>4. ASSUME k \in fresh' PROVE Sound(k, bundle'[k])
        <5>1. Reads[k] \subseteq fresh
          BY <3>4, <4>2, <4>4
        <5>2. /\ release.model = data.columns /\ thresholds = release.model
              /\ k = "composite" => /\ family.model.columns = data.columns
                                    /\ family.report.labels = LabelSpace["attack_only"]
          <6>1. /\ {"release", "thresholds"} \subseteq Reads[k]
                /\ k = "composite" => "family" \in Reads[k]
            BY <3>4 DEF Reads, Kinds
          <6> QED
            BY <1>0, <5>1, <6>1 DEF ColumnsAgree
        <5>3. PICK b : b = bundle'[k]
          OBVIOUS
        <5>4. \A i \in 1..(Len(Packaging[k]) - 1) :
                  /\ b[Packaging[k][i]] # None
                  /\ b[Packaging[k][i]] = Content(k, Packaging[k][i])
          BY <3>4, <3>5, <3>6, <3>9, <5>3
        <5>5. /\ b["model"] # None /\ b["model"] = Content(k, "model")
              /\ b["columns"] # None /\ b["columns"] = Content(k, "columns")
              /\ b["manifest"] # None /\ b["manifest"] = Content(k, "manifest")
          <6>1. \A g \in {"model", "columns", "manifest"} :
                    \E i \in 1..(Len(Packaging[k]) - 1) : Packaging[k][i] = g
            BY <3>4, PackagingFiles
          <6> QED
            BY <5>4, <6>1
        <5>6. k = "composite" =>
                  /\ b["stage2_model"] # None /\ b["stage2_model"] = Content(k, "stage2_model")
                  /\ b["stage2_columns"] # None /\ b["stage2_columns"] = Content(k, "stage2_columns")
                  /\ b["stage2_report"] # None /\ b["stage2_report"] = Content(k, "stage2_report")
          <6>1. k = "composite" =>
                    \A g \in {"stage2_model", "stage2_columns", "stage2_report"} :
                        \E i \in 1..(Len(Packaging[k]) - 1) : Packaging[k][i] = g
            BY <3>4, PackagingFiles
          <6> QED
            BY <5>4, <6>1
        <5>7. b["model"] = data.columns /\ b["columns"] = data.columns
          BY <3>3, <5>2, <5>5 DEF Content
        <5>8. b["manifest"] = [kind |-> k, columns |-> b["columns"], recommended |-> thresholds,
                               stage2_columns |-> IF k = "composite" THEN b["stage2_columns"] ELSE None,
                               labels |-> IF k = "composite" THEN family.report.labels ELSE None]
          <6>1. b["columns"] = bundle[k]["columns"] /\ b["stage2_columns"] = bundle[k]["stage2_columns"]
            BY <3>6, <3>9, <5>3 DEF BundleFiles
          <6> QED
            BY <5>5, <6>1 DEF Content, Manifest
        <5>9. k = "composite" =>
                  /\ b["stage2_model"] = family.model /\ b["stage2_columns"] = data.columns
                  /\ b["stage2_report"] = family.report
          BY <3>3, <5>6 DEF Content
        <5>10. LabelSpace["attack_only"] = ClosedSet
          BY ClosedSetAssumption DEF LabelSpace
        <5>11. /\ b["manifest"].kind = k /\ b["manifest"].columns = b["columns"]
               /\ b["manifest"].recommended = thresholds
               /\ k = "composite" =>
                      /\ b["manifest"].stage2_columns = b["stage2_columns"]
                      /\ b["manifest"].labels = family.report.labels
          BY <5>8
        <5>12. k = "composite" => StageTwoMeets(b, b["manifest"])
          BY <5>2, <5>6, <5>10, <5>11 DEF StageTwoMeets
        <5>13. MeetsContract(b)
          BY <5>5, <5>11, <5>12 DEF MeetsContract, Present
        <5> QED
          BY <5>2, <5>3, <5>7, <5>9, <5>11, <5>13 DEF Sound
      <4>5. ReleaseIsWhole'
        <5>1. \A j \in Kinds \cap fresh' : Sound(j, bundle'[j])
          BY <1>0, <3>6, <4>2, <4>4
        <5> QED
          BY <5>1 DEF ReleaseIsWhole, Sound
      <4>6. step' \in {"package", "idle"} /\ step' # "package" /\ fresh' \subseteq fresh \cup Kinds
        BY <3>4, <4>2
      <4> QED
        BY <3>3, <3>6, <4>3, <4>5, <4>6, Packing
    <3>10. CASE f # "card"
      <4>1. step' = "package" /\ work' = [work EXCEPT !.at = @ + 1] /\ fresh' = fresh
        BY <3>3, <3>10 DEF Go
      <4>2. work' = [kind |-> k, at |-> at + 1] /\ work'.kind = k /\ work'.at = at + 1
        BY <3>4, <4>1
      <4>3. at + 1 \in 2..Len(Packaging[k]) /\ (at + 1) - 1 = at
        BY <3>4, <3>5, <3>10
      <4>4. Packed'
        BY <3>4, <3>8, <4>2, <4>3 DEF Packed
      <4>5. ReleaseIsWhole'
        <5>1. \A j \in Kinds \cap fresh' : Sound(j, bundle'[j])
          BY <1>0, <3>4, <3>6, <4>1
        <5> QED
          BY <5>1 DEF ReleaseIsWhole, Sound
      <4>6. work'.kind \notin fresh' /\ fresh' \subseteq fresh \cup Kinds
        BY <3>4, <4>1, <4>2
      <4> QED
        BY <3>3, <3>6, <4>1, <4>4, <4>5, <4>6, Packing
    <3> QED
      BY <3>9, <3>10
  <2> QED
    BY <2>1, <2>2
<1> QED
  BY <1>1, <1>2

-----------------------------------------------------------------------------
LEMMA ReleaseInit == Init => ReleaseInv
<1> SUFFICES ASSUME Init PROVE ReleaseInv
  OBVIOUS
<1> USE DEF Init, PrepInit, ViewInit, KaggleInit, TrainInit
<1>1. LayoutsKept
  BY DEF LayoutsKept, NoData, NothingStaged, NoViews
<1>2. step = "idle" /\ fresh = {}
  OBVIOUS
<1>3. NothingStale
  BY <1>2 DEF NothingStale, PrepSteps, ViewSteps, StageSteps, ReleaseSteps, FamilySteps
<1>4. ReportCounts
  BY <1>2 DEF ReportCounts, NoData
<1>5. ViewsGrow
  BY <1>2 DEF ViewsGrow, ViewSteps
<1>6. StagingGrows
  BY <1>2 DEF StagingGrows, StageSteps
<1>7. ColumnsAgree
  BY <1>2 DEF ColumnsAgree, FamilySteps
<1>8. Packed
  BY <1>2 DEF Packed
<1>9. IndexMeansViews
  BY DEF IndexMeansViews, NoViews
<1>10. StagedIsWhole
  BY DEF StagedIsWhole, NothingStaged
<1>11. ReleaseIsWhole
  BY <1>2 DEF ReleaseIsWhole
<1> QED
  BY <1>1, <1>3, <1>4, <1>5, <1>6, <1>7, <1>8, <1>9, <1>10, <1>11 DEF ReleaseInv

LEMMA ReleaseStep == ReleaseInv /\ [Next]_vars => ReleaseInv'
<1> SUFFICES ASSUME ReleaseInv, [Next]_vars PROVE ReleaseInv'
  OBVIOUS
<1>1. CASE PreprocessNext /\ UNCHANGED <<viewVars, kaggleVars, trainVars, bundle>>
  BY <1>1, PreprocessKeeps
<1>2. CASE ViewNext /\ UNCHANGED <<kaggleVars, trainVars, bundle>>
  BY <1>2, ViewsKeep
<1>3. CASE KaggleNext /\ UNCHANGED <<trainVars, bundle>>
  BY <1>3, KaggleKeeps
<1>4. CASE TrainNext /\ UNCHANGED bundle
  BY <1>4, TrainKeeps
<1>5. CASE BeginFamily \/ BeginFamilyKernel \/ FitFamily \/ WriteOracle \/ FitMulticlass
  BY <1>5, FamilyKeeps
<1>6. CASE BeginPackaging \/ Package
  BY <1>6, PackagingKeeps
<1>7. CASE BeginGated \/ EvaluateGated
  <2>1. /\ UNCHANGED <<data, views, source, staged, published, release, thresholds, family, bundle>>
        /\ \/ \E s : Raise(s)
           \/ fresh' \subseteq fresh /\ step' = "gated"
           \/ Complete("gated")
    BY <1>7 DEF BeginGated, EvaluateGated, Begin, prepVars, viewVars, kaggleVars, trainVars
  <2>2. step' = "gated" => step' \notin Watched
    BY DEF Watched, PrepSteps, ViewSteps, StageSteps, ReleaseSteps, FamilySteps
  <2> QED
    BY <2>1, <2>2, Gives, NoProduct, Quiet
<1>8. CASE (Exit \/ Kill) /\ UNCHANGED <<prepVars, viewVars, kaggleVars, trainVars, bundle>>
  <2>1. /\ UNCHANGED <<data, views, source, staged, published, release, thresholds, family, bundle>>
        /\ fresh' = fresh /\ step' = "idle"
    BY <1>8 DEF Exit, Kill, prepVars, viewVars, kaggleVars, trainVars
  <2>2. step' \notin Watched
    BY <2>1 DEF Watched, PrepSteps, ViewSteps, StageSteps, ReleaseSteps, FamilySteps
  <2> QED
    BY <2>1, <2>2, Quiet
<1>9. CASE UNCHANGED vars
  <2>1. UNCHANGED <<data, views, source, staged, published, release, thresholds, family, bundle,
                    step, work, fresh>>
    BY <1>9 DEF vars, prepVars, runVars, viewVars, kaggleVars, trainVars
  <2>2. LayoutsKept' /\ IndexMeansViews' /\ StagedIsWhole' /\ ReleaseIsWhole'
    BY <2>1, LayoutsFrame, IndexFrame, UploadFrame, ReleaseFrame DEF ReleaseInv
  <2>3. NothingStale' /\ ReportCounts'
    BY <2>1 DEF ReleaseInv, NothingStale, ReportCounts
  <2>4. ViewsGrow'
    BY <2>1 DEF ReleaseInv, ViewsGrow, Whole
  <2>5. StagingGrows'
    BY <2>1 DEF ReleaseInv, StagingGrows
  <2>6. ColumnsAgree'
    BY <2>1 DEF ReleaseInv, ColumnsAgree
  <2>7. Packed'
    BY <2>1 DEF ReleaseInv, Packed, Content, Manifest
  <2> QED
    BY <2>2, <2>3, <2>4, <2>5, <2>6, <2>7 DEF ReleaseInv
<1> QED
  BY <1>1, <1>2, <1>3, <1>4, <1>5, <1>6, <1>7, <1>8, <1>9 DEF Next

LEMMA ReleaseAlways == Spec => []ReleaseInv
  BY ReleaseInit, ReleaseStep, PTL DEF Spec

\* Whatever was killed, repeated or rebuilt, an index of views or the metadata of a staged
\* dataset stands only over everything it speaks for, of one finished dataset.
THEOREM WhatIsDerivedIsWhole == Spec => []DerivedIsWhole
<1>1. ReleaseInv => DerivedIsWhole
  BY DEF ReleaseInv, DerivedIsWhole
<1> QED
  BY <1>1, ReleaseAlways, PTL

\* A bundle packaged after all it is made from meets the contract, and its models, columns,
\* labels and threshold belong together.
THEOREM WhatIsReleasedIsWhole == Spec => []ReleaseIsWhole
<1>1. ReleaseInv => ReleaseIsWhole
  BY DEF ReleaseInv
<1> QED
  BY <1>1, ReleaseAlways, PTL

(* Induction.  The library's theorems of induction take a predicate; these    *)
(* are stated of a set, of the numbers or of the subsets that have it, and so  *)
(* can be cited.                                                             *)

LEMMA LeastNat ==
  ASSUME NEW T, T \subseteq Nat, T # {}
  PROVE  \E n \in T : \A m \in T : n <= m
<1> DEFINE R == {ss \in Nat \X Nat : ss[1] < ss[2]}
<1>1. IsWellFoundedOn(R, Nat)
  BY NatLessThanWellFounded DEF OpToRel
<1> HIDE DEF R
<1>2. \E n \in T : \A m \in T : ~(<<m, n>> \in R)
  BY <1>1, WFMin
<1>3. PICK n \in T : \A m \in T : ~(<<m, n>> \in R)
  BY <1>2
<1>4. \A m \in T : n <= m
  <2> TAKE m \in T
  <2>1. ~(<<m, n>> \in R)
    BY <1>3
  <2>2. ~(m < n)
    BY <2>1 DEF R
  <2> QED BY <2>2
<1> QED BY <1>4

LEMMA NatInduct ==
  ASSUME NEW C, 0 \in C, \A n \in Nat : n \in C => n + 1 \in C
  PROVE  \A n \in Nat : n \in C
<1> SUFFICES ASSUME NEW k \in Nat, k \notin C
             PROVE  FALSE
  OBVIOUS
<1> DEFINE T == {n \in Nat : n \notin C}
<1>1. PICK n \in T : \A m \in T : n <= m
  <2>1. T \subseteq Nat /\ T # {}
    OBVIOUS
  <2> HIDE DEF T
  <2> QED BY <2>1, LeastNat
<1>2. n \in Nat \ {0}
  OBVIOUS
<1>3. n - 1 \in Nat /\ n - 1 \notin T
  BY <1>1, <1>2
<1>4. n - 1 \in C
  BY <1>3
<1>5. (n - 1) + 1 \in C
  BY <1>3, <1>4
<1>6. (n - 1) + 1 = n
  BY <1>2
<1> QED BY <1>5, <1>6

LEMMA SetInduct ==
  ASSUME NEW S, IsFiniteSet(S), NEW C, {} \in C,
         \A T \in SUBSET S : \A x \in S \ T : T \in C => T \cup {x} \in C
  PROVE  S \in C
<1> DEFINE D == {n \in Nat : \A T \in SUBSET S : IsFiniteSet(T) /\ Cardinality(T) = n => T \in C}
<1>1. 0 \in D
  BY FS_EmptySet
<1>2. ASSUME NEW n \in Nat, n \in D
      PROVE  n + 1 \in D
  <2> SUFFICES ASSUME NEW T \in SUBSET S, IsFiniteSet(T), Cardinality(T) = n + 1
               PROVE  T \in C
    OBVIOUS
  <2>1. PICK x \in T : TRUE
    <3>1. T # {}
      BY FS_EmptySet
    <3> QED BY <3>1
  <2>2. IsFiniteSet(T \ {x}) /\ Cardinality(T \ {x}) = n
    <3>1. IsFiniteSet(T \ {x}) /\ Cardinality(T \ {x}) = Cardinality(T) - 1
      BY <2>1, FS_RemoveElement
    <3> QED BY <3>1
  <2>3. T \ {x} \in C
    BY <1>2, <2>2
  <2>4. (T \ {x}) \cup {x} \in C
    BY <2>3
  <2> QED BY <2>4
<1> HIDE DEF D
<1>3. \A n \in Nat : n \in D
  BY <1>1, <1>2, NatInduct
<1> QED
  BY <1>3, FS_CardinalityType DEF D

\* A recursion over 1..N whose values stay in V has a solution.
Steps(V) == [Nat \X V -> V]
Computed(V, base, next, N, f) ==
    /\ f \in [0..N -> V]
    /\ f[0] = base /\ \A n \in 1..N : f[n] = next[<<n, f[n - 1]>>]

LEMMA Recursion ==
  ASSUME NEW V, NEW base \in V, NEW next \in Steps(V), NEW N \in Nat
  PROVE  \E f : Computed(V, base, next, N, f)
<1>0. next \in [Nat \X V -> V]
  BY DEF Steps
<1> DEFINE C == {k \in Nat : \E f \in [0..k -> V] :
                     f[0] = base /\ \A n \in 1..k : f[n] = next[<<n, f[n - 1]>>]}
<1>1. 0 \in C
  <2> DEFINE f == [i \in 0..0 |-> base]
  <2>1. f \in [0..0 -> V] /\ f[0] = base /\ 1..0 = {}
    OBVIOUS
  <2> QED BY <2>1
<1>2. ASSUME NEW k \in Nat, k \in C
      PROVE  k + 1 \in C
  <2>1. PICK f \in [0..k -> V] : f[0] = base /\ \A n \in 1..k : f[n] = next[<<n, f[n - 1]>>]
    BY <1>2
  <2> DEFINE g == [i \in 0..(k + 1) |-> IF i <= k THEN f[i] ELSE next[<<k + 1, f[k]>>]]
  <2>2. f[k] \in V /\ next[<<k + 1, f[k]>>] \in V
    BY <1>0, <2>1
  <2>3. g \in [0..(k + 1) -> V]
    BY <2>1, <2>2
  <2>4. g[0] = base
    BY <2>1
  <2>5. ASSUME NEW n \in 1..(k + 1)
        PROVE  g[n] = next[<<n, g[n - 1]>>]
    <3>1. CASE n <= k
      <4>1. g[n] = f[n] /\ g[n - 1] = f[n - 1] /\ n \in 1..k
        BY <3>1
      <4> QED BY <2>1, <4>1
    <3>2. CASE n > k
      <4>1. n = k + 1 /\ n - 1 = k
        BY <3>2
      <4>2. k + 1 \in 0..(k + 1) /\ k \in 0..(k + 1) /\ ~(k + 1 <= k)
        OBVIOUS
      <4>3. g[k + 1] = next[<<k + 1, f[k]>>] /\ g[k] = f[k]
        BY <4>2
      <4> QED BY <4>1, <4>3
    <3> QED BY <3>1, <3>2
  <2> HIDE DEF g
  <2> QED BY <2>3, <2>4, <2>5
<1> HIDE DEF C
<1>3. N \in C
  BY <1>1, <1>2, NatInduct
<1> QED BY <1>3 DEF C, Computed

-----------------------------------------------------------------------------
(* Orders.  A weak order tells some apart and is silent about the others.     *)

Weak(P, R) ==
    \A p, q, r \in P : /\ <<p, q>> \in R => <<q, p>> \notin R
                       /\ <<p, q>> \in R => <<p, r>> \in R \/ <<r, q>> \in R

\* One order, and another where it is silent.
Then(P, A, B) == {z \in P \X P : z \in A \/ (<<z[2], z[1]>> \notin A /\ z \in B)}

LEMMA ThenWeak ==
  ASSUME NEW P, NEW A, NEW B, Weak(P, A), Weak(P, B)
  PROVE  Weak(P, Then(P, A, B))
<1>1. \A p, q \in P : <<p, q>> \in Then(P, A, B) <=>
          <<p, q>> \in A \/ (<<q, p>> \notin A /\ <<p, q>> \in B)
  BY DEF Then
<1> QED BY <1>1 DEF Weak

\* A finite set has an element ahead of all others, if the order tells any two apart.
LEMMA FirstExists ==
  ASSUME NEW P, IsFiniteSet(P), P # {}, NEW R, Weak(P, R),
         \A p, q \in P : p # q => <<p, q>> \in R \/ <<q, p>> \in R
  PROVE  \E p \in P : \A q \in P \ {p} : <<p, q>> \in R
<1> DEFINE C == {T \in SUBSET P : T # {} => \E p \in T : \A q \in T \ {p} : <<p, q>> \in R}
<1>1. {} \in C
  OBVIOUS
<1>2. ASSUME NEW T \in SUBSET P, NEW x \in P \ T, T \in C
      PROVE  T \cup {x} \in C
  <2>1. CASE T = {}
    <3>1. x \in T \cup {x} /\ \A q \in (T \cup {x}) \ {x} : <<x, q>> \in R
      BY <2>1
    <3> QED BY <3>1
  <2>2. CASE T # {}
    <3>1. PICK p \in T : \A q \in T \ {p} : <<p, q>> \in R
      BY <1>2, <2>2
    <3>2. CASE <<p, x>> \in R
      <4>1. \A q \in (T \cup {x}) \ {p} : <<p, q>> \in R
        BY <3>1, <3>2
      <4> QED BY <4>1
    <3>3. CASE <<x, p>> \in R
      <4>1. \A q \in (T \cup {x}) \ {x} : <<x, q>> \in R
        BY <3>1, <3>3 DEF Weak
      <4> QED BY <4>1
    <3> QED BY <3>2, <3>3
  <2> QED BY <2>1, <2>2
<1> HIDE DEF C
<1>3. P \in C
  BY <1>1, <1>2, SetInduct
<1> QED BY <1>3 DEF C

(* Fractions.                                                              *)

Frac == Int \X Nat
Below(y) == IF y[2] = 0 THEN 1 ELSE y[2]

LEMMA Scaled ==
  ASSUME NEW a \in Int, NEW b \in Int, NEW c \in Nat \ {0}
  PROVE  a <= b <=> a * c <= b * c
<1>1. ASSUME a <= b PROVE a * c <= b * c
  BY <1>1
<1>2. ASSUME ~(a <= b) PROVE ~(a * c <= b * c)
  <2>1. a - b \in Nat \ {0} /\ a = b + (a - b)
    BY <1>2
  <2>2. \A k, n \in Nat \ {0} : k * n > 0
    OBVIOUS
  <2>3. (a - b) * c > 0
    BY <2>1, <2>2
  <2>4. (a - b) * c = a * c - b * c
    OBVIOUS
  <2>5. a * c \in Int /\ b * c \in Int
    OBVIOUS
  <2> QED BY <2>3, <2>4, <2>5
<1> QED BY <1>1, <1>2

LEMMA LessMeans ==
  ASSUME NEW x \in Frac, NEW y \in Frac
  PROVE  /\ Below(x) \in Nat \ {0} /\ Below(y) \in Nat \ {0}
         /\ x[1] \in Int /\ y[1] \in Int
         /\ Less(x, y) <=> x[1] * Below(y) < y[1] * Below(x)
<1>1. x[1] \in Int /\ y[1] \in Int /\ x[2] \in Nat /\ y[2] \in Nat
  BY DEF Frac
<1>2. Below(x) \in Nat \ {0}
  BY <1>1 DEF Below
<1>3. Below(y) \in Nat \ {0}
  BY <1>1 DEF Below
<1> QED BY <1>1, <1>2, <1>3 DEF Below, Less

LEMMA LessWeak ==
  ASSUME NEW x \in Frac, NEW y \in Frac, NEW z \in Frac, Less(x, y)
  PROVE  ~Less(y, x) /\ (Less(x, z) \/ Less(z, y))
<1> DEFINE xn == x[1]
           yn == y[1]
           zn == z[1]
           xd == Below(x)
           yd == Below(y)
           zd == Below(z)
<1>1. /\ xn \in Int /\ yn \in Int /\ zn \in Int
      /\ xd \in Nat \ {0} /\ yd \in Nat \ {0} /\ zd \in Nat \ {0}
  BY LessMeans
<1>2. xn * yd < yn * xd
  BY LessMeans
<1>3. Less(y, x) <=> yn * xd < xn * yd
  BY LessMeans
<1>4. Less(x, z) <=> xn * zd < zn * xd
  BY LessMeans
<1>5. Less(z, y) <=> zn * yd < yn * zd
  BY LessMeans
<1> HIDE DEF xn, yn, zn, xd, yd, zd
<1>6. /\ xn * yd \in Int /\ yn * xd \in Int /\ xn * zd \in Int /\ zn * xd \in Int
      /\ zn * yd \in Int /\ yn * zd \in Int
  BY <1>1
<1>7. ~Less(y, x)
  BY <1>2, <1>3, <1>6
<1>8. Less(x, z) \/ Less(z, y)
  <2> SUFFICES ASSUME ~Less(x, z), ~Less(z, y) PROVE FALSE
    OBVIOUS
  <2>1. zn * xd <= xn * zd /\ yn * zd <= zn * yd
    BY <1>4, <1>5, <1>6
  <2>2. (zn * xd) * yd <= (xn * zd) * yd
    BY <1>1, <1>6, <2>1, Scaled
  <2>3. (yn * zd) * xd <= (zn * yd) * xd
    BY <1>1, <1>6, <2>1, Scaled
  <2>4. (zn * xd) * yd = (zn * yd) * xd
    BY <1>1
  <2>5. (xn * zd) * yd = (xn * yd) * zd /\ (yn * zd) * xd = (yn * xd) * zd
    BY <1>1
  <2>6. (yn * xd) * zd <= (xn * yd) * zd
    <3>1. (zn * xd) * yd \in Int /\ (xn * zd) * yd \in Int /\ (yn * zd) * xd \in Int
      BY <1>1
    <3> QED BY <2>2, <2>3, <2>4, <2>5, <3>1
  <2>7. yn * xd <= xn * yd
    BY <1>1, <1>6, <2>6, Scaled
  <2> QED BY <1>2, <1>6, <2>7
<1> QED BY <1>7, <1>8

-----------------------------------------------------------------------------
(* The keys by which a threshold, or a trial, is ahead of another.            *)

LEMMA FirstOfFour ==
  ASSUME NEW a1, NEW a2, NEW b1, NEW b2, NEW c1, NEW c2, NEW d1, NEW d2
  PROVE  FirstLess(<<<<a1, a2>>, <<b1, b2>>, <<c1, c2>>, <<d1, d2>>>>) <=>
             \/ Less(a1, a2)
             \/ /\ ~Less(a2, a1)
                /\ \/ Less(b1, b2)
                   \/ /\ ~Less(b2, b1)
                      /\ Less(c1, c2) \/ (~Less(c2, c1) /\ Less(d1, d2))
<1> DEFINE keys == <<<<a1, a2>>, <<b1, b2>>, <<c1, c2>>, <<d1, d2>>>>
           Decides(i) == /\ Less(keys[i][1], keys[i][2])
                         /\ \A j \in 1..(i - 1) : ~Less(keys[j][2], keys[j][1])
<1>1. FirstLess(keys) <=> \E i \in DOMAIN keys : Decides(i)
  BY DEF FirstLess
<1>2. DOMAIN keys = {1, 2, 3, 4}
  OBVIOUS
<1>3. /\ keys[1] = <<a1, a2>> /\ keys[2] = <<b1, b2>>
      /\ keys[3] = <<c1, c2>> /\ keys[4] = <<d1, d2>>
  OBVIOUS
<1>4. 1..(1 - 1) = {} /\ 1..(2 - 1) = {1} /\ 1..(3 - 1) = {1, 2} /\ 1..(4 - 1) = {1, 2, 3}
  OBVIOUS
<1> HIDE DEF keys
<1>5. Decides(1) <=> Less(a1, a2)
  BY <1>3, <1>4
<1>6. Decides(2) <=> Less(b1, b2) /\ ~Less(a2, a1)
  BY <1>3, <1>4
<1>7. Decides(3) <=> Less(c1, c2) /\ ~Less(a2, a1) /\ ~Less(b2, b1)
  BY <1>3, <1>4
<1>8. Decides(4) <=> Less(d1, d2) /\ ~Less(a2, a1) /\ ~Less(b2, b1) /\ ~Less(c2, c1)
  BY <1>3, <1>4
<1> HIDE DEF Decides
<1>9. FirstLess(keys) <=> Decides(1) \/ Decides(2) \/ Decides(3) \/ Decides(4)
  BY <1>1, <1>2
<1>10. FirstLess(keys) <=> FirstLess(<<<<a1, a2>>, <<b1, b2>>, <<c1, c2>>, <<d1, d2>>>>)
  BY DEF keys
<1> QED BY <1>5, <1>6, <1>7, <1>8, <1>9, <1>10

Rising(P, k) == {z \in P \X P : Less(k[z[1]], k[z[2]])}
Falling(P, k) == {z \in P \X P : Less(k[z[2]], k[z[1]])}

LEMMA KeyWeak ==
  ASSUME NEW P, NEW k \in [P -> Frac]
  PROVE  Weak(P, Rising(P, k)) /\ Weak(P, Falling(P, k))
<1>1. ASSUME NEW p \in P, NEW q \in P, NEW r \in P, Less(k[p], k[q])
      PROVE  ~Less(k[q], k[p]) /\ (Less(k[p], k[r]) \/ Less(k[r], k[q]))
  BY <1>1, LessWeak
<1>2. \A p, q \in P : /\ <<p, q>> \in Rising(P, k) <=> Less(k[p], k[q])
                      /\ <<p, q>> \in Falling(P, k) <=> Less(k[q], k[p])
  BY DEF Rising, Falling
<1> QED BY <1>1, <1>2 DEF Weak

\* One is ahead of all others by the first of four orders that tells the two apart.
FirstBy(P, A, B, C, D) ==
    \E p \in P : \A q \in P \ {p} :
        \/ <<p, q>> \in A
        \/ /\ <<q, p>> \notin A
           /\ \/ <<p, q>> \in B
              \/ /\ <<q, p>> \notin B
                 /\ <<p, q>> \in C \/ (<<q, p>> \notin C /\ <<p, q>> \in D)

LEMMA FourOrders ==
  ASSUME NEW P, IsFiniteSet(P), P # {}, NEW A, NEW B, NEW C, NEW D,
         Weak(P, A), Weak(P, B), Weak(P, C), Weak(P, D),
         \A p, q \in P : p # q => <<p, q>> \in D \/ <<q, p>> \in D
  PROVE  FirstBy(P, A, B, C, D)
<1> DEFINE CD == Then(P, C, D)
           BCD == Then(P, B, CD)
           ABCD == Then(P, A, BCD)
<1>1. Weak(P, CD)
  BY ThenWeak
<1>2. Weak(P, BCD)
  <2> HIDE DEF CD
  <2> QED BY <1>1, ThenWeak
<1>3. Weak(P, ABCD)
  <2> HIDE DEF BCD
  <2> QED BY <1>2, ThenWeak
<1>4. \A p, q \in P :
          /\ <<p, q>> \in CD <=> <<p, q>> \in C \/ (<<q, p>> \notin C /\ <<p, q>> \in D)
          /\ <<p, q>> \in BCD <=> <<p, q>> \in B \/ (<<q, p>> \notin B /\ <<p, q>> \in CD)
          /\ <<p, q>> \in ABCD <=> <<p, q>> \in A \/ (<<q, p>> \notin A /\ <<p, q>> \in BCD)
  <2> HIDE DEF CD
  <2>1. \A p, q \in P : <<p, q>> \in CD <=> <<p, q>> \in C \/ (<<q, p>> \notin C /\ <<p, q>> \in D)
    BY DEF CD, Then
  <2>2. \A p, q \in P : <<p, q>> \in BCD <=> <<p, q>> \in B \/ (<<q, p>> \notin B /\ <<p, q>> \in CD)
    BY DEF Then
  <2> HIDE DEF BCD
  <2>3. \A p, q \in P : <<p, q>> \in ABCD <=> <<p, q>> \in A \/ (<<q, p>> \notin A /\ <<p, q>> \in BCD)
    BY DEF Then
  <2> QED BY <2>1, <2>2, <2>3
<1> HIDE DEF CD, BCD, ABCD
<1>5. \A p, q \in P : p # q => <<p, q>> \in ABCD \/ <<q, p>> \in ABCD
  BY <1>4
<1>6. PICK p \in P : \A q \in P \ {p} : <<p, q>> \in ABCD
  BY <1>3, <1>5, FirstExists
<1> QED BY <1>4, <1>6 DEF FirstBy

\* What a threshold, or a trial, is judged by.
Counted(p) == p.tp \in Nat /\ p.fp \in Nat /\ p.fn \in Nat /\ p.tn \in Nat

LEMMA RatesAreFractions ==
  ASSUME NEW p, Counted(p)
  PROVE  F1(p) \in Frac /\ FPR(p) \in Frac /\ Recall(p) \in Frac
<1>1. 2 * p.tp \in Int /\ 2 * p.tp + p.fp + p.fn \in Nat /\ p.fp + p.tn \in Nat /\ p.tp + p.fn \in Nat
  BY DEF Counted
<1> QED BY <1>1 DEF Counted, F1, FPR, Recall, Frac

Apart(P) ==
    /\ IsFiniteSet(P) /\ \A p \in P : Counted(p) /\ p.t \in Nat
    /\ \A p, q \in P : p # q => p.t # q.t

LEMMA KeysOfPoints ==
  ASSUME NEW P, Apart(P)
  PROVE  LET f1 == [p \in P |-> F1(p)]
             fpr == [p \in P |-> FPR(p)]
             recall == [p \in P |-> Recall(p)]
             at == [p \in P |-> <<p.t, 1>>]
         IN  /\ Weak(P, Falling(P, f1)) /\ Weak(P, Rising(P, fpr)) /\ Weak(P, Falling(P, recall))
             /\ Weak(P, Falling(P, at))
             /\ \A p, q \in P :
                    /\ <<p, q>> \in Falling(P, f1) <=> Less(F1(q), F1(p))
                    /\ <<p, q>> \in Rising(P, fpr) <=> Less(FPR(p), FPR(q))
                    /\ <<p, q>> \in Falling(P, recall) <=> Less(Recall(q), Recall(p))
                    /\ <<p, q>> \in Falling(P, at) <=> Less(<<q.t, 1>>, <<p.t, 1>>)
                    /\ p # q => <<p, q>> \in Falling(P, at) \/ <<q, p>> \in Falling(P, at)
<1> DEFINE f1 == [p \in P |-> F1(p)]
           fpr == [p \in P |-> FPR(p)]
           recall == [p \in P |-> Recall(p)]
           at == [p \in P |-> <<p.t, 1>>]
<1>1. f1 \in [P -> Frac] /\ fpr \in [P -> Frac] /\ recall \in [P -> Frac]
  BY RatesAreFractions DEF Apart
<1>2. at \in [P -> Frac]
  BY DEF Apart, Frac
<1>3. \A p, q \in P :
          /\ <<p, q>> \in Falling(P, f1) <=> Less(F1(q), F1(p))
          /\ <<p, q>> \in Rising(P, fpr) <=> Less(FPR(p), FPR(q))
          /\ <<p, q>> \in Falling(P, recall) <=> Less(Recall(q), Recall(p))
          /\ <<p, q>> \in Falling(P, at) <=> Less(<<q.t, 1>>, <<p.t, 1>>)
  BY DEF Falling, Rising
<1>4. \A p, q \in P : p # q => <<p, q>> \in Falling(P, at) \/ <<q, p>> \in Falling(P, at)
  <2> SUFFICES ASSUME NEW p \in P, NEW q \in P, p # q
               PROVE  Less(<<q.t, 1>>, <<p.t, 1>>) \/ Less(<<p.t, 1>>, <<q.t, 1>>)
    BY <1>3
  <2>1. p.t \in Nat /\ q.t \in Nat /\ p.t # q.t
    BY DEF Apart
  <2> QED BY <2>1 DEF Less
<1> HIDE DEF f1, fpr, recall, at
<1>5. /\ Weak(P, Falling(P, f1)) /\ Weak(P, Rising(P, fpr)) /\ Weak(P, Falling(P, recall))
      /\ Weak(P, Falling(P, at))
  BY <1>1, <1>2, KeyWeak
<1> QED BY <1>3, <1>4, <1>5 DEF f1, fpr, recall, at

LEMMA KeysDecide ==
  ASSUME NEW p, NEW q
  PROVE  /\ ByQuality(p, q) <=>
                \/ Less(F1(q), F1(p))
                \/ /\ ~Less(F1(p), F1(q))
                   /\ \/ Less(Recall(q), Recall(p))
                      \/ /\ ~Less(Recall(p), Recall(q))
                         /\ \/ Less(FPR(p), FPR(q))
                            \/ ~Less(FPR(q), FPR(p)) /\ Less(<<q.t, 1>>, <<p.t, 1>>)
         /\ ByAlarms(p, q) <=>
                \/ Less(FPR(p), FPR(q))
                \/ /\ ~Less(FPR(q), FPR(p))
                   /\ \/ Less(F1(q), F1(p))
                      \/ /\ ~Less(F1(p), F1(q))
                         /\ \/ Less(Recall(q), Recall(p))
                            \/ ~Less(Recall(p), Recall(q)) /\ Less(<<q.t, 1>>, <<p.t, 1>>)
<1>1. ByQuality(p, q) <=> FirstLess(<<<<F1(q), F1(p)>>, <<Recall(q), Recall(p)>>, <<FPR(p), FPR(q)>>,
                                     <<<<q.t, 1>>, <<p.t, 1>>>>>>)
  BY DEF ByQuality
<1>2. ByAlarms(p, q) <=> FirstLess(<<<<FPR(p), FPR(q)>>, <<F1(q), F1(p)>>, <<Recall(q), Recall(p)>>,
                                    <<<<q.t, 1>>, <<p.t, 1>>>>>>)
  BY DEF ByAlarms
<1> QED BY <1>1, <1>2, FirstOfFour

\* The two ways to select a threshold always find one.
LEMMA BestExists ==
  ASSUME NEW P, Apart(P), P # {}
  PROVE  /\ \E p \in P : \A q \in P \ {p} : ByQuality(p, q)
         /\ \E p \in P : \A q \in P \ {p} : ByAlarms(p, q)
<1> DEFINE A == Falling(P, [p \in P |-> F1(p)])
           B == Falling(P, [p \in P |-> Recall(p)])
           C == Rising(P, [p \in P |-> FPR(p)])
           D == Falling(P, [p \in P |-> <<p.t, 1>>])
<1>1. /\ Weak(P, A) /\ Weak(P, B) /\ Weak(P, C) /\ Weak(P, D)
      /\ \A p, q \in P :
             /\ <<p, q>> \in A <=> Less(F1(q), F1(p))
             /\ <<p, q>> \in B <=> Less(Recall(q), Recall(p))
             /\ <<p, q>> \in C <=> Less(FPR(p), FPR(q))
             /\ <<p, q>> \in D <=> Less(<<q.t, 1>>, <<p.t, 1>>)
             /\ p # q => <<p, q>> \in D \/ <<q, p>> \in D
  BY KeysOfPoints
<1> HIDE DEF A, B, C, D
<1>2. IsFiniteSet(P)
  BY DEF Apart
<1>5. \A p, q \in P : p # q => <<p, q>> \in D \/ <<q, p>> \in D
  BY <1>1
<1>6. Weak(P, A) /\ Weak(P, B) /\ Weak(P, C) /\ Weak(P, D)
  BY <1>1
<1>3. \E p \in P : \A q \in P \ {p} : ByQuality(p, q)
  <2>0. FirstBy(P, A, B, C, D)
    BY <1>2, <1>5, <1>6, FourOrders
  <2>1. PICK p \in P : \A q \in P \ {p} :
             \/ <<p, q>> \in A
             \/ /\ <<q, p>> \notin A
                /\ \/ <<p, q>> \in B
                   \/ /\ <<q, p>> \notin B
                      /\ <<p, q>> \in C \/ (<<q, p>> \notin C /\ <<p, q>> \in D)
    BY <2>0 DEF FirstBy
  <2>2. ASSUME NEW q \in P \ {p} PROVE ByQuality(p, q)
    BY <1>1, <2>1, KeysDecide
  <2> QED BY <2>2
<1>4. \E p \in P : \A q \in P \ {p} : ByAlarms(p, q)
  <2>0. FirstBy(P, C, A, B, D)
    BY <1>2, <1>5, <1>6, FourOrders
  <2>1. PICK p \in P : \A q \in P \ {p} :
             \/ <<p, q>> \in C
             \/ /\ <<q, p>> \notin C
                /\ \/ <<p, q>> \in A
                   \/ /\ <<q, p>> \notin A
                      /\ <<p, q>> \in B \/ (<<q, p>> \notin B /\ <<p, q>> \in D)
    BY <2>0 DEF FirstBy
  <2>2. ASSUME NEW q \in P \ {p} PROVE ByAlarms(p, q)
    BY <1>1, <2>1, KeysDecide
  <2> QED BY <2>2
<1> QED BY <1>3, <1>4

\* A threshold under the cap is selected if there is one, and none of them has a better
\* F1; otherwise none has fewer false alarms.
LEMMA SelectedIsBest ==
  ASSUME NEW P, Apart(P), P # {}, NEW cap
  PROVE  LET c == Selected(P, cap)
             under == {p \in P : Under(p, cap)}
         IN  /\ c \in P
             /\ under # {} => c \in under
             /\ \A p \in under : ~Less(F1(c), F1(p))
             /\ under = {} => \A p \in P : ~Less(FPR(p), FPR(c))
<1> DEFINE c == Selected(P, cap)
           under == {p \in P : Under(p, cap)}
<1>1. ASSUME NEW p \in P, NEW q \in P
      PROVE  /\ ByQuality(p, q) => ~Less(F1(p), F1(q))
             /\ ByAlarms(p, q) => ~Less(FPR(q), FPR(p))
             /\ ~Less(F1(p), F1(p)) /\ ~Less(FPR(p), FPR(p))
  <2>1. F1(p) \in Frac /\ F1(q) \in Frac /\ FPR(p) \in Frac /\ FPR(q) \in Frac
    BY RatesAreFractions DEF Apart
  <2>2. ByQuality(p, q) => Less(F1(q), F1(p)) \/ ~Less(F1(p), F1(q))
    BY KeysDecide
  <2>3. ByAlarms(p, q) => Less(FPR(p), FPR(q)) \/ ~Less(FPR(q), FPR(p))
    BY KeysDecide
  <2>4. Less(F1(q), F1(p)) => ~Less(F1(p), F1(q))
    BY <2>1, LessWeak
  <2>5. Less(FPR(p), FPR(q)) => ~Less(FPR(q), FPR(p))
    BY <2>1, LessWeak
  <2>6. ~Less(F1(p), F1(p)) /\ ~Less(FPR(p), FPR(p))
    BY <2>1, LessWeak
  <2> QED BY <2>2, <2>3, <2>4, <2>5, <2>6
<1>2. CASE under = {}
  <2>1. c = CHOOSE p \in P : \A q \in P \ {p} : ByAlarms(p, q)
    BY <1>2 DEF Selected, Top
  <2>2. c \in P /\ \A q \in P \ {c} : ByAlarms(c, q)
    <3> HIDE DEF c
    <3> QED BY <2>1, BestExists
  <2>3. ASSUME NEW p \in P PROVE ~Less(FPR(p), FPR(c))
    <3> HIDE DEF c
    <3>1. CASE p = c
      BY <1>1, <2>2, <3>1
    <3>2. CASE p # c
      BY <1>1, <2>2, <3>2
    <3> QED BY <3>1, <3>2
  <2> QED BY <1>2, <2>2, <2>3
<1>3. CASE under # {}
  <2>1. c = CHOOSE p \in under : \A q \in under \ {p} : ByQuality(p, q)
    BY <1>3 DEF Selected, Top
  <2>2. Apart(under)
    BY FS_Subset DEF Apart
  <2>3. under \subseteq P
    OBVIOUS
  <2> HIDE DEF c, under
  <2>4. c \in under /\ \A q \in under \ {c} : ByQuality(c, q)
    BY <1>3, <2>1, <2>2, BestExists
  <2>5. ASSUME NEW p \in under PROVE ~Less(F1(c), F1(p))
    <3>1. p \in P /\ c \in P
      BY <2>3, <2>4
    <3>2. CASE p = c
      BY <1>1, <3>1, <3>2
    <3>3. CASE p # c
      BY <1>1, <2>4, <3>1, <3>3
    <3> QED BY <3>2, <3>3
  <2>6. c \in P
    BY <2>3, <2>4
  <2>7. c = Selected(P, cap) /\ under = {p \in P : Under(p, cap)}
    BY DEF c, under
  <2> QED BY <1>3, <2>4, <2>5, <2>6, <2>7
<1> QED BY <1>2, <1>3

-----------------------------------------------------------------------------
(* Sorting, and the sweep.                                                  *)

\* A sequence of all elements of a finite set, each once.
LEMMA ListsAll ==
  ASSUME NEW S, IsFiniteSet(S), NEW o \in SetToSeqs(S)
  PROVE  /\ Cardinality(S) \in Nat /\ o \in [1..Cardinality(S) -> S] /\ Len(o) = Cardinality(S)
         /\ \A i, j \in 1..Cardinality(S) : i # j => o[i] # o[j]
         /\ \A x \in S : \E i \in 1..Cardinality(S) : o[i] = x
<1> DEFINE n == Cardinality(S)
<1>1. n \in Nat
  BY FS_CardinalityType
<1>2. o \in [1..n -> S] /\ \A i, j \in 1..n : i # j => o[i] # o[j]
  BY DEF SetToSeqs
<1>3. IsFiniteSet(1..n) /\ Cardinality(1..n) = n
  BY <1>1, FS_Interval
<1> HIDE DEF n
<1>4. Len(o) = n
  BY <1>1, <1>2
<1>5. o \in Injection(1..n, S)
  BY <1>2 DEF Injection, IsInjective
<1>6. o \in Surjection(1..n, S)
  BY <1>3, <1>5, FS_Injection DEF n
<1>7. \A x \in S : \E i \in 1..n : o[i] = x
  BY <1>6 DEF Surjection
<1> QED BY <1>1, <1>2, <1>4, <1>7 DEF n

LEMMA DescendingExists ==
  ASSUME NEW S, IsFiniteSet(S), NEW score \in [S -> Nat]
  PROVE  \E o \in SetToSeqs(S) : \A i, j \in DOMAIN o : i < j => score[o[i]] >= score[o[j]]
<1> DEFINE Sorted(n, T) == \E o \in [1..n -> T] :
               \A i, j \in 1..n : i < j => o[i] # o[j] /\ score[o[i]] >= score[o[j]]
           C == {n \in Nat : \A T \in SUBSET S : IsFiniteSet(T) /\ Cardinality(T) = n => Sorted(n, T)}
<1>1. 0 \in C
  <2> SUFFICES ASSUME NEW T \in SUBSET S PROVE Sorted(0, T)
    OBVIOUS
  <2>1. 1..0 = {}
    OBVIOUS
  <2>2. [i \in 1..0 |-> S] \in [1..0 -> T]
    BY <2>1
  <2> QED BY <2>1, <2>2
<1>2. ASSUME NEW n \in Nat, n \in C
      PROVE  n + 1 \in C
  <2> SUFFICES ASSUME NEW T \in SUBSET S, IsFiniteSet(T), Cardinality(T) = n + 1
               PROVE  Sorted(n + 1, T)
    OBVIOUS
  <2>1. PICK x \in T : \A y \in T : score[x] <= score[y]
    <3> DEFINE Values == {score[y] : y \in T}
    <3>1. Values \subseteq Nat /\ Values # {}
      <4>1. T # {}
        BY FS_EmptySet
      <4> QED BY <4>1
    <3>2. PICK v \in Values : \A u \in Values : v <= u
      <4> HIDE DEF Values
      <4> QED BY <3>1, LeastNat
    <3> QED BY <3>2
  <2>2. IsFiniteSet(T \ {x}) /\ Cardinality(T \ {x}) = n
    <3>1. IsFiniteSet(T \ {x}) /\ Cardinality(T \ {x}) = Cardinality(T) - 1
      BY <2>1, FS_RemoveElement
    <3> QED BY <3>1
  <2>3. Sorted(n, T \ {x})
    BY <1>2, <2>2
  <2>4. PICK o \in [1..n -> T \ {x}] :
            \A i, j \in 1..n : i < j => o[i] # o[j] /\ score[o[i]] >= score[o[j]]
    BY <2>3
  <2> DEFINE p == [i \in 1..(n + 1) |-> IF i <= n THEN o[i] ELSE x]
  <2>5. \A i \in 1..n : i \in 1..(n + 1) /\ p[i] = o[i] /\ p[i] \in T \ {x}
    BY <2>4
  <2>6. n + 1 \in 1..(n + 1) /\ p[n + 1] = x /\ \A i \in 1..(n + 1) : i \in 1..n \/ i = n + 1
    OBVIOUS
  <2>7. p \in [1..(n + 1) -> T]
    BY <2>1, <2>4
  <2> HIDE DEF p
  <2>8. ASSUME NEW i \in 1..(n + 1), NEW j \in 1..(n + 1), i < j
        PROVE  p[i] # p[j] /\ score[p[i]] >= score[p[j]]
    <3>1. i \in 1..n
      BY <2>8
    <3>2. CASE j \in 1..n
      BY <2>4, <2>5, <2>8, <3>1, <3>2
    <3>3. CASE j = n + 1
      <4>1. p[i] \in T /\ p[i] # x /\ p[j] = x
        BY <2>5, <2>6, <3>1, <3>3
      <4>2. score[x] <= score[p[i]] /\ score[x] \in Nat /\ score[p[i]] \in Nat
        BY <2>1, <4>1
      <4> QED BY <4>1, <4>2
    <3> QED BY <2>6, <3>2, <3>3
  <2> QED BY <2>7, <2>8
<1> HIDE DEF C
<1>3. Cardinality(S) \in C /\ Cardinality(S) \in Nat
  BY <1>1, <1>2, NatInduct, FS_CardinalityType
<1>4. Sorted(Cardinality(S), S)
  BY <1>3 DEF C
<1>5. PICK o \in [1..Cardinality(S) -> S] :
          \A i, j \in 1..Cardinality(S) : i < j => o[i] # o[j] /\ score[o[i]] >= score[o[j]]
  BY <1>4
<1>6. \A i, j \in 1..Cardinality(S) : i # j => o[i] # o[j]
  BY <1>3, <1>5
<1>7. o \in SetToSeqs(S)
  BY <1>5, <1>6 DEF SetToSeqs
<1> QED BY <1>5, <1>7

\* A sequence of all of S, each once, the highest scores first.
Sorted(S, score, o) ==
    /\ Len(o) \in Nat /\ o \in [1..Len(o) -> S]
    /\ \A i, j \in 1..Len(o) : i < j => score[o[i]] >= score[o[j]]
    /\ \A i, j \in 1..Len(o) : i # j => o[i] # o[j]
    /\ \A x \in S : \E i \in 1..Len(o) : o[i] = x

LEMMA DescendingSorts ==
  ASSUME NEW S, IsFiniteSet(S), NEW score \in [S -> Nat]
  PROVE  Sorted(S, score, Descending(S, score))
<1> DEFINE o == Descending(S, score)
<1>1. o \in SetToSeqs(S) /\ \A i, j \in DOMAIN o : i < j => score[o[i]] >= score[o[j]]
  BY DescendingExists DEF Descending
<1> HIDE DEF o
<1>2. /\ Cardinality(S) \in Nat /\ o \in [1..Cardinality(S) -> S] /\ Len(o) = Cardinality(S)
      /\ \A i, j \in 1..Cardinality(S) : i # j => o[i] # o[j]
      /\ \A x \in S : \E i \in 1..Cardinality(S) : o[i] = x
  BY <1>1, ListsAll
<1>3. DOMAIN o = 1..Len(o)
  BY <1>2
<1>4. Sorted(S, score, o)
  BY <1>1, <1>2, <1>3 DEF Sorted
<1> QED BY <1>4 DEF o

\* The cursor stops right behind the scores that are not below the threshold, if it
\* starts where none before it is.
LEMMA CursorStops ==
  ASSUME NEW S, NEW score \in [S -> Nat], NEW o, Len(o) \in Nat, o \in [1..Len(o) -> S],
         \A i, j \in 1..Len(o) : i < j => score[o[i]] >= score[o[j]],
         NEW t \in Nat, NEW from \in 0..Len(o), \A k \in 1..from : score[o[k]] >= t
  PROVE  /\ Cursor(o, score, t, from) \in 0..Len(o)
         /\ \A k \in 1..Len(o) : k <= Cursor(o, score, t, from) <=> score[o[k]] >= t
<1> DEFINE below == {k \in from + 1 .. Len(o) : score[o[k]] < t}
           c == Cursor(o, score, t, from)
<1>1. \A k \in 1..Len(o) : o[k] \in S /\ score[o[k]] \in Nat
  OBVIOUS
<1>2. CASE below = {}
  <2>1. c = Len(o)
    BY <1>2 DEF Cursor
  <2>2. ASSUME NEW k \in 1..Len(o) PROVE score[o[k]] >= t
    <3>1. CASE k <= from
      BY <3>1
    <3>2. CASE k > from
      <4>1. k \in from + 1 .. Len(o) /\ k \notin below
        BY <1>2, <3>2
      <4> QED BY <1>1, <4>1
    <3> QED BY <3>1, <3>2
  <2> HIDE DEF c
  <2> QED BY <2>1, <2>2 DEF c
<1>3. CASE below # {}
  <2> DEFINE m == CHOOSE k \in below : \A l \in below : k <= l
  <2>1. c = m - 1
    BY <1>3 DEF Cursor
  <2>2. below \subseteq Nat
    OBVIOUS
  <2>3. m \in below /\ \A l \in below : m <= l
    <3> HIDE DEF below
    <3> QED BY <1>3, <2>2, LeastNat
  <2> HIDE DEF m
  <2>4. m \in from + 1 .. Len(o) /\ score[o[m]] < t
    BY <2>3
  <2>5. ASSUME NEW k \in 1..Len(o) PROVE k <= m - 1 <=> score[o[k]] >= t
    <3>1. CASE k <= from
      BY <2>4, <3>1
    <3>2. CASE k > from /\ k < m
      <4>1. k \notin below /\ k \in from + 1 .. Len(o)
        BY <2>3, <2>4, <3>2
      <4> QED BY <1>1, <2>4, <3>2, <4>1
    <3>3. CASE k >= m
      <4>1. k = m \/ score[o[m]] >= score[o[k]]
        BY <2>4, <3>3
      <4>2. score[o[k]] < t
        BY <1>1, <2>4, <4>1
      <4> QED BY <1>1, <2>4, <3>3, <4>2
    <3> QED BY <2>4, <3>1, <3>2, <3>3
  <2>6. m - 1 \in 0..Len(o)
    BY <2>4
  <2> HIDE DEF c
  <2> QED BY <2>1, <2>5, <2>6 DEF c
<1> QED BY <1>2, <1>3

\* The sweep with one cursor counts what evaluating every threshold would.
LEMMA SweepEvaluates ==
  ASSUME NEW rows, IsFiniteSet(rows), NEW score \in [rows -> Grid]
  PROVE  Sweep(rows, score) = {Evaluate(rows, score, t) : t \in Grid}
<1> DEFINE o == Descending(rows, score)
           ts == Descending(Grid, [t \in Grid |-> t])
           Passed[i \in 0..Len(ts)] == IF i = 0 THEN 0 ELSE Cursor(o, score, ts[i], Passed[i - 1])
           Alerts(i) == {o[k] : k \in 1..Passed[i]}
           At(i) == Point(ts[i], Cardinality(Attacks(Alerts(i))), Cardinality(Benign(Alerts(i))), rows)
<1>1. Sweep(rows, score) = {At(i) : i \in DOMAIN ts}
  BY DEF Sweep
<1>2. IsFiniteSet(Grid) /\ Grid \subseteq Nat /\ score \in [rows -> Nat]
  BY GridAssumption
<1>3. /\ Len(o) \in Nat /\ o \in [1..Len(o) -> rows]
      /\ \A i, j \in 1..Len(o) : i < j => score[o[i]] >= score[o[j]]
      /\ \A r \in rows : \E i \in 1..Len(o) : o[i] = r
  <2>1. Sorted(rows, score, o)
    BY <1>2, DescendingSorts
  <2> HIDE DEF o
  <2> QED BY <2>1 DEF Sorted
<1>4. /\ Len(ts) \in Nat /\ ts \in [1..Len(ts) -> Grid]
      /\ \A i, j \in 1..Len(ts) : i < j => ts[i] >= ts[j]
      /\ \A t \in Grid : \E i \in 1..Len(ts) : ts[i] = t
  <2> DEFINE id == [t \in Grid |-> t]
  <2>1. id \in [Grid -> Nat] /\ \A t \in Grid : id[t] = t
    BY <1>2
  <2> HIDE DEF id
  <2>3. ts = Descending(Grid, id)
    BY DEF id
  <2>2. Sorted(Grid, id, Descending(Grid, id))
    BY <1>2, <2>1, DescendingSorts
  <2> HIDE DEF ts
  <2>4. /\ Len(ts) \in Nat /\ ts \in [1..Len(ts) -> Grid]
        /\ \A i, j \in 1..Len(ts) : i < j => id[ts[i]] >= id[ts[j]]
        /\ \A t \in Grid : \E i \in 1..Len(ts) : ts[i] = t
    BY <2>2, <2>3 DEF Sorted
  <2> QED BY <2>1, <2>4
<1> HIDE DEF o, ts
<1>5. /\ DOMAIN Passed = 0..Len(ts) /\ Passed[0] = 0
      /\ \A i \in 1..Len(ts) : Passed[i] = Cursor(o, score, ts[i], Passed[i - 1])
  <2> DEFINE V == 0..Len(o)
             next == [p \in Nat \X V |-> Cursor(o, score, ts[p[1]], p[2])]
  <2>1. ASSUME NEW t, NEW from \in V PROVE Cursor(o, score, t, from) \in V
    <3> DEFINE below == {k \in from + 1 .. Len(o) : score[o[k]] < t}
               m == CHOOSE k \in below : \A l \in below : k <= l
    <3>1. CASE below = {}
      BY <1>3, <3>1 DEF Cursor
    <3>2. CASE below # {}
      <4>1. below \subseteq Nat
        BY <1>3
      <4>2. m \in below
        <5> HIDE DEF below
        <5> QED BY <3>2, <4>1, LeastNat
      <4>3. Cursor(o, score, t, from) = m - 1
        BY <3>2 DEF Cursor
      <4> HIDE DEF m
      <4>4. m \in from + 1 .. Len(o)
        BY <4>2
      <4>5. m - 1 \in V
        BY <1>3, <4>4
      <4> QED BY <4>3, <4>5
    <3> QED BY <3>1, <3>2
  <2>2. next \in [Nat \X V -> V] /\ 0 \in V
    BY <1>3, <2>1
  <2>3. \A n \in Nat, v \in V : next[<<n, v>>] = Cursor(o, score, ts[n], v)
    OBVIOUS
  <2> HIDE DEF V, next
  <2>4. PICK f : f \in [0..Len(ts) -> V] /\
            f[0] = 0 /\ \A n \in 1..Len(ts) : f[n] = next[<<n, f[n - 1]>>]
    <3>1. 0 \in V /\ next \in Steps(V) /\ Len(ts) \in Nat
      BY <1>4, <2>2 DEF Steps
    <3>2. PICK f : Computed(V, 0, next, Len(ts), f)
      BY <3>1, Recursion
    <3> QED BY <3>2 DEF Computed
  <2>5. ASSUME NEW i \in 0..Len(ts)
        PROVE  f[i] = IF i = 0 THEN 0 ELSE Cursor(o, score, ts[i], f[i - 1])
    <3>1. CASE i = 0
      BY <2>4, <3>1
    <3>2. CASE i # 0
      <4>1. i \in 1..Len(ts) /\ i \in Nat /\ i - 1 \in 0..Len(ts)
        BY <1>4, <3>2
      <4>2. f[i - 1] \in V
        BY <2>4, <4>1
      <4> QED BY <2>3, <2>4, <3>2, <4>1, <4>2
    <3> QED BY <3>1, <3>2
  <2>6. f = [i \in 0..Len(ts) |-> IF i = 0 THEN 0 ELSE Cursor(o, score, ts[i], f[i - 1])]
    BY <2>4, <2>5
  <2>7. Passed = CHOOSE g : g = [i \in 0..Len(ts) |->
                                    IF i = 0 THEN 0 ELSE Cursor(o, score, ts[i], g[i - 1])]
    OBVIOUS
  <2>8. Passed = [i \in 0..Len(ts) |-> IF i = 0 THEN 0 ELSE Cursor(o, score, ts[i], Passed[i - 1])]
    <3> HIDE DEF Passed
    <3> QED BY <2>6, <2>7
  <2> HIDE DEF Passed
  <2> QED BY <1>4, <2>8
<1> HIDE DEF Passed
<1> DEFINE Cut(i) == /\ Passed[i] \in 0..Len(o)
                     /\ \A k \in 1..Len(o) : k <= Passed[i] <=> score[o[k]] >= ts[i]
<1>6. \A i \in 1..Len(ts) : Cut(i)
  <2> DEFINE C == {n \in Nat : n + 1 \in 1..Len(ts) => Cut(n + 1)}
  <2>1. ASSUME NEW i \in 1..Len(ts), Passed[i - 1] \in 0..Len(o),
               \A k \in 1..Passed[i - 1] : score[o[k]] >= ts[i]
        PROVE  Cut(i)
    <3>1. ts[i] \in Nat
      BY <1>2, <1>4
    <3>2. Passed[i] = Cursor(o, score, ts[i], Passed[i - 1])
      BY <1>5
    <3>3. /\ Cursor(o, score, ts[i], Passed[i - 1]) \in 0..Len(o)
          /\ \A k \in 1..Len(o) : k <= Cursor(o, score, ts[i], Passed[i - 1]) <=> score[o[k]] >= ts[i]
      <4> DEFINE c == Cursor(o, score, ts[i], Passed[i - 1])
                 u == ts[i]
                 from == Passed[i - 1]
      <4>1. u \in Nat /\ from \in 0..Len(o) /\ \A k \in 1..from : score[o[k]] >= u
        BY <2>1, <3>1
      <4> HIDE DEF u, from
      <4>2. /\ Cursor(o, score, u, from) \in 0..Len(o)
            /\ \A k \in 1..Len(o) : k <= Cursor(o, score, u, from) <=> score[o[k]] >= u
        BY <1>2, <1>3, <4>1, CursorStops
      <4> QED BY <4>2 DEF u, from
    <3> QED BY <3>2, <3>3
  <2>2. 0 \in C
    <3> SUFFICES ASSUME 0 + 1 \in 1..Len(ts) PROVE Cut(0 + 1)
      OBVIOUS
    <3>1. 1 \in 1..Len(ts) /\ 1 - 1 = 0 /\ 0 + 1 = 1
      OBVIOUS
    <3>2. Passed[1 - 1] = 0 /\ 0 \in 0..Len(o) /\ 1..0 = {}
      BY <1>3, <1>5, <3>1
    <3> HIDE DEF Cut
    <3> QED BY <2>1, <3>1, <3>2
  <2>3. ASSUME NEW n \in Nat, n \in C PROVE n + 1 \in C
    <3> SUFFICES ASSUME (n + 1) + 1 \in 1..Len(ts) PROVE Cut((n + 1) + 1)
      OBVIOUS
    <3> DEFINE i == (n + 1) + 1
    <3>1. i \in 1..Len(ts) /\ i - 1 \in 1..Len(ts) /\ i - 1 = n + 1 /\ i - 1 < i
      BY <1>4
    <3>2. Cut(i - 1)
      BY <2>3, <3>1
    <3>3. ts[i - 1] >= ts[i] /\ ts[i] \in Nat /\ ts[i - 1] \in Nat
      BY <1>2, <1>4, <3>1
    <3>4. ASSUME NEW k \in 1..Passed[i - 1] PROVE score[o[k]] >= ts[i]
      <4>1. k \in 1..Len(o) /\ k <= Passed[i - 1]
        BY <1>3, <3>2
      <4>2. score[o[k]] >= ts[i - 1] /\ score[o[k]] \in Nat
        BY <1>2, <1>3, <3>2, <4>1
      <4> QED BY <3>3, <4>2
    <3>5. Passed[i - 1] \in 0..Len(o)
      BY <3>2
    <3> HIDE DEF i, Cut
    <3>6. Cut(i)
      BY <2>1, <3>1, <3>4, <3>5
    <3> QED BY <3>6 DEF i
  <2> HIDE DEF C, Cut
  <2>4. \A n \in Nat : n \in C
    BY <2>2, <2>3, NatInduct
  <2>5. ASSUME NEW i \in 1..Len(ts) PROVE Cut(i)
    <3>1. i - 1 \in Nat /\ (i - 1) + 1 = i
      BY <1>4
    <3>2. i - 1 \in C
      BY <2>4, <3>1
    <3> QED BY <3>1, <3>2 DEF C
  <2> QED BY <2>5
<1>7. ASSUME NEW i \in 1..Len(ts) PROVE Alerts(i) = {r \in rows : score[r] >= ts[i]}
  <2>1. Cut(i)
    BY <1>6
  <2>2. 1..Passed[i] \subseteq 1..Len(o)
    BY <1>3, <2>1
  <2>3. ASSUME NEW k \in 1..Passed[i] PROVE o[k] \in rows /\ score[o[k]] >= ts[i]
    BY <1>3, <2>1, <2>2
  <2>4. ASSUME NEW r \in rows, score[r] >= ts[i] PROVE \E k \in 1..Passed[i] : o[k] = r
    <3>1. PICK k \in 1..Len(o) : o[k] = r
      BY <1>3
    <3>2. k <= Passed[i]
      BY <2>1, <2>4, <3>1
    <3>3. k \in 1..Passed[i]
      BY <1>3, <2>1, <3>2
    <3> QED BY <3>1, <3>3
  <2> QED BY <2>3, <2>4
<1>8. ASSUME NEW i \in 1..Len(ts) PROVE At(i) = Evaluate(rows, score, ts[i])
  <2> HIDE DEF Alerts
  <2> QED BY <1>7 DEF Evaluate
<1> HIDE DEF At
<1>9. DOMAIN ts = 1..Len(ts)
  BY <1>4
<1> QED BY <1>1, <1>4, <1>8, <1>9

-----------------------------------------------------------------------------
(* What is selected, ranked and sampled.                                    *)

LEMMA ImageFinite ==
  ASSUME NEW S, IsFiniteSet(S), NEW f
  PROVE  /\ IsFiniteSet({f[x] : x \in S})
         /\ Cardinality({f[x] : x \in S}) <= Cardinality(S)
<1> DEFINE T == {f[x] : x \in S}
           g == [x \in S |-> f[x]]
<1>1. g \in Surjection(S, T)
  BY DEF Surjection
<1> HIDE DEF g, T
<1>2. IsFiniteSet(T) /\ Cardinality(T) <= Cardinality(S)
  BY <1>1, FS_Surjection
<1> QED BY <1>2 DEF T

LEMMA Parts ==
  ASSUME NEW S, IsFiniteSet(S), NEW T, T \subseteq S
  PROVE  /\ IsFiniteSet(T) /\ Cardinality(T) \in Nat /\ Cardinality(S) \in Nat
         /\ Cardinality(S) - Cardinality(T) \in Nat
<1>1. T \in SUBSET S
  OBVIOUS
<1>2. IsFiniteSet(T) /\ Cardinality(T) <= Cardinality(S)
  BY <1>1, FS_Subset
<1>3. Cardinality(T) \in Nat /\ Cardinality(S) \in Nat
  BY <1>2, FS_CardinalityType
<1> QED BY <1>2, <1>3

\* The counts at a threshold are numbers of rows.
LEMMA EvaluateCounts ==
  ASSUME NEW rows, IsFiniteSet(rows), NEW score, NEW t
  PROVE  Counted(Evaluate(rows, score, t)) /\ Evaluate(rows, score, t).t = t
<1> DEFINE alerts == {r \in rows : score[r] >= t}
           tp == Cardinality(Attacks(alerts))
           fp == Cardinality(Benign(alerts))
<1>1. /\ Attacks(rows) \subseteq rows /\ Benign(rows) \subseteq rows
      /\ Attacks(alerts) \subseteq Attacks(rows) /\ Benign(alerts) \subseteq Benign(rows)
  BY DEF Attacks, Benign
<1>2. IsFiniteSet(Attacks(rows)) /\ IsFiniteSet(Benign(rows))
  BY <1>1, Parts
<1> HIDE DEF alerts
<1>3. tp \in Nat /\ Cardinality(Attacks(rows)) - tp \in Nat
  BY <1>1, <1>2, Parts
<1>4. fp \in Nat /\ Cardinality(Benign(rows)) - fp \in Nat
  BY <1>1, <1>2, Parts
<1>5. Evaluate(rows, score, t) = Point(t, tp, fp, rows)
  BY DEF Evaluate, alerts
<1>6. /\ Point(t, tp, fp, rows).t = t /\ Point(t, tp, fp, rows).tp = tp
      /\ Point(t, tp, fp, rows).fp = fp
      /\ Point(t, tp, fp, rows).fn = Cardinality(Attacks(rows)) - tp
      /\ Point(t, tp, fp, rows).tn = Cardinality(Benign(rows)) - fp
  BY DEF Point
<1> HIDE DEF tp, fp
<1> QED BY <1>3, <1>4, <1>5, <1>6 DEF Counted

\* A threshold chosen under a cap as it should be.
Chosen(rows, score, cap, c) ==
    LET At(t) == Evaluate(rows, score, t)
        under == {t \in Grid : Under(At(t), cap)}
    IN  /\ c = At(c.t)
        /\ under # {} => c.t \in under
        /\ \A t \in under : ~Less(F1(c), F1(At(t)))
        /\ under = {} => \A t \in Grid : ~Less(FPR(At(t)), FPR(c))

LEMMA ThresholdChosen ==
  ASSUME NEW rows, IsFiniteSet(rows), NEW score, NEW cap,
         NEW points, points = {Evaluate(rows, score, t) : t \in Grid}
  PROVE  Chosen(rows, score, cap, Selected(points, cap))
<1> DEFINE At(t) == Evaluate(rows, score, t)
           P == {At(t) : t \in Grid}
           c == Selected(P, cap)
           under == {t \in Grid : Under(At(t), cap)}
           low == {p \in P : Under(p, cap)}
<1>1. \A t \in Grid : Counted(At(t)) /\ At(t).t = t
  BY EvaluateCounts
<1>2. Apart(P) /\ P # {}
  <2> DEFINE f == [t \in Grid |-> At(t)]
  <2>1. P = {f[t] : t \in Grid}
    OBVIOUS
  <2> HIDE DEF f
  <2>2. IsFiniteSet(P)
    BY <2>1, ImageFinite, GridAssumption
  <2>3. P # {} /\ \A p \in P : Counted(p) /\ p.t \in Nat /\ p.t \in Grid /\ p = At(p.t)
    <3> HIDE DEF At
    <3> QED BY <1>1, GridAssumption
  <2> HIDE DEF P, At
  <2> QED BY <2>2, <2>3 DEF Apart
<1>3. \A p \in P : p.t \in Grid /\ p = At(p.t)
  <2> HIDE DEF At
  <2> QED BY <1>1
<1>4. \A t \in Grid : At(t) \in P
  OBVIOUS
<1> HIDE DEF At, P
<1>5. /\ c \in P
      /\ low # {} => c \in low
      /\ \A p \in low : ~Less(F1(c), F1(p))
      /\ low = {} => \A p \in P : ~Less(FPR(p), FPR(c))
  BY <1>2, SelectedIsBest
<1> HIDE DEF c
<1>6. \A t \in under : At(t) \in low
  BY <1>4
<1>7. under # {} => c.t \in under
  BY <1>3, <1>5, <1>6
<1>8. under = {} => low = {}
  BY <1>3
<1>9. /\ c = At(c.t)
      /\ under # {} => c.t \in under
      /\ \A t \in under : ~Less(F1(c), F1(At(t)))
      /\ under = {} => \A t \in Grid : ~Less(FPR(At(t)), FPR(c))
  BY <1>3, <1>4, <1>5, <1>6, <1>7, <1>8
<1>10. Chosen(rows, score, cap, c)
  BY <1>9 DEF Chosen, At
<1>11. c = Selected(points, cap)
  BY DEF c, P, At
<1> QED BY <1>10, <1>11

Measured(m) == Counted(m.default) /\ Counted(m.tuned) /\ Counted(m.ood)

\* The order of the trials is decided by the gate, then by four keys.
LEMMA TrialsDecide ==
  ASSUME NEW trials, NEW i, NEW j
  PROVE  LET x == trials[i]
             y == trials[j]
         IN  Ahead(trials, i, j) <=>
                 \/ Passes(x) /\ ~Passes(y)
                 \/ /\ Passes(x) <=> Passes(y)
                    /\ \/ Less(F1(y.tuned), F1(x.tuned))
                       \/ /\ ~Less(F1(x.tuned), F1(y.tuned))
                          /\ \/ Less(FPR(x.default), FPR(y.default))
                             \/ /\ ~Less(FPR(y.default), FPR(x.default))
                                /\ \/ Less(Recall(y.ood), Recall(x.ood))
                                   \/ ~Less(Recall(x.ood), Recall(y.ood)) /\ Less(<<i, 1>>, <<j, 1>>)
<1> DEFINE x == trials[i]
           y == trials[j]
           Keys == FirstLess(<<<<F1(y.tuned), F1(x.tuned)>>, <<FPR(x.default), FPR(y.default)>>,
                               <<Recall(y.ood), Recall(x.ood)>>, <<<<i, 1>>, <<j, 1>>>>>>)
<1>1. Ahead(trials, i, j) <=>
          \/ Passes(x) /\ ~Passes(y)
          \/ (Passes(x) <=> Passes(y)) /\ Keys
  <2>1. Ahead(trials, i, j) = (\/ Passes(x) /\ ~Passes(y)
                               \/ Passes(x) = Passes(y) /\ Keys)
    BY DEF Ahead
  <2>2. Passes(x) \in BOOLEAN /\ Passes(y) \in BOOLEAN
    BY DEF Passes, Under
  <2> HIDE DEF x, y, Keys
  <2> QED BY <2>1, <2>2
<1>2. Keys <=>
          \/ Less(F1(y.tuned), F1(x.tuned))
          \/ /\ ~Less(F1(x.tuned), F1(y.tuned))
             /\ \/ Less(FPR(x.default), FPR(y.default))
                \/ /\ ~Less(FPR(y.default), FPR(x.default))
                   /\ \/ Less(Recall(y.ood), Recall(x.ood))
                      \/ ~Less(Recall(x.ood), Recall(y.ood)) /\ Less(<<i, 1>>, <<j, 1>>)
  BY FirstOfFour
<1> HIDE DEF Keys
<1> QED BY <1>1, <1>2

\* Some trial is ahead of all others.
LEMMA TrialAhead ==
  ASSUME NEW trials, NEW n \in Nat \ {0}, \A i \in 1..n : Measured(trials[i])
  PROVE  \E i \in 1..n : \A j \in 1..n \ {i} : Ahead(trials, i, j)
<1> DEFINE P == 1..n
           f1 == [i \in P |-> F1(trials[i].tuned)]
           fpr == [i \in P |-> FPR(trials[i].default)]
           recall == [i \in P |-> Recall(trials[i].ood)]
           place == [i \in P |-> <<i, 1>>]
           G == {z \in P \X P : Passes(trials[z[1]]) /\ ~Passes(trials[z[2]])}
           A == Falling(P, f1)
           B == Rising(P, fpr)
           C == Falling(P, recall)
           D == Rising(P, place)
           CD == Then(P, C, D)
           BCD == Then(P, B, CD)
           ABCD == Then(P, A, BCD)
           R == Then(P, G, ABCD)
<1>1. f1 \in [P -> Frac] /\ fpr \in [P -> Frac] /\ recall \in [P -> Frac]
  BY RatesAreFractions DEF Measured
<1>2. place \in [P -> Frac]
  BY DEF Frac
<1>3. \A p, q \in P :
          /\ <<p, q>> \in A <=> Less(F1(trials[q].tuned), F1(trials[p].tuned))
          /\ <<p, q>> \in B <=> Less(FPR(trials[p].default), FPR(trials[q].default))
          /\ <<p, q>> \in C <=> Less(Recall(trials[q].ood), Recall(trials[p].ood))
          /\ <<p, q>> \in D <=> Less(<<p, 1>>, <<q, 1>>)
          /\ <<p, q>> \in G <=> Passes(trials[p]) /\ ~Passes(trials[q])
  BY DEF Falling, Rising
<1>4. \A p, q \in P : p # q => <<p, q>> \in D \/ <<q, p>> \in D
  <2> SUFFICES ASSUME NEW p \in P, NEW q \in P, p # q
               PROVE  Less(<<p, 1>>, <<q, 1>>) \/ Less(<<q, 1>>, <<p, 1>>)
    BY <1>3
  <2>1. p \in Nat /\ q \in Nat
    OBVIOUS
  <2> QED BY <2>1 DEF Less
<1>5. IsFiniteSet(P) /\ P # {}
  <2>1. 1 \in P
    OBVIOUS
  <2> QED BY <2>1, FS_Interval
<1> HIDE DEF P, f1, fpr, recall, place
<1>6. Weak(P, A) /\ Weak(P, B) /\ Weak(P, C) /\ Weak(P, D)
  BY <1>1, <1>2, KeyWeak
<1>7. Weak(P, G)
  BY DEF Weak
<1> HIDE DEF A, B, C, D, G
<1>8. Weak(P, R)
  <2>1. Weak(P, CD)
    BY <1>6, ThenWeak
  <2> HIDE DEF CD
  <2>2. Weak(P, BCD)
    BY <1>6, <2>1, ThenWeak
  <2> HIDE DEF BCD
  <2>3. Weak(P, ABCD)
    BY <1>6, <2>2, ThenWeak
  <2> HIDE DEF ABCD
  <2> QED BY <1>7, <2>3, ThenWeak
<1>9. \A p, q \in P :
          /\ <<p, q>> \in CD <=> <<p, q>> \in C \/ (<<q, p>> \notin C /\ <<p, q>> \in D)
          /\ <<p, q>> \in BCD <=> <<p, q>> \in B \/ (<<q, p>> \notin B /\ <<p, q>> \in CD)
          /\ <<p, q>> \in ABCD <=> <<p, q>> \in A \/ (<<q, p>> \notin A /\ <<p, q>> \in BCD)
          /\ <<p, q>> \in R <=> <<p, q>> \in G \/ (<<q, p>> \notin G /\ <<p, q>> \in ABCD)
  <2>1. \A p, q \in P : <<p, q>> \in CD <=> <<p, q>> \in C \/ (<<q, p>> \notin C /\ <<p, q>> \in D)
    BY DEF Then
  <2> HIDE DEF CD
  <2>2. \A p, q \in P : <<p, q>> \in BCD <=> <<p, q>> \in B \/ (<<q, p>> \notin B /\ <<p, q>> \in CD)
    BY DEF Then
  <2> HIDE DEF BCD
  <2>3. \A p, q \in P : <<p, q>> \in ABCD <=> <<p, q>> \in A \/ (<<q, p>> \notin A /\ <<p, q>> \in BCD)
    BY DEF Then
  <2> HIDE DEF ABCD
  <2>4. \A p, q \in P : <<p, q>> \in R <=> <<p, q>> \in G \/ (<<q, p>> \notin G /\ <<p, q>> \in ABCD)
    BY DEF Then
  <2> QED BY <2>1, <2>2, <2>3, <2>4
<1> HIDE DEF CD, BCD, ABCD, R
<1>10. \A p, q \in P : p # q => <<p, q>> \in R \/ <<q, p>> \in R
  BY <1>4, <1>9
<1>11. PICK p \in P : \A q \in P \ {p} : <<p, q>> \in R
  BY <1>5, <1>8, <1>10, FirstExists
<1>12. ASSUME NEW q \in P \ {p} PROVE Ahead(trials, p, q)
  <2>1. <<p, q>> \in R /\ p \in P /\ q \in P
    BY <1>11, <1>12
  <2>2. \/ <<p, q>> \in G
        \/ /\ <<q, p>> \notin G /\ <<p, q>> \notin G
           /\ \/ <<p, q>> \in A
              \/ /\ <<q, p>> \notin A
                 /\ \/ <<p, q>> \in B
                    \/ /\ <<q, p>> \notin B
                       /\ <<p, q>> \in C \/ (<<q, p>> \notin C /\ <<p, q>> \in D)
    BY <1>9, <2>1
  <2> QED BY <1>3, <2>1, <2>2, TrialsDecide
<1> QED BY <1>11, <1>12 DEF P

\* The trial promoted passes the gate if any does, and no other of those has a better F1.
LEMMA PromotedIsBest ==
  ASSUME NEW trials, NEW n \in Nat \ {0}, \A i \in 1..n : Measured(trials[i]),
         NEW best, best = CHOOSE i \in 1..n : \A j \in 1..n \ {i} : Ahead(trials, i, j)
  PROVE  /\ best \in 1..n
         /\ \A i \in 1..n : Passes(trials[i]) =>
                Passes(trials[best]) /\ ~Less(F1(trials[best].tuned), F1(trials[i].tuned))
<1>1. best \in 1..n /\ \A j \in 1..n \ {best} : Ahead(trials, best, j)
  BY TrialAhead
<1>2. \A i \in 1..n : F1(trials[i].tuned) \in Frac
  BY RatesAreFractions DEF Measured
<1>3. ASSUME NEW i \in 1..n, Passes(trials[i])
      PROVE  Passes(trials[best]) /\ ~Less(F1(trials[best].tuned), F1(trials[i].tuned))
  <2> DEFINE x == F1(trials[best].tuned)
             y == F1(trials[i].tuned)
  <2>1. x \in Frac /\ y \in Frac
    BY <1>1, <1>2
  <2>2. CASE i = best
    <3>1. x = y
      BY <2>2
    <3> HIDE DEF x, y
    <3>2. ~Less(x, y)
      BY <2>1, <3>1, LessWeak
    <3> QED BY <1>3, <2>2, <3>2 DEF x, y
  <2>3. CASE i # best
    <3>1. Ahead(trials, best, i)
      BY <1>1, <2>3
    <3>2. Passes(trials[best]) /\ (Less(y, x) \/ ~Less(x, y))
      BY <1>3, <3>1, TrialsDecide
    <3> HIDE DEF x, y
    <3>3. Less(y, x) => ~Less(x, y)
      BY <2>1, LessWeak
    <3> QED BY <3>2, <3>3 DEF x, y
  <2> QED BY <2>2, <2>3
<1> QED BY <1>1, <1>3

\* What a trial is measured by.
LEMMA TrialsMeasured ==
  ASSUME NEW scores,
         IsFiniteSet(data.rows["val"]), IsFiniteSet(data.rows["ood"])
  PROVE  Measured(Metrics(scores))
<1>1. \A s \in {"val", "ood"} : \A score, t : Counted(Evaluate(data.rows[s], score, t))
  BY EvaluateCounts
<1> QED BY <1>1 DEF Measured, Metrics

LEMMA KernelTrialsMeasured ==
  ASSUME NEW scores,
         IsFiniteSet(published.rows["val"]), IsFiniteSet(published.rows["ood"])
  PROVE  Measured(KernelMetrics(scores))
<1>1. \A s \in {"val", "ood"} : \A score, t : Counted(Evaluate(published.rows[s], score, t))
  BY EvaluateCounts
<1> QED BY <1>1 DEF Measured, KernelMetrics

\* The first rows of the labels are one of each.
LEMMA FirstRows ==
  ASSUME NEW rows, IsFiniteSet(Labels(rows))
  PROVE  LET first == {CHOOSE r \in rows : r.family = l : l \in Labels(rows)}
         IN  /\ first \subseteq rows /\ Labels(first) = Labels(rows)
             /\ IsFiniteSet(first) /\ Cardinality(first) <= Cardinality(Labels(rows))
<1> DEFINE f == [l \in Labels(rows) |-> CHOOSE r \in rows : r.family = l]
           first == {f[l] : l \in Labels(rows)}
<1>1. first = {CHOOSE r \in rows : r.family = l : l \in Labels(rows)}
  OBVIOUS
<1>2. \A l \in Labels(rows) : f[l] \in rows /\ f[l].family = l
  BY DEF Labels
<1> HIDE DEF f
<1>3. first \subseteq rows /\ Labels(first) = Labels(rows)
  BY <1>2 DEF Labels
<1>4. IsFiniteSet(first) /\ Cardinality(first) <= Cardinality(Labels(rows))
  BY ImageFinite
<1> QED BY <1>1, <1>3, <1>4

\* A sample has a row of every label, if the limit leaves room for all known families
\* and the rows are of these.
LEMMA SampleKeepsLabels ==
  ASSUME NEW rows, Labels(rows) \subseteq KnownAttackFamilies, NEW limit \in Int,
         Cardinality(KnownAttackFamilies) <= limit, NEW sample \in Samples(rows, limit)
  PROVE  Labels(sample) = Labels(rows)
<1> DEFINE labels == Labels(rows)
           first == {CHOOSE r \in rows : r.family = l : l \in labels}
           m == Cardinality(first)
           rest == rows \ first
           low == {r \in first : r.family \in Lowest(labels, limit)}
<1>1. IsFiniteSet(KnownAttackFamilies) /\ KnownAttackFamilies \subseteq Range(FamilyOrder)
  <2>1. FamilyOrder \in Seq(Range(FamilyOrder)) /\ Len(FamilyOrder) \in Nat
        /\ DOMAIN FamilyOrder = 1..Len(FamilyOrder)
    BY CorporaAssumption
  <2>2. IsFiniteSet(DOMAIN FamilyOrder)
    BY <2>1, FS_Interval
  <2>3. Range(FamilyOrder) = {FamilyOrder[k] : k \in DOMAIN FamilyOrder}
    BY DEF Range
  <2>4. IsFiniteSet(Range(FamilyOrder))
    BY <2>2, <2>3, ImageFinite
  <2>5. KnownAttackFamilies \subseteq Range(FamilyOrder)
    BY DEF KnownAttackFamilies
  <2> QED BY <2>4, <2>5, Parts
<1>2. /\ IsFiniteSet(labels) /\ Cardinality(labels) \in Nat /\ Cardinality(labels) <= limit
  <2>1. /\ IsFiniteSet(labels) /\ Cardinality(labels) \in Nat
        /\ Cardinality(KnownAttackFamilies) \in Nat
        /\ Cardinality(KnownAttackFamilies) - Cardinality(labels) \in Nat
    BY <1>1, Parts
  <2> HIDE DEF labels
  <2> QED BY <2>1
<1>3. first \subseteq rows /\ Labels(first) = labels /\ IsFiniteSet(first) /\ m <= Cardinality(labels)
  BY <1>2, FirstRows
<1>4. m \in Nat
  BY <1>3, FS_CardinalityType
<1>5. ASSUME m >= limit PROVE Labels(low) = Labels(rows)
  <2> SUFFICES low = first
    <3> HIDE DEF first, low
    <3> QED BY <1>3
  <2>1. ASSUME NEW l \in labels PROVE l \in Lowest(labels, limit)
    <3> DEFINE before == {k \in labels : Place(k) < Place(l)}
    <3>1. Place(l) \in Nat
      <4>1. l \in Range(FamilyOrder)
        BY <1>1
      <4>2. \E k \in DOMAIN FamilyOrder : FamilyOrder[k] = l
        BY <4>1 DEF Range
      <4>3. Place(l) \in DOMAIN FamilyOrder
        BY <4>2 DEF Place
      <4>4. DOMAIN FamilyOrder \subseteq Nat
        BY CorporaAssumption
      <4> QED BY <4>3, <4>4
    <3>2. before \subseteq labels \ {l}
      BY <3>1
    <3>3. IsFiniteSet(labels \ {l}) /\ Cardinality(labels \ {l}) = Cardinality(labels) - 1
      <4> HIDE DEF labels
      <4> QED BY <1>2, <2>1, FS_RemoveElement
    <3> HIDE DEF before, labels
    <3>4. /\ Cardinality(before) \in Nat /\ Cardinality(labels \ {l}) \in Nat
          /\ Cardinality(labels \ {l}) - Cardinality(before) \in Nat
      BY <3>2, <3>3, Parts
    <3>5. Cardinality(before) < limit
      BY <1>2, <3>3, <3>4
    <3> QED BY <2>1, <3>5 DEF Lowest, before
  <2>2. \A r \in first : r.family \in labels
    BY <1>3 DEF Labels
  <2> QED BY <2>1, <2>2
<1>6. sample = rows \/ (sample = low /\ m >= limit) \/ \E e \in SUBSET rest : sample = first \cup e
  BY DEF Samples
<1>7. CASE sample = rows
  BY <1>7
<1>8. CASE sample = low /\ m >= limit
  <2>1. Labels(low) = Labels(rows)
    BY <1>5, <1>8
  <2> QED BY <1>8, <2>1
<1>9. ASSUME NEW e \in SUBSET rest, sample = first \cup e
      PROVE  Labels(sample) = Labels(rows)
  <2>1. first \subseteq sample /\ sample \subseteq rows
    BY <1>3, <1>9
  <2> HIDE DEF first, rest
  <2>2. Labels(first) \subseteq Labels(sample) /\ Labels(sample) \subseteq Labels(rows)
    BY <2>1 DEF Labels
  <2> QED BY <1>3, <2>2
<1> QED BY <1>6, <1>7, <1>8, <1>9

-----------------------------------------------------------------------------
(* What the preprocessing has in memory.                                    *)

\* A file as it was read: rows by their places, with the columns of the schema.
FileRead(f, schema) ==
    /\ f = [family |-> f.family, scenario |-> f.scenario, rows |-> f.rows, split |-> f.split]
    /\ f.family \in Range(FamilyOrder)
    /\ IsFiniteSet(DOMAIN f.rows)
    /\ \A k \in DOMAIN f.rows : f.rows[k] = [c \in schema |-> f.rows[k][c]]

FilesRead(files, schema) ==
    /\ Len(files) \in Nat /\ files = [i \in 1..Len(files) |-> files[i]]
    /\ \A i \in 1..Len(files) : FileRead(files[i], schema)

LEMMA AppendIs ==
  ASSUME NEW s, Len(s) \in Nat, s = [i \in 1..Len(s) |-> s[i]], NEW x
  PROVE  /\ Len(Append(s, x)) = Len(s) + 1
         /\ Append(s, x) = [i \in 1..Len(Append(s, x)) |-> Append(s, x)[i]]
         /\ \A i \in 1..Len(s) : Append(s, x)[i] = s[i]
         /\ Append(s, x)[Len(s) + 1] = x
<1> DEFINE S == {s[i] : i \in 1..Len(s)} \cup {x}
<1>1. s \in Seq(S) /\ x \in S
  <2>1. s \in [1..Len(s) -> S]
    OBVIOUS
  <2> HIDE DEF S
  <2>2. \E n \in Nat : s \in [1..n -> S]
    BY <2>1
  <2>3. s \in Seq(S)
    BY <2>2
  <2> QED BY <2>3 DEF S
<1> HIDE DEF S
<1>2. /\ Append(s, x) \in Seq(S) /\ Len(Append(s, x)) = Len(s) + 1
      /\ \A i \in 1..Len(s) : Append(s, x)[i] = s[i]
  BY <1>1
<1>3. Append(s, x)[Len(s) + 1] = x
  BY <1>1
<1> DEFINE a == Append(s, x)
<1>4. a \in Seq(S)
  BY <1>2
<1> HIDE DEF a
<1>5. a = [i \in 1..Len(a) |-> a[i]]
  BY <1>4
<1> QED BY <1>2, <1>3, <1>5 DEF a

LEMMA FileCleaned ==
  ASSUME NEW c \in Corpora, NEW i \in 1..Len(c), Discovered(c[i])
  PROVE  /\ c[i].columns # None
         /\ FileRead([family |-> c[i].family, scenario |-> c[i].scenario,
                      rows |-> Cleaned(c[i]), split |-> None], c[i].columns)
<1> DEFINE f == c[i]
           new == [family |-> f.family, scenario |-> f.scenario, rows |-> Cleaned(f), split |-> None]
<1>1. f \in Range(c)
  <2>1. DOMAIN c = 1..Len(c)
    BY CorporaAssumption
  <2> QED BY <2>1 DEF Range
<1>2. /\ f.columns # None /\ f.rows \in Seq(Range(f.rows))
      /\ \A row \in Range(f.rows) : row = [col \in f.columns |-> row[col]]
  BY <1>1, CorporaAssumption
<1> HIDE DEF f
<1>3. IsFiniteSet(DOMAIN f.rows)
  <2>1. DOMAIN f.rows = 1..Len(f.rows) /\ Len(f.rows) \in Nat
    BY <1>2
  <2> QED BY <2>1, FS_Interval
<1>4. /\ DOMAIN Cleaned(f) \subseteq DOMAIN f.rows
      /\ \A k \in DOMAIN Cleaned(f) : Cleaned(f)[k] = f.rows[k]
  BY DEF Cleaned
<1>5. IsFiniteSet(DOMAIN Cleaned(f))
  BY <1>3, <1>4, Parts
<1>6. \A k \in DOMAIN Cleaned(f) : Cleaned(f)[k] = [col \in f.columns |-> Cleaned(f)[k][col]]
  BY <1>2, <1>4 DEF Range
<1>7. f.family \in Range(FamilyOrder)
  BY DEF f, Discovered
<1>8. /\ new = [family |-> new.family, scenario |-> new.scenario, rows |-> new.rows, split |-> new.split]
      /\ new.family = f.family /\ new.rows = Cleaned(f)
  OBVIOUS
<1> HIDE DEF new
<1>9. FileRead(new, f.columns)
  BY <1>5, <1>6, <1>7, <1>8 DEF FileRead
<1> QED BY <1>2, <1>9 DEF f, new

\* The files of a corpus are read one after another.
LEMMA FilesCleaned ==
  ASSUME corpus \in Corpora, CleanFiles, step' = "assign"
  PROVE  /\ work' = [schema |-> work'.schema, files |-> work'.files, at |-> 1]
         /\ work'.at = 1 /\ FilesRead(work'.files, work'.schema)
         /\ \A i \in 1..Len(work'.files) : work'.files[i].split = None
<1> DEFINE N == Len(corpus)
           Done[n \in 0..N] ==
               IF n = 0 THEN [schema |-> None, files |-> <<>>] ELSE CleanFile(Done[n - 1], corpus[n])
           all == Done[N]
<1>1. /\ all.schema # None
      /\ work' = [schema |-> all.schema, files |-> all.files, at |-> 1]
  BY DEF CleanFiles, Raise, Go
<1> DEFINE New(i) == [family |-> corpus[i].family, scenario |-> corpus[i].scenario,
                      rows |-> Cleaned(corpus[i]), split |-> None]
           All == {New(i) : i \in 1..N}
           Schemas == {None} \cup {corpus[i].columns : i \in 1..N}
           Good(so) == IF so.schema = None THEN so.files = <<>>
                       ELSE FilesRead(so.files, so.schema)
                            /\ \A i \in 1..Len(so.files) : so.files[i].split = None
           V == {so \in [schema : Schemas, files : Seq(All)] : Good(so)}
           next == [p \in Nat \X V |->
                       IF p[1] \in 1..N THEN CleanFile(p[2], corpus[p[1]]) ELSE p[2]]
           base == [schema |-> None, files |-> <<>>]
<1>2. N \in Nat
  BY CorporaAssumption
<1>3. base \in V
  <2>1. <<>> \in Seq(All)
    OBVIOUS
  <2> HIDE DEF All
  <2> QED BY <2>1
<1>4. ASSUME NEW so \in V, NEW i \in 1..N PROVE CleanFile(so, corpus[i]) \in V
  <2> DEFINE f == corpus[i]
  <2>1. CASE ~Discovered(f) \/ Quarantined(f, so.schema)
    BY <2>1 DEF CleanFile
  <2>2. CASE ~(~Discovered(f) \/ Quarantined(f, so.schema))
    <3>1. CleanFile(so, f) = [schema |-> f.columns, files |-> Append(so.files, New(i))]
      BY <2>2 DEF CleanFile
    <3>2. so.schema = None \/ so.schema = f.columns
      BY <2>2 DEF Quarantined
    <3>3. f.columns # None /\ FileRead(New(i), f.columns)
      BY <2>2, FileCleaned
    <3>4. New(i) \in All /\ f.columns \in Schemas /\ New(i).split = None
      OBVIOUS
    <3> DEFINE x == New(i)
               files == so.files
               longer == Append(files, x)
    <3>5. files \in Seq(All)
      OBVIOUS
    <3> HIDE DEF x, New, All
    <3>6. longer \in Seq(All)
      BY <3>4, <3>5 DEF x
    <3>7. FilesRead(files, f.columns) /\ \A k \in 1..Len(files) : files[k].split = None
      <4>1. CASE so.schema = None
        <5>1. files = <<>>
          BY <4>1
        <5> HIDE DEF files
        <5>2. Len(files) = 0 /\ 1..0 = {} /\ files = [k \in 1..0 |-> files[k]]
          BY <5>1
        <5> QED BY <5>2 DEF FilesRead
      <4>2. CASE so.schema # None
        <5>1. so.schema = f.columns
          BY <3>2, <4>2
        <5> QED BY <4>2, <5>1
      <4> QED BY <4>1, <4>2
    <3> HIDE DEF files
    <3>8. FilesRead(longer, f.columns) /\ \A k \in 1..Len(longer) : longer[k].split = None
      <4>1. Len(files) \in Nat /\ files = [k \in 1..Len(files) |-> files[k]]
        BY <3>7 DEF FilesRead
      <4>2. /\ Len(longer) = Len(files) + 1
            /\ longer = [k \in 1..Len(longer) |-> longer[k]]
            /\ \A k \in 1..Len(files) : longer[k] = files[k]
            /\ longer[Len(files) + 1] = x
        BY <4>1, AppendIs
      <4> HIDE DEF longer
      <4>3. \A k \in 1..Len(longer) : k \in 1..Len(files) \/ k = Len(files) + 1
        BY <4>1, <4>2
      <4>4. FileRead(x, f.columns) /\ x.split = None
        BY <3>3, <3>4 DEF x
      <4> HIDE DEF f
      <4>5. \A k \in 1..Len(longer) : FileRead(longer[k], f.columns) /\ longer[k].split = None
        BY <3>7, <4>2, <4>3, <4>4 DEF FilesRead
      <4>6. Len(longer) \in Nat
        BY <4>1, <4>2
      <4> QED BY <4>2, <4>5, <4>6 DEF FilesRead
    <3> DEFINE new == [schema |-> f.columns, files |-> longer]
    <3>9. new \in [schema : Schemas, files : Seq(All)] /\ new.schema = f.columns /\ new.files = longer
      <4> HIDE DEF longer, f, Schemas
      <4> QED BY <3>4, <3>6 DEF f
    <3>10. Good(new)
      <4> HIDE DEF longer, f, new
      <4> QED BY <3>3, <3>8, <3>9 DEF f
    <3>11. CleanFile(so, f) = new
      BY <3>1 DEF x, files
    <3> HIDE DEF new, Good, Schemas, f
    <3> QED BY <3>9, <3>10, <3>11 DEF f
  <2> QED BY <2>1, <2>2
<1> HIDE DEF V, base
<1>5. next \in Steps(V)
  BY <1>4 DEF Steps
<1> HIDE DEF next
<1>6. PICK g : Computed(V, base, next, N, g)
  <2> HIDE DEF N
  <2> QED BY <1>2, <1>3, <1>5, Recursion
<1>7. /\ g \in [0..N -> V] /\ g[0] = base
      /\ \A n \in 1..N : g[n] = CleanFile(g[n - 1], corpus[n])
  <2>1. /\ g \in [0..N -> V] /\ g[0] = base
        /\ \A n \in 1..N : g[n] = next[<<n, g[n - 1]>>]
    BY <1>6 DEF Computed
  <2>2. ASSUME NEW n \in 1..N PROVE g[n] = CleanFile(g[n - 1], corpus[n])
    <3>1. n \in Nat /\ n - 1 \in 0..N
      BY <1>2
    <3>2. g[n - 1] \in V
      BY <2>1, <3>1
    <3>3. next[<<n, g[n - 1]>>] = CleanFile(g[n - 1], corpus[n])
      BY <3>1, <3>2 DEF next
    <3> QED BY <2>1, <3>3
  <2> QED BY <2>1, <2>2
<1>8. g = [n \in 0..N |-> IF n = 0 THEN base ELSE CleanFile(g[n - 1], corpus[n])]
  <2>1. ASSUME NEW n \in 0..N
        PROVE  g[n] = IF n = 0 THEN base ELSE CleanFile(g[n - 1], corpus[n])
    <3>1. n = 0 \/ n \in 1..N
      BY <1>2
    <3> QED BY <1>7, <3>1
  <2> HIDE DEF N
  <2> QED BY <1>7, <2>1
<1>9. Done = CHOOSE h : h = [n \in 0..N |-> IF n = 0 THEN base ELSE CleanFile(h[n - 1], corpus[n])]
  BY DEF base
<1> HIDE DEF Done
<1>10. Done = [n \in 0..N |-> IF n = 0 THEN base ELSE CleanFile(Done[n - 1], corpus[n])]
  BY <1>8, <1>9
<1>11. DOMAIN Done = 0..N /\ Done[0] = base
       /\ \A n \in 1..N : Done[n] = CleanFile(Done[n - 1], corpus[n])
  BY <1>2, <1>10
<1>12. \A n \in 0..N : Done[n] \in V
  <2> DEFINE C == {n \in Nat : n \in 0..N => Done[n] \in V}
  <2>1. 0 \in C
    BY <1>3, <1>11
  <2>2. ASSUME NEW n \in Nat, n \in C PROVE n + 1 \in C
    <3> SUFFICES ASSUME n + 1 \in 0..N PROVE Done[n + 1] \in V
      OBVIOUS
    <3>1. n \in 0..N /\ n + 1 \in 1..N /\ (n + 1) - 1 = n
      BY <1>2
    <3>2. Done[n] \in V
      BY <2>2, <3>1
    <3>3. Done[n + 1] = CleanFile(Done[n], corpus[n + 1])
      BY <1>11, <3>1
    <3> QED BY <1>4, <3>1, <3>2, <3>3
  <2> HIDE DEF C
  <2>3. \A n \in Nat : n \in C
    BY <2>1, <2>2, NatInduct
  <2> QED BY <1>2, <2>3 DEF C
<1>13. all \in V
  BY <1>2, <1>12
<1> HIDE DEF all
<1>14. FilesRead(all.files, all.schema) /\ \A i \in 1..Len(all.files) : all.files[i].split = None
  BY <1>1, <1>13 DEF V
<1>15. work'.schema = all.schema /\ work'.files = all.files /\ work'.at = 1
  BY <1>1
<1> QED BY <1>1, <1>14, <1>15

\* Assigning splits changes nothing else of the files.
Assigned(files, S, split) ==
    [i \in DOMAIN files |-> IF i \in S THEN [files[i] EXCEPT !.split = split[i]] ELSE files[i]]

LEMMA AssignedRead ==
  ASSUME NEW files, NEW schema, FilesRead(files, schema), NEW S, NEW split
  PROVE  LET new == Assigned(files, S, split)
         IN  /\ FilesRead(new, schema) /\ Len(new) = Len(files) /\ DOMAIN new = DOMAIN files
             /\ DOMAIN files = 1..Len(files)
             /\ \A i \in DOMAIN files :
                    /\ new[i].family = files[i].family /\ new[i].scenario = files[i].scenario
                    /\ new[i].rows = files[i].rows
                    /\ new[i].split = IF i \in S THEN split[i] ELSE files[i].split
<1> DEFINE new == Assigned(files, S, split)
           N == Len(files)
<1>1. N \in Nat /\ files = [i \in 1..N |-> files[i]] /\ \A i \in 1..N : FileRead(files[i], schema)
  BY DEF FilesRead
<1>2. DOMAIN files = 1..N
  BY <1>1
<1>3. new = [i \in 1..N |-> new[i]]
      /\ \A i \in 1..N : new[i] = IF i \in S THEN [files[i] EXCEPT !.split = split[i]] ELSE files[i]
  BY <1>2 DEF Assigned
<1> HIDE DEF new, N
<1>4. Len(new) = N
  BY <1>1, <1>3
<1>5. ASSUME NEW i \in 1..N
      PROVE  /\ new[i].family = files[i].family /\ new[i].scenario = files[i].scenario
             /\ new[i].rows = files[i].rows
             /\ new[i].split = IF i \in S THEN split[i] ELSE files[i].split
             /\ FileRead(new[i], schema)
  <2>1. FileRead(files[i], schema)
    BY <1>1
  <2> DEFINE f == files[i]
             g == new[i]
  <2>2. f = [family |-> f.family, scenario |-> f.scenario, rows |-> f.rows, split |-> f.split]
    BY <2>1 DEF FileRead
  <2>3. g = IF i \in S THEN [f EXCEPT !.split = split[i]] ELSE f
    BY <1>3
  <2> HIDE DEF f, g
  <2>4. CASE i \in S
    <3>1. g = [f EXCEPT !.split = split[i]]
      BY <2>3, <2>4
    <3>2. g = [family |-> f.family, scenario |-> f.scenario, rows |-> f.rows, split |-> split[i]]
      BY <2>2, <3>1
    <3>3. /\ g.family = f.family /\ g.scenario = f.scenario /\ g.rows = f.rows /\ g.split = split[i]
          /\ g = [family |-> g.family, scenario |-> g.scenario, rows |-> g.rows, split |-> g.split]
      BY <3>2
    <3> QED BY <2>1, <2>4, <3>3 DEF FileRead, f, g
  <2>5. CASE i \notin S
    <3>1. g = f
      BY <2>3, <2>5
    <3> QED BY <2>1, <2>5, <3>1 DEF f, g
  <2> QED BY <2>4, <2>5
<1>6. FilesRead(new, schema)
  BY <1>1, <1>3, <1>4, <1>5 DEF FilesRead
<1>7. DOMAIN new = 1..N
  BY <1>3
<1> QED BY <1>2, <1>4, <1>5, <1>6, <1>7 DEF new, N

\* What a split is made of is finite.
LEMMA ContentsFinite ==
  ASSUME NEW files, NEW schema, FilesRead(files, schema), NEW s
  PROVE  IsFiniteSet(Contents(files, s))
<1> DEFINE N == Len(files)
           f == [i \in 1..N |-> RowsOf(files[i])]
           Sets == {f[i] : i \in In(files, s)}
<1>1. N \in Nat /\ files = [i \in 1..N |-> files[i]] /\ \A i \in 1..N : FileRead(files[i], schema)
  BY DEF FilesRead
<1>2. In(files, s) \subseteq 1..N
  BY <1>1 DEF In
<1>3. IsFiniteSet(In(files, s))
  <2>1. IsFiniteSet(1..N)
    <3>1. N \in Int /\ 1 \in Int
      BY <1>1
    <3> HIDE DEF N
    <3> QED BY <3>1, FS_Interval
  <2> QED BY <1>2, <2>1, Parts
<1>4. ASSUME NEW i \in 1..N PROVE IsFiniteSet(RowsOf(files[i]))
  <2> DEFINE g == [k \in DOMAIN files[i].rows |-> Row(files[i], k)]
  <2>1. RowsOf(files[i]) = {g[k] : k \in DOMAIN files[i].rows}
    BY DEF RowsOf
  <2>2. IsFiniteSet(DOMAIN files[i].rows)
    BY <1>1 DEF FileRead
  <2> HIDE DEF g
  <2> QED BY <2>1, <2>2, ImageFinite
<1>5. IsFiniteSet(Sets)
  <2> HIDE DEF f
  <2> QED BY <1>3, ImageFinite
<1>6. \A T \in Sets : IsFiniteSet(T)
  BY <1>2, <1>4
<1>7. Contents(files, s) = UNION Sets
  BY <1>2 DEF Contents
<1> HIDE DEF Sets
<1> QED BY <1>5, <1>6, <1>7, FS_UNION

-----------------------------------------------------------------------------
(* The selections.  SelectionHonest is not inductive: what a threshold, a    *)
(* trial or a sample is chosen from must be finite, and the labels of the    *)
(* family classifier are those of the dataset only if the views, or the      *)
(* version on Kaggle, it was trained on were.  SelectionInv adds that every  *)
(* split is finite where it is kept, from the files in memory to Kaggle, that *)
(* what is up to date is what the dataset is, and that a trial has counts.   *)

FiniteRows(rows) == \A s \in Splits : rows[s] = None \/ IsFiniteSet(rows[s])

RowsFinite ==
    /\ FiniteRows(data.rows) /\ FiniteRows(staged.files.rows)
    /\ published # None => FiniteRows(published.rows)
    /\ DOMAIN data.rows = Splits
    /\ step = "clean" => corpus \in Corpora
    /\ step = "assign" =>
           /\ work = [schema |-> work.schema, files |-> work.files, at |-> work.at]
           /\ FilesRead(work.files, work.schema)
    /\ step = "trim" => \A s \in Splits : IsFiniteSet(work.stage[s])
    /\ step = "write" =>
           /\ work = [columns |-> work.columns, files |-> work.files, stage |-> work.stage, at |-> work.at]
           /\ \A s \in Splits : IsFiniteSet(work.stage[s])

SourcesKept ==
    /\ "views" \in fresh => source = data
    /\ "stage" \in fresh => staged.files = data
    /\ "publish" \in fresh => published = data

RoomForAll ==
    \A limit \in {MaxTrainRows, KernelTrainRows} : Cardinality(KnownAttackFamilies) <= limit
KnownLabels(rows) == KnownAttackFamilies \cap Labels(rows)

LabelsKept ==
    RoomForAll =>
        /\ (step \in FamilySteps /\ Makes(work.script) = "family" /\ Reads[work.script] \subseteq fresh)
               => work.labels = KnownLabels(data.rows["train"])
        /\ step = "oracle" => family.model.labels = work.labels
        /\ "family" \in fresh => family.model.labels = KnownLabels(data.rows["train"])

ThresholdsHonest ==
    step = "evaluate" =>
        \A cap \in Caps : Chosen(DOMAIN work.score, work.score, cap, work.chosen[cap])

\* Which splits a search reads.
Searched == {"val", "ood"}
PromotionHonest ==
    step = "trials" =>
        /\ work.script = "tuning" => Have(Searched)
        /\ work.script = "search" => Served(Searched)
        /\ Len(work.trials) \in Nat
        /\ work.trials = [i \in 1..Len(work.trials) |-> work.trials[i]]
        /\ \A i \in 1..Len(work.trials) : Measured(work.trials[i])
        /\ work.promoted # None =>
               LET best == work.trials[work.promoted]
               IN  \A i \in DOMAIN work.trials :
                       Passes(work.trials[i]) =>
                           Passes(best) /\ ~Less(F1(best.tuned), F1(work.trials[i].tuned))

SelectionInv == RowsFinite /\ SourcesKept /\ LabelsKept /\ ThresholdsHonest /\ PromotionHonest

LEMMA SelectionInvMeans == SelectionInv => SelectionHonest
<1> SUFFICES ASSUME SelectionInv PROVE SelectionHonest
  OBVIOUS
<1>1. ThresholdsHonest /\ PromotionHonest /\ LabelsKept
  BY DEF SelectionInv
<1>2. ("family" \in fresh
       /\ \A limit \in {MaxTrainRows, KernelTrainRows} : Cardinality(KnownAttackFamilies) <= limit)
          => family.model.labels = KnownAttackFamilies \cap Labels(data.rows["train"])
  BY <1>1 DEF LabelsKept, RoomForAll, KnownLabels
<1>3. (step = "trials" /\ work.promoted # None) =>
          LET best == work.trials[work.promoted]
          IN  \A i \in DOMAIN work.trials :
                  LET m == work.trials[i]
                  IN  Passes(m) => Passes(best) /\ ~Less(F1(best.tuned), F1(m.tuned))
  BY <1>1 DEF PromotionHonest
<1>4. step = "evaluate" =>
          LET At(t) == Evaluate(DOMAIN work.score, work.score, t)
          IN  \A cap \in Caps :
                  LET c == work.chosen[cap]
                      under == {t \in Grid : Under(At(t), cap)}
                  IN  /\ c = At(c.t)
                      /\ under # {} => c.t \in under
                      /\ \A t \in under : ~Less(F1(c), F1(At(t)))
                      /\ under = {} => \A t \in Grid : ~Less(FPR(At(t)), FPR(c))
  BY <1>1 DEF ThresholdsHonest, Chosen
<1> QED BY <1>2, <1>3, <1>4 DEF SelectionHonest

Selecting == PrepSteps \cup FamilySteps \cup {"evaluate", "trials"}

LEMMA SelectingSteps ==
    ASSUME NEW s, s \notin Selecting
    PROVE  /\ s \notin FamilySteps /\ s \notin PrepSteps /\ s # "oracle"
           /\ s \notin {"clean", "assign", "trim", "write", "report", "evaluate", "trials"}
  BY DEF Selecting, PrepSteps, FamilySteps

LEMMA FiniteFrame ==
    ASSUME RowsFinite, UNCHANGED <<data, staged, published>>, step' \notin PrepSteps
    PROVE  RowsFinite'
<1>1. step' \notin {"clean", "assign", "trim", "write"}
  BY DEF PrepSteps
<1> QED BY <1>1 DEF RowsFinite, FiniteRows

LEMMA SourcesFrame ==
    ASSUME SourcesKept, UNCHANGED <<data, staged, published, source>>,
           \A x \in {"views", "stage", "publish"} : x \in fresh' => x \in fresh
    PROVE  SourcesKept'
  BY DEF SourcesKept

LEMMA LabelsFrame ==
    ASSUME LabelsKept, UNCHANGED <<data, family>>, step' \notin FamilySteps,
           "family" \in fresh' => "family" \in fresh
    PROVE  LabelsKept'
<1>1. step' # "oracle"
  BY DEF FamilySteps
<1>2. KnownLabels(data.rows["train"])' = KnownLabels(data.rows["train"])
  BY DEF KnownLabels, Labels
<1>3. RoomForAll' <=> RoomForAll
  BY DEF RoomForAll
<1> QED BY <1>1, <1>2, <1>3 DEF LabelsKept

\* A step that leaves what is chosen from alone, and ends where nothing is chosen.
LEMMA Unselected ==
    ASSUME SelectionInv, UNCHANGED <<data, staged, published, source, family>>,
           \A x \in {"views", "stage", "publish", "family"} : x \in fresh' => x \in fresh,
           step' \notin Selecting
    PROVE  SelectionInv'
<1>1. /\ step' \notin FamilySteps /\ step' \notin PrepSteps
      /\ step' \notin {"evaluate", "trials"}
  BY SelectingSteps
<1>2. RowsFinite' /\ SourcesKept' /\ LabelsKept'
  BY <1>1, FiniteFrame, SourcesFrame, LabelsFrame DEF SelectionInv
<1>3. ThresholdsHonest' /\ PromotionHonest'
  BY <1>1 DEF ThresholdsHonest, PromotionHonest
<1> QED BY <1>2, <1>3 DEF SelectionInv

LEMMA UnselectedRaise ==
    ASSUME SelectionInv, UNCHANGED <<data, staged, published, source, family>>, NEW s, Raise(s)
    PROVE  SelectionInv'
<1>1. fresh' = fresh /\ step' = "raised"
  BY DEF Raise
<1>2. step' \notin Selecting
  BY <1>1 DEF Selecting, PrepSteps, FamilySteps
<1> QED BY <1>1, <1>2, Unselected

LEMMA UnselectedComplete ==
    ASSUME SelectionInv, UNCHANGED <<data, staged, published, source, family>>, NEW s, Complete(s),
           Makes(s) \notin {"views", "stage", "publish", "family"}
    PROVE  SelectionInv'
<1>1. step' = "idle" /\ fresh' \subseteq fresh \cup {Makes(s)}
  BY AfterComplete
<1>2. step' \notin Selecting
  BY <1>1 DEF Selecting, PrepSteps, FamilySteps
<1> QED BY <1>1, <1>2, Unselected

-----------------------------------------------------------------------------
\* The preprocessing.
LEMMA SelectionPrep ==
    ASSUME ReleaseInv, SelectionInv, PreprocessNext,
           UNCHANGED <<viewVars, kaggleVars, trainVars, bundle>>
    PROVE  SelectionInv'
<1> USE DEF prepVars, viewVars, kaggleVars, trainVars
<1>0. /\ RowsFinite
      /\ step \in PrepSteps => fresh = {}
      /\ fresh \subseteq Chain
      /\ data = [rows |-> data.rows, columns |-> data.columns, manifest |-> data.manifest,
                 report |-> data.report]
  BY DEF SelectionInv, ReleaseInv, NothingStale, LayoutsKept
\* Nothing else is up to date, so that what the preprocessing holds is all that counts.
<1>1. ASSUME RowsFinite', fresh' \subseteq {"preprocess"},
             step' \in PrepSteps \cup {"idle"}
      PROVE  SelectionInv'
  <2>1. step' \notin FamilySteps /\ step' \notin {"evaluate", "trials", "oracle"}
    BY <1>1 DEF PrepSteps, FamilySteps
  <2>2. SourcesKept' /\ LabelsKept' /\ ThresholdsHonest' /\ PromotionHonest'
    BY <1>1, <2>1 DEF SourcesKept, LabelsKept, ThresholdsHonest, PromotionHonest
  <2> QED BY <1>1, <2>2 DEF SelectionInv
<1>2. CASE BeginPreprocess
  <2>1. /\ fresh' = fresh \ Outdated("preprocess") /\ step' = "clean" /\ corpus' \in Corpora
        /\ data' = NoData /\ UNCHANGED <<staged, published>>
    BY <1>2 DEF BeginPreprocess, Begin
  <2>2. fresh' = {}
    BY <1>0, <2>1, AfterBegin
  <2>3. DOMAIN NoData.rows = Splits /\ \A s \in Splits : NoData.rows[s] = None
    BY DEF NoData
  <2>4. RowsFinite'
    BY <1>0, <2>1, <2>3 DEF RowsFinite, FiniteRows
  <2> QED BY <1>1, <2>1, <2>2, <2>4 DEF PrepSteps
<1>3. CASE CleanFiles
  <2>1. step = "clean" /\ UNCHANGED <<data, corpus, staged, published, source, family>>
    BY <1>3 DEF CleanFiles
  <2>2. CASE \E s : Raise(s)
    BY <2>1, <2>2, UnselectedRaise
  <2>3. CASE ~\E s : Raise(s)
    <3>1. step' = "assign" /\ fresh' = fresh
      BY <1>3, <2>3 DEF CleanFiles, Go
    <3>2. fresh' = {} /\ corpus \in Corpora
      BY <1>0, <2>1, <3>1 DEF PrepSteps, RowsFinite
    <3>3. /\ work' = [schema |-> work'.schema, files |-> work'.files, at |-> 1]
          /\ work'.at = 1 /\ FilesRead(work'.files, work'.schema)
      BY <1>3, <3>1, <3>2, FilesCleaned
    <3>4. RowsFinite'
      BY <1>0, <2>1, <3>1, <3>3 DEF RowsFinite, FiniteRows
    <3> QED BY <1>1, <3>1, <3>2, <3>4 DEF PrepSteps
  <2> QED BY <2>2, <2>3
<1>4. CASE AssignFamily
  <2>1. /\ step = "assign" /\ step' = "assign" /\ fresh' = fresh
        /\ UNCHANGED <<data, corpus, staged, published>>
    BY <1>4 DEF AssignFamily, Go
  <2>2. PICK S, split : work' = [work EXCEPT !.at = @ + 1, !.files = Assigned(@, S, split)]
    <3> DEFINE name == FamilyOrder[work.at]
               S == Members(work.files, name)
               Put(split) == work' = [work EXCEPT !.at = @ + 1, !.files = Assigned(@, S, split)]
    <3>1. CASE HeldOut(work.files, name)
      <4>1. Put([i \in S |-> "ood"])
        BY <1>4, <3>1 DEF AssignFamily, Go, Assigned
      <4> QED BY <4>1
    <3>2. CASE ~HeldOut(work.files, name)
      <4>1. \E o \in Orders(work.files, S) :
                LET g == Greedy(work.files, name, o)
                IN  Put([i \in S |-> g[CHOOSE k \in DOMAIN o : o[k] = i]])
        BY <1>4, <3>2 DEF AssignFamily, Go, Assigned
      <4> HIDE DEF S
      <4> QED BY <4>1
    <3> QED BY <3>1, <3>2
  <2>3. /\ work = [schema |-> work.schema, files |-> work.files, at |-> work.at]
        /\ FilesRead(work.files, work.schema)
    BY <1>0, <2>1 DEF RowsFinite
  <2>4. /\ work' = [schema |-> work.schema, files |-> Assigned(work.files, S, split),
                    at |-> work.at + 1]
    BY <2>2, <2>3
  <2>5. FilesRead(Assigned(work.files, S, split), work.schema)
    BY <2>3, AssignedRead
  <2>6. /\ work' = [schema |-> work'.schema, files |-> work'.files, at |-> work'.at]
        /\ FilesRead(work'.files, work'.schema)
    BY <2>4, <2>5
  <2>7. RowsFinite'
    BY <1>0, <2>1, <2>6 DEF RowsFinite, FiniteRows
  <2> QED BY <1>0, <1>1, <2>1, <2>7 DEF PrepSteps
<1>5. CASE Dedupe
  <2>1. /\ step = "assign" /\ step' = "trim" /\ fresh' = fresh
        /\ UNCHANGED <<data, corpus, staged, published>>
        /\ \A s \in Splits : work'.stage[s] \subseteq Contents(work.files, s)
    BY <1>5 DEF Dedupe, Go
  <2>2. FilesRead(work.files, work.schema)
    BY <1>0, <2>1 DEF RowsFinite
  <2>3. \A s \in Splits : IsFiniteSet(work'.stage[s])
    BY <2>1, <2>2, ContentsFinite, Parts
  <2>4. RowsFinite'
    BY <1>0, <2>1, <2>3 DEF RowsFinite, FiniteRows
  <2> QED BY <1>0, <1>1, <2>1, <2>4 DEF PrepSteps
<1>6. CASE Trim
  <2>1. step = "trim" /\ UNCHANGED <<data, corpus, staged, published, source, family>>
    BY <1>6 DEF Trim
  <2>2. CASE \E s : Raise(s)
    BY <2>1, <2>2, UnselectedRaise
  <2>3. CASE ~\E s : Raise(s)
    <3>1. /\ step' = "write" /\ fresh' = fresh
          /\ \E c : work' = [columns |-> c, files |-> work.files, stage |-> work.stage, at |-> 1]
      BY <1>6, <2>3 DEF Trim, Go
    <3>2. /\ work' = [columns |-> work'.columns, files |-> work'.files, stage |-> work'.stage,
                      at |-> work'.at]
          /\ work'.stage = work.stage
      BY <3>1
    <3>3. RowsFinite'
      BY <1>0, <2>1, <3>1, <3>2 DEF RowsFinite, FiniteRows
    <3> QED BY <1>0, <1>1, <2>1, <3>1, <3>3 DEF PrepSteps
  <2> QED BY <2>2, <2>3
<1>7. CASE WriteSplit
  <2> DEFINE s == SplitNames[work.at]
  <2>1. step = "write" /\ UNCHANGED <<staged, published, source, family>>
    BY <1>7 DEF WriteSplit
  <2>2. CASE \E x : Raise(x)
    <3>1. data' = data
      BY <1>7, <2>2 DEF WriteSplit, Go, Raise
    <3> QED BY <2>1, <2>2, <3>1, UnselectedRaise
  <2>3. CASE ~\E x : Raise(x)
    <3>1. /\ step' = "write" /\ fresh' = fresh
          /\ work' = [work EXCEPT !.at = @ + 1]
          /\ data' = [data EXCEPT !.rows[s] = work.stage[s]]
      BY <1>7, <2>3 DEF WriteSplit, Go
    <3>2. /\ work = [columns |-> work.columns, files |-> work.files, stage |-> work.stage,
                     at |-> work.at]
          /\ \A t \in Splits : IsFiniteSet(work.stage[t])
      BY <1>0, <2>1 DEF RowsFinite
    <3>3. /\ work' = [columns |-> work'.columns, files |-> work'.files, stage |-> work'.stage,
                      at |-> work'.at]
          /\ work'.stage = work.stage
      BY <3>1, <3>2
    <3>4. data'.rows = [data.rows EXCEPT ![s] = work.stage[s]]
      <4> HIDE DEF s
      <4> QED BY <1>0, <3>1
    <3>5. DOMAIN data'.rows = Splits /\ FiniteRows(data'.rows)
      <4>1. DOMAIN data.rows = Splits /\ FiniteRows(data.rows)
        BY <1>0 DEF RowsFinite
      <4> HIDE DEF s
      <4> QED BY <3>2, <3>4, <4>1 DEF FiniteRows
    <3>6. RowsFinite'
      <4>1. FiniteRows(data.rows)'
        BY <3>5 DEF FiniteRows
      <4>2. FiniteRows(staged.files.rows)' /\ (published # None => FiniteRows(published.rows))'
        BY <1>0, <2>1 DEF RowsFinite, FiniteRows
      <4> QED BY <3>1, <3>2, <3>3, <3>5, <4>1, <4>2 DEF RowsFinite
    <3> QED BY <1>0, <1>1, <2>1, <3>1, <3>6 DEF PrepSteps
  <2> QED BY <2>2, <2>3
<1>8. CASE WriteManifests
  <2>1. /\ step = "write" /\ step' = "report" /\ fresh' = fresh /\ UNCHANGED <<staged, published>>
        /\ data' = [data EXCEPT !.manifest = work.files, !.columns = work.columns]
    BY <1>8 DEF WriteManifests, Go
  <2>2. data'.rows = data.rows
    BY <1>0, <2>1
  <2>3. RowsFinite'
    BY <1>0, <2>1, <2>2 DEF RowsFinite, FiniteRows
  <2> QED BY <1>0, <1>1, <2>1, <2>3 DEF PrepSteps
<1>9. CASE WriteReport
  <2>1. /\ step = "report" /\ Complete("preprocess") /\ UNCHANGED <<staged, published>>
        /\ data' = [data EXCEPT !.report = Counts(data.rows)]
    BY <1>9 DEF WriteReport
  <2>2. step' = "idle" /\ fresh' \subseteq fresh \cup {"preprocess"}
    BY <2>1, AfterComplete DEF Makes
  <2>3. data'.rows = data.rows
    BY <1>0, <2>1
  <2>4. RowsFinite'
    BY <1>0, <2>1, <2>2, <2>3 DEF RowsFinite, FiniteRows
  <2> QED BY <1>0, <1>1, <2>1, <2>2, <2>4 DEF PrepSteps
<1> QED BY <1>2, <1>3, <1>4, <1>5, <1>6, <1>7, <1>8, <1>9 DEF PreprocessNext

LEMMA SelectionViews ==
    ASSUME ReleaseInv, SelectionInv, ViewNext, UNCHANGED <<kaggleVars, trainVars, bundle>>
    PROVE  SelectionInv'
<1> USE DEF prepVars, viewVars, kaggleVars, trainVars
<1>0. fresh \subseteq Chain /\ SourcesKept /\ LabelsKept /\ RowsFinite
  BY DEF ReleaseInv, NothingStale, SelectionInv
\* Only the source of the views changes.
<1>1. ASSUME UNCHANGED <<data, staged, published, family>>, SourcesKept',
             fresh' \subseteq fresh \cup {"views"}, step' \in {"derive", "index", "idle"}
      PROVE  SelectionInv'
  <2>1. /\ step' \notin PrepSteps /\ step' \notin FamilySteps /\ step' \notin {"evaluate", "trials"}
    BY <1>1 DEF PrepSteps, FamilySteps
  <2>2. RowsFinite' /\ LabelsKept'
    BY <1>0, <1>1, <2>1, FiniteFrame, LabelsFrame
  <2>3. ThresholdsHonest' /\ PromotionHonest'
    BY <2>1 DEF ThresholdsHonest, PromotionHonest
  <2> QED BY <1>1, <2>2, <2>3 DEF SelectionInv
<1>2. CASE BeginViews
  <2>1. CASE None \in {data.columns, data.manifest, data.report}
    BY <1>2, <2>1, UnselectedRaise DEF BeginViews
  <2>2. CASE None \notin {data.columns, data.manifest, data.report}
    <3>1. /\ fresh' = fresh \ Outdated("views") /\ step' = "derive"
          /\ UNCHANGED <<data, staged, published, family>>
      BY <1>2, <2>2 DEF BeginViews, Begin
    <3>2. fresh' \subseteq fresh /\ "views" \notin fresh'
      BY <1>0, <3>1, AfterBegin DEF Makes
    <3>3. SourcesKept'
      BY <1>0, <3>1, <3>2 DEF SourcesKept
    <3> QED BY <1>1, <3>1, <3>2, <3>3
  <2> QED BY <2>1, <2>2
<1>3. CASE DeriveSplit
  <2>1. UNCHANGED <<data, source, staged, published, family>>
    BY <1>3 DEF DeriveSplit
  <2>2. (\E s : Raise(s)) \/ (step' = "derive" /\ fresh' = fresh)
    BY <1>3 DEF DeriveSplit, Go
  <2>3. fresh' = fresh => SourcesKept'
    BY <1>0, <2>1 DEF SourcesKept
  <2> QED BY <1>1, <2>1, <2>2, <2>3, UnselectedRaise
<1>4. CASE CloseView
  <2>1. /\ UNCHANGED <<data, source, staged, published, family>> /\ fresh' = fresh
        /\ step' \in {"derive", "index"}
    BY <1>4 DEF CloseView, Go
  <2>2. SourcesKept'
    BY <1>0, <2>1 DEF SourcesKept
  <2> QED BY <1>1, <2>1, <2>2
<1>5. CASE WriteIndex
  <2>1. /\ step = "index" /\ Complete("views") /\ UNCHANGED <<data, source, staged, published, family>>
    BY <1>5 DEF WriteIndex
  <2>2. source = data
    BY <2>1 DEF ReleaseInv, ViewsGrow, ViewSteps
  <2>3. step' = "idle" /\ fresh' \subseteq fresh \cup {"views"}
    BY <2>1, AfterComplete DEF Makes
  <2>4. SourcesKept'
    BY <1>0, <2>1, <2>2, <2>3 DEF SourcesKept
  <2> QED BY <1>1, <2>1, <2>3, <2>4
<1> QED BY <1>2, <1>3, <1>4, <1>5 DEF ViewNext

LEMMA SelectionKaggle ==
    ASSUME ReleaseInv, SelectionInv, KaggleNext, UNCHANGED <<trainVars, bundle>>
    PROVE  SelectionInv'
<1> USE DEF prepVars, viewVars, kaggleVars, trainVars
<1>0. /\ fresh \subseteq Chain /\ SourcesKept /\ LabelsKept /\ RowsFinite
      /\ FiniteRows(data.rows) /\ FiniteRows(staged.files.rows)
      /\ staged = [files |-> staged.files, metadata |-> staged.metadata]
      /\ "rows" \in DOMAIN staged.files
  BY DEF ReleaseInv, NothingStale, LayoutsKept, SelectionInv, RowsFinite
\* Only what goes to Kaggle changes.
<1>1. ASSUME UNCHANGED <<data, source, family>>, SourcesKept',
             FiniteRows(staged'.files.rows), published' # None => FiniteRows(published'.rows),
             "family" \in fresh' => "family" \in fresh,
             step' \in {"splits", "manifests", "metadata", "idle"}
      PROVE  SelectionInv'
  <2>1. /\ step' \notin PrepSteps /\ step' \notin FamilySteps /\ step' \notin {"evaluate", "trials"}
        /\ step' \notin {"clean", "assign", "trim", "write"}
    BY <1>1 DEF PrepSteps, FamilySteps
  <2>2. LabelsKept'
    BY <1>0, <1>1, <2>1, LabelsFrame
  <2>3. RowsFinite'
    BY <1>0, <1>1, <2>1 DEF RowsFinite, FiniteRows
  <2>4. ThresholdsHonest' /\ PromotionHonest'
    BY <2>1 DEF ThresholdsHonest, PromotionHonest
  <2> QED BY <1>1, <2>2, <2>3, <2>4 DEF SelectionInv
<1>2. published # None => FiniteRows(published.rows)
  BY <1>0 DEF RowsFinite
<1>3. CASE BeginStaging
  <2>1. CASE ~Linkable(data)
    BY <1>3, <2>1, UnselectedRaise DEF BeginStaging
  <2>2. CASE Linkable(data)
    <3>1. /\ fresh' = fresh \ Outdated("stage") /\ step' = "splits" /\ staged' = NothingStaged
          /\ UNCHANGED <<data, source, published, family>>
      BY <1>3, <2>2 DEF BeginStaging, Begin
    <3>2. fresh' \subseteq fresh /\ {"stage", "publish"} \cap fresh' = {}
      BY <1>0, <3>1, AfterBegin DEF Makes
    <3>3. FiniteRows(staged'.files.rows)
      BY <3>1 DEF NothingStaged, NoData, FiniteRows
    <3>4. SourcesKept'
      BY <1>0, <3>1, <3>2 DEF SourcesKept
    <3> QED BY <1>1, <1>2, <3>1, <3>2, <3>3, <3>4
  <2> QED BY <2>1, <2>2
<1>4. CASE LinkSplits
  <2>1. /\ step = "splits" /\ step' = "manifests" /\ fresh' = fresh
        /\ UNCHANGED <<data, source, published, family>>
        /\ staged' = [staged EXCEPT !.files.rows = data.rows]
    BY <1>4 DEF LinkSplits, Go
  <2>2. {"stage", "publish"} \cap fresh = {}
    BY <2>1 DEF ReleaseInv, NothingStale, StageSteps
  <2>3. staged'.files = [staged.files EXCEPT !.rows = data.rows]
    BY <1>0, <2>1
  <2>4. staged'.files.rows = data.rows
    BY <1>0, <2>3
  <2>5. SourcesKept'
    BY <1>0, <2>1, <2>2 DEF SourcesKept
  <2> QED BY <1>0, <1>1, <1>2, <2>1, <2>4, <2>5
<1>5. CASE LinkManifests
  <2>1. /\ step = "manifests" /\ step' = "metadata" /\ fresh' = fresh
        /\ UNCHANGED <<data, source, published, family>>
        /\ staged' = [staged EXCEPT !.files = [data EXCEPT !.rows = staged.files.rows]]
    BY <1>5 DEF LinkManifests, Go
  <2>2. {"stage", "publish"} \cap fresh = {}
    BY <2>1 DEF ReleaseInv, NothingStale, StageSteps
  <2>3. staged'.files = [data EXCEPT !.rows = staged.files.rows]
    BY <1>0, <2>1
  <2>4. staged'.files.rows = staged.files.rows
    BY <2>3 DEF ReleaseInv, LayoutsKept
  <2>5. SourcesKept'
    BY <1>0, <2>1, <2>2 DEF SourcesKept
  <2> QED BY <1>0, <1>1, <1>2, <2>1, <2>4, <2>5
<1>6. CASE WriteMetadata
  <2>1. /\ step = "metadata" /\ Complete("stage") /\ UNCHANGED <<data, source, published, family>>
        /\ staged' = [staged EXCEPT !.metadata = TRUE]
    BY <1>6 DEF WriteMetadata
  <2>2. staged.files = data /\ "publish" \notin fresh
    BY <2>1 DEF ReleaseInv, StagingGrows, NothingStale, StageSteps
  <2>3. staged'.files = staged.files
    BY <1>0, <2>1
  <2>4. step' = "idle" /\ fresh' \subseteq fresh \cup {"stage"}
    BY <2>1, AfterComplete DEF Makes
  <2>5. SourcesKept'
    BY <1>0, <2>1, <2>2, <2>3, <2>4 DEF SourcesKept
  <2> QED BY <1>0, <1>1, <1>2, <2>1, <2>3, <2>4, <2>5
<1>7. CASE Publish
  <2>1. /\ step = "idle" /\ step' = step /\ published' = staged.files
        /\ fresh' = (fresh \ Outdated("publish")) \cup {p \in {"publish"} : Reads[p] \subseteq fresh}
        /\ UNCHANGED <<data, source, staged, family>>
    BY <1>7 DEF Publish
  <2>2. fresh' \subseteq fresh \cup {"publish"}
    BY <2>1
  <2>3. "publish" \in fresh' => staged.files = data
    <3>1. ASSUME "publish" \in fresh' PROVE Reads["publish"] \subseteq fresh
      <4>1. "publish" \notin fresh \ Outdated("publish")
        BY <1>0, OutdatedFollowed DEF Makes, Chain
      <4> QED BY <2>1, <3>1, <4>1
    <3>2. "stage" \in Reads["publish"]
      BY DEF Reads
    <3> QED BY <1>0, <3>1, <3>2 DEF SourcesKept
  <2>4. SourcesKept'
    BY <1>0, <2>1, <2>2, <2>3 DEF SourcesKept
  <2> QED BY <1>0, <1>1, <2>1, <2>2, <2>4
<1>8. CASE BeginBenchmark \/ BeginPromotion
  <2>1. /\ UNCHANGED <<data, source, staged, published, family>>
        /\ \/ \E s : Raise(s)
           \/ fresh' \subseteq fresh /\ step' \in {"stream", "fit kernel", "fit finalist"}
    BY <1>8 DEF BeginBenchmark, BeginPromotion, Begin
  <2>2. step' \in {"stream", "fit kernel", "fit finalist"} => step' \notin Selecting
    BY DEF Selecting, PrepSteps, FamilySteps
  <2> QED BY <2>1, <2>2, UnselectedRaise, Unselected
<1>9. CASE FitStreaming \/ FitSampled \/ FitFinalist
  <2>1. /\ UNCHANGED <<data, source, staged, published, family>>
        /\ \/ \E s : Raise(s)
           \/ fresh' = fresh /\ step' \in {"evaluate kernel", "evaluate finalist"}
    BY <1>9 DEF FitStreaming, FitSampled, FitFinalist, Fit, Go
  <2>2. step' \in {"evaluate kernel", "evaluate finalist"} => step' \notin Selecting
    BY DEF Selecting, PrepSteps, FamilySteps
  <2> QED BY <2>1, <2>2, UnselectedRaise, Unselected
<1>10. CASE EvaluateKernel \/ EvaluateFinalist
  <2>1. /\ UNCHANGED <<data, source, staged, published, family>>
        /\ \E s \in {"benchmark", "promotion"} : Raise(s) \/ Complete(s)
    BY <1>10 DEF EvaluateKernel, EvaluateFinalist
  <2>2. \A s \in {"benchmark", "promotion"} : Makes(s) \notin {"views", "stage", "publish", "family"}
    BY DEF Makes
  <2> QED BY <2>1, <2>2, UnselectedRaise, UnselectedComplete
<1> QED BY <1>3, <1>4, <1>5, <1>6, <1>7, <1>8, <1>9, <1>10 DEF KaggleNext

LEMMA FilteredLabels ==
    ASSUME NEW rows
    PROVE  Labels(Filtered("attack_only", "train", rows)) = KnownLabels(rows)
<1>1. LabelSpace["attack_only"] = KnownAttackFamilies
  BY DEF LabelSpace
<1>2. Filtered("attack_only", "train", rows) = {r \in rows : r.family \in KnownAttackFamilies}
  BY <1>1 DEF Filtered
<1> QED BY <1>2 DEF Labels, KnownLabels

LEMMA SelectionFamily ==
    ASSUME ReleaseInv, SelectionInv,
           \/ BeginFamily \/ BeginFamilyKernel \/ FitFamily \/ WriteOracle \/ FitMulticlass
    PROVE  SelectionInv'
<1> USE DEF prepVars, viewVars, kaggleVars, trainVars
<1>0. /\ fresh \subseteq Chain /\ SourcesKept /\ LabelsKept /\ RowsFinite /\ ColumnsAgree
      /\ (step \in FamilySteps /\ Makes(work.script) = "family") => "family" \notin fresh
      /\ family = [model |-> family.model, report |-> family.report]
  BY DEF ReleaseInv, NothingStale, LayoutsKept, SelectionInv
<1>1. ASSUME UNCHANGED <<data, staged, published, source>>, LabelsKept',
             fresh' \subseteq fresh \cup {"family"}, step' \in FamilySteps \cup {"idle"}
      PROVE  SelectionInv'
  <2>1. step' \notin PrepSteps /\ step' \notin {"evaluate", "trials"}
    BY <1>1 DEF PrepSteps, FamilySteps
  <2>2. RowsFinite' /\ SourcesKept'
    BY <1>0, <1>1, <2>1, FiniteFrame, SourcesFrame
  <2>3. ThresholdsHonest' /\ PromotionHonest'
    BY <2>1 DEF ThresholdsHonest, PromotionHonest
  <2> QED BY <1>1, <2>2, <2>3 DEF SelectionInv
\* A classifier that begins, on a sample of what the script reads.
<1>2. ASSUME NEW s, NEW c, NEW rows, NEW limit \in {MaxTrainRows, KernelTrainRows},
             NEW sample \in Samples(rows, limit),
             UNCHANGED <<data, staged, published, source, family>>,
             Begin(s, "family", [script |-> s, columns |-> c, labels |-> Labels(sample)]),
             (Makes(s) = "family" /\ Reads[s] \subseteq fresh) =>
                 Labels(rows) = KnownLabels(data.rows["train"])
      PROVE  SelectionInv'
  <2>1. /\ fresh' = fresh \ Outdated(s) /\ step' = "family"
        /\ work' = [script |-> s, columns |-> c, labels |-> Labels(sample)]
    BY <1>2 DEF Begin
  <2>2. fresh' \subseteq fresh
    BY <2>1
  <2>3. work'.script = s /\ work'.labels = Labels(sample)
    BY <2>1
  <2>4. ASSUME RoomForAll, Makes(s) = "family", Reads[s] \subseteq fresh
        PROVE  Labels(sample) = KnownLabels(data.rows["train"])
    <3>1. Labels(rows) = KnownLabels(data.rows["train"])
      BY <1>2, <2>4
    <3>2. Labels(rows) \subseteq KnownAttackFamilies
      BY <3>1 DEF KnownLabels
    <3>3. limit \in Int /\ Cardinality(KnownAttackFamilies) <= limit
      BY <2>4, LimitsAssumption DEF RoomForAll
    <3> QED BY <3>1, <3>2, <3>3, SampleKeepsLabels
  <2>5. RoomForAll' <=> RoomForAll
    BY DEF RoomForAll
  <2>6. KnownLabels(data.rows["train"])' = KnownLabels(data.rows["train"])
    BY <1>2 DEF KnownLabels, Labels
  <2>7. LabelsKept'
    <3>1. SUFFICES ASSUME RoomForAll
                   PROVE  /\ (Makes(s) = "family" /\ Reads[s] \subseteq fresh')
                                 => work'.labels = KnownLabels(data.rows["train"])
                          /\ "family" \in fresh' => family'.model.labels = KnownLabels(data.rows["train"])
      BY <2>1, <2>3, <2>5, <2>6 DEF LabelsKept
    <3>2. "family" \in fresh => family.model.labels = KnownLabels(data.rows["train"])
      BY <1>0, <3>1 DEF LabelsKept
    <3> QED BY <1>2, <2>2, <2>3, <2>4, <3>1, <3>2
  <2> QED BY <1>1, <1>2, <2>1, <2>2, <2>7 DEF FamilySteps
<1>3. CASE BeginFamily
  <2>1. PICK v \in Range(ViewOrder) :
            /\ IF ~views.index \/ \E s \in Splits : Resolved(v, s) = {}
               THEN Raise(ScriptOf[v])
               ELSE \E sample \in Samples(Resolved(v, "train"), MaxTrainRows) :
                        Begin(ScriptOf[v], "family",
                              [script |-> ScriptOf[v], columns |-> views.columns,
                               labels |-> Labels(sample)])
            /\ UNCHANGED <<data, staged, published, source, family>>
    BY <1>3 DEF BeginFamily
  <2>2. CASE ~views.index \/ \E s \in Splits : Resolved(v, s) = {}
    BY <2>1, <2>2, UnselectedRaise
  <2>3. CASE ~(~views.index \/ \E s \in Splits : Resolved(v, s) = {})
    <3>1. PICK sample \in Samples(Resolved(v, "train"), MaxTrainRows) :
              Begin(ScriptOf[v], "family",
                    [script |-> ScriptOf[v], columns |-> views.columns, labels |-> Labels(sample)])
      BY <2>1, <2>3
    <3>2. ASSUME Makes(ScriptOf[v]) = "family", Reads[ScriptOf[v]] \subseteq fresh
          PROVE  Labels(Resolved(v, "train")) = KnownLabels(data.rows["train"])
      <4>1. v = "attack_only"
        BY <3>2, Names DEF ScriptOf, Makes
      <4>2. "views" \in fresh
        BY <3>2, <4>1 DEF ScriptOf, Reads
      <4>3. source = data /\ views.index
        BY <1>0, <2>3, <4>2 DEF SourcesKept
      <4>4. /\ views.files["attack_only"]["train"] =
                   Filtered("attack_only", "train", data.rows["train"])
            /\ views.files["attack_only"]["train"] # {}
        BY <4>3, Names DEF ReleaseInv, IndexMeansViews
      <4>5. Resolved(v, "train") = Filtered("attack_only", "train", data.rows["train"])
        BY <4>1, <4>4 DEF Resolved
      <4> QED BY <4>5, FilteredLabels
    <3> QED BY <1>2, <2>1, <3>1, <3>2
  <2> QED BY <2>2, <2>3
<1>4. CASE BeginFamilyKernel
  <2>1. PICK v \in Range(ViewOrder) :
            /\ IF published = None \/ \E s \in Splits : KernelResolved(v, s) = {}
               THEN Raise(KernelOf[v])
               ELSE \E sample \in Samples(KernelResolved(v, "train"), KernelTrainRows) :
                        Begin(KernelOf[v], "family",
                              [script |-> KernelOf[v], columns |-> published.columns,
                               labels |-> Labels(sample)])
            /\ UNCHANGED <<data, staged, published, source, family>>
    BY <1>4 DEF BeginFamilyKernel
  <2>2. CASE published = None \/ \E s \in Splits : KernelResolved(v, s) = {}
    BY <2>1, <2>2, UnselectedRaise
  <2>3. CASE ~(published = None \/ \E s \in Splits : KernelResolved(v, s) = {})
    <3>1. PICK sample \in Samples(KernelResolved(v, "train"), KernelTrainRows) :
              Begin(KernelOf[v], "family",
                    [script |-> KernelOf[v], columns |-> published.columns,
                     labels |-> Labels(sample)])
      BY <2>1, <2>3
    <3>2. ASSUME Makes(KernelOf[v]) = "family", Reads[KernelOf[v]] \subseteq fresh
          PROVE  Labels(KernelResolved(v, "train")) = KnownLabels(data.rows["train"])
      <4>1. v = "attack_only"
        BY <3>2, Names DEF KernelOf, Makes
      <4>2. "publish" \in fresh
        BY <3>2, <4>1 DEF KernelOf, Reads, OnKaggle
      <4>3. published = data
        BY <1>0, <4>2 DEF SourcesKept
      <4>4. /\ KernelFile("attack_only", "train") =
                   Filtered("attack_only", "train", data.rows["train"])
            /\ KernelViews["attack_only"] = {"attack_only"}
        BY <4>3 DEF KernelFile, KernelViews
      <4>5. KernelResolved(v, "train") = Filtered("attack_only", "train", data.rows["train"])
        BY <4>1, <4>4 DEF KernelResolved
      <4> QED BY <4>5, FilteredLabels
    <3> QED BY <1>2, <2>1, <3>1, <3>2
  <2> QED BY <2>2, <2>3
<1>5. CASE FitFamily
  <2>1. CASE \E s : Raise(s)
    <3>1. family' = family
      BY <1>5, <2>1 DEF FitFamily, Go, Raise
    <3> QED BY <1>5, <2>1, <3>1, UnselectedRaise DEF FitFamily
  <2>2. CASE ~\E s : Raise(s)
    <3>1. /\ step = "family" /\ Makes(work.script) = "family" /\ step' = "oracle" /\ work' = work
          /\ fresh' = fresh
          /\ family' = [family EXCEPT !.model = [columns |-> work.columns, labels |-> work.labels]]
          /\ UNCHANGED <<data, staged, published, source>>
      BY <1>5, <2>2 DEF FitFamily, Fitted, Go
    <3>2. family'.model.labels = work.labels
      BY <1>0, <3>1
    <3>3. "family" \notin fresh'
      BY <1>0, <3>1 DEF FamilySteps
    <3>4. KnownLabels(data.rows["train"])' = KnownLabels(data.rows["train"])
      BY <3>1 DEF KnownLabels, Labels
    <3>5. RoomForAll' <=> RoomForAll
      BY DEF RoomForAll
    <3>6. LabelsKept'
      BY <1>0, <3>1, <3>2, <3>3, <3>4, <3>5 DEF LabelsKept, FamilySteps
    <3> QED BY <1>1, <3>1, <3>6 DEF FamilySteps
  <2> QED BY <2>1, <2>2
<1>6. CASE WriteOracle
  <2>1. /\ step = "oracle" /\ Complete(work.script)
        /\ family' = [family EXCEPT !.report = [labels |-> LabelSpace["attack_only"],
                                               columns |-> work.columns]]
        /\ UNCHANGED <<data, staged, published, source>>
    BY <1>6 DEF WriteOracle, OracleReport
  <2>2. Makes(work.script) = "family" /\ "family" \notin fresh
    BY <1>0, <2>1 DEF ColumnsAgree, FamilySteps
  <2>3. /\ step' = "idle" /\ fresh' \subseteq fresh \cup {"family"}
        /\ fresh' # fresh => Reads[work.script] \subseteq fresh
    BY <2>1, <2>2, AfterComplete
  <2>4. family'.model = family.model
    BY <1>0, <2>1
  <2>5. KnownLabels(data.rows["train"])' = KnownLabels(data.rows["train"])
    BY <2>1 DEF KnownLabels, Labels
  <2>6. RoomForAll' <=> RoomForAll
    BY DEF RoomForAll
  <2>7. LabelsKept'
    <3>1. SUFFICES ASSUME RoomForAll, "family" \in fresh'
                   PROVE  family.model.labels = KnownLabels(data.rows["train"])
      BY <2>3, <2>4, <2>5, <2>6 DEF LabelsKept, FamilySteps
    <3>2. Reads[work.script] \subseteq fresh
      BY <2>2, <2>3, <3>1
    <3> QED BY <1>0, <2>1, <2>2, <3>1, <3>2 DEF LabelsKept, FamilySteps
  <2> QED BY <1>1, <2>1, <2>3, <2>7
<1>7. CASE FitMulticlass
  <2>1. /\ step = "family" /\ Makes(work.script) # "family"
        /\ UNCHANGED <<data, staged, published, source, family>>
        /\ Raise(work.script) \/ Complete(work.script)
    BY <1>7 DEF FitMulticlass
  <2>2. work.script \in {"multiclass", "direct"}
    BY <1>0, <2>1 DEF ColumnsAgree, FamilySteps, Makes
  <2>3. Makes(work.script) \notin {"views", "stage", "publish", "family"}
    BY <2>2 DEF Makes
  <2> QED BY <2>1, <2>3, UnselectedRaise, UnselectedComplete
<1> QED BY <1>3, <1>4, <1>5, <1>6, <1>7

LEMMA SelectionTrain ==
    ASSUME ReleaseInv, SelectionInv, TrainNext, UNCHANGED bundle
    PROVE  SelectionInv'
<1> USE DEF prepVars, viewVars, kaggleVars, trainVars
<1>0. /\ fresh \subseteq Chain /\ SourcesKept /\ LabelsKept /\ RowsFinite /\ PromotionHonest
      /\ FiniteRows(data.rows)
      /\ published # None => FiniteRows(published.rows)
      /\ step = "trials" =>
             /\ work = [script |-> work.script, attack |-> work.attack, trials |-> work.trials,
                        promoted |-> work.promoted]
             /\ work.script \in {"tuning", "search"}
  BY DEF ReleaseInv, NothingStale, SelectionInv, RowsFinite
<1>1. ASSUME NEW s \in {"train", "val", "test", "ood"}
      PROVE  /\ data.rows[s] # None => IsFiniteSet(data.rows[s])
             /\ (published # None /\ published.rows[s] # None) => IsFiniteSet(published.rows[s])
  BY <1>0, Names DEF FiniteRows
\* What is chosen changes, and nothing it is chosen from.
<1>2. ASSUME UNCHANGED <<data, staged, published, source, family>>, fresh' \subseteq fresh,
             ThresholdsHonest', PromotionHonest', step' \in {"evaluate", "trials"}
      PROVE  SelectionInv'
  <2>1. step' \notin PrepSteps /\ step' \notin FamilySteps
    BY <1>2 DEF PrepSteps, FamilySteps
  <2>2. RowsFinite' /\ SourcesKept' /\ LabelsKept'
    BY <1>0, <1>2, <2>1, FiniteFrame, SourcesFrame, LabelsFrame
  <2> QED BY <1>2, <2>2 DEF SelectionInv
<1>3. CASE BeginRelease \/ FitRelease \/ WriteTraining
  <2>1. /\ UNCHANGED <<data, staged, published, source, family>>
        /\ \/ \E s : Raise(s)
           \/ fresh' \subseteq fresh /\ step' \in {"fit", "training", "summary"}
    BY <1>3 DEF BeginRelease, FitRelease, WriteTraining, Begin, Go
  <2>2. step' \in {"fit", "training", "summary"} => step' \notin Selecting
    BY DEF Selecting, PrepSteps, FamilySteps
  <2> QED BY <2>1, <2>2, UnselectedRaise, Unselected
<1>4. CASE WriteSummary
  <2>1. Complete("release") /\ UNCHANGED <<data, staged, published, source, family>>
    BY <1>4 DEF WriteSummary
  <2> QED BY <2>1, UnselectedComplete DEF Makes
<1>5. CASE BeginBaselines \/ FitBaseline
  <2>1. /\ UNCHANGED <<data, staged, published, source, family>>
        /\ \/ \E s : Raise(s)
           \/ fresh' \subseteq fresh /\ step' \in {"baseline", "score baseline"}
    BY <1>5 DEF BeginBaselines, FitBaseline, Begin, Go
  <2>2. step' \in {"baseline", "score baseline"} => step' \notin Selecting
    BY DEF Selecting, PrepSteps, FamilySteps
  <2> QED BY <2>1, <2>2, UnselectedRaise, Unselected
<1>6. CASE ScoreBaseline
  <2>1. Complete("baselines") /\ UNCHANGED <<data, staged, published, source, family>>
    BY <1>6 DEF ScoreBaseline
  <2> QED BY <2>1, UnselectedComplete DEF Makes
<1>7. CASE BeginThresholds
  <2>1. UNCHANGED <<data, staged, published, source, family>>
    BY <1>7 DEF BeginThresholds
  <2>2. CASE \E s : Raise(s)
    BY <2>1, <2>2, UnselectedRaise
  <2>3. CASE ~\E s : Raise(s)
    <3> DEFINE rows == data.rows["val"]
    <3>1. PICK score \in [rows -> Grid] :
              /\ Have({"val"})
              /\ Begin("thresholds", "evaluate",
                       [score |-> score,
                        chosen |-> [cap \in Caps |-> Selected(Sweep(rows, score), cap)]])
      BY <1>7, <2>3 DEF BeginThresholds
    <3>2. IsFiniteSet(rows) /\ DOMAIN score = rows
      BY <1>1, <3>1 DEF Have
    <3>3. Sweep(rows, score) = {Evaluate(rows, score, t) : t \in Grid}
      BY <3>2, SweepEvaluates
    <3>4. /\ step' = "evaluate" /\ fresh' \subseteq fresh
          /\ work'.score = score
          /\ \A cap \in Caps : work'.chosen[cap] = Selected(Sweep(rows, score), cap)
      BY <3>1 DEF Begin
    <3> HIDE DEF rows
    <3>5. \A cap \in Caps : Chosen(rows, score, cap, Selected(Sweep(rows, score), cap))
      BY <3>2, <3>3, ThresholdChosen
    <3>6. \A cap \in Caps : Chosen(rows, score, cap, work'.chosen[cap])
      BY <3>4, <3>5
    <3>7. ThresholdsHonest'
      <4>1. DOMAIN work'.score = rows
        BY <3>2, <3>4
      <4> QED BY <3>4, <3>6, <4>1 DEF ThresholdsHonest
    <3>8. PromotionHonest'
      BY <3>4 DEF PromotionHonest
    <3> QED BY <1>2, <2>1, <3>4, <3>7, <3>8
  <2> QED BY <2>2, <2>3
<1>8. CASE WriteSelection
  <2>1. /\ UNCHANGED <<data, staged, published, source, family>>
        /\ Complete("thresholds") \/ Raise("thresholds")
    BY <1>8 DEF WriteSelection
  <2> QED BY <2>1, UnselectedRaise, UnselectedComplete DEF Makes
<1>9. CASE BeginTuning \/ BeginSearch
  <2>1. UNCHANGED <<data, staged, published, source, family>>
    BY <1>9 DEF BeginTuning, BeginSearch
  <2>2. CASE \E s : Raise(s)
    BY <2>1, <2>2, UnselectedRaise
  <2>3. CASE ~\E s : Raise(s)
    <3>1. /\ step' = "trials" /\ fresh' \subseteq fresh
          /\ \E s \in {"tuning", "search"} : \E a :
                 /\ work' = Search(s, a)
                 /\ s = "tuning" => Have({"train", "val", "ood"})
                 /\ s = "search" => Served({"train", "val", "ood"})
      BY <1>9, <2>3 DEF BeginTuning, BeginSearch, Begin
    <3>2. PICK s \in {"tuning", "search"} : \E a :
              /\ work' = Search(s, a)
              /\ s = "tuning" => Have({"train", "val", "ood"})
              /\ s = "search" => Served({"train", "val", "ood"})
      BY <3>1
    <3>3. work'.script = s /\ work'.trials = <<>> /\ work'.promoted = None
      BY <3>2 DEF Search
    <3>4. /\ s = "tuning" => Have(Searched)'
          /\ s = "search" => Served(Searched)'
      BY <2>1, <3>2 DEF Have, Served, Searched
    <3>5. PromotionHonest'
      BY <3>3, <3>4 DEF PromotionHonest
    <3>6. ThresholdsHonest'
      BY <3>1 DEF ThresholdsHonest
    <3> QED BY <1>2, <2>1, <3>1, <3>5, <3>6
  <2> QED BY <2>2, <2>3
<1>10. CASE RunTrial \/ RunKernelTrial
  <2>1. step = "trials" /\ UNCHANGED <<data, staged, published, source, family>>
    BY <1>10 DEF RunTrial, RunKernelTrial
  <2>2. CASE \E s : Raise(s)
    BY <2>1, <2>2, UnselectedRaise
  <2>3. CASE ~\E s : Raise(s)
    <3>1. /\ Len(work.trials) \in Nat
          /\ work.trials = [i \in 1..Len(work.trials) |-> work.trials[i]]
          /\ \A i \in 1..Len(work.trials) : Measured(work.trials[i])
          /\ work.script = "tuning" => Have(Searched)
          /\ work.script = "search" => Served(Searched)
      BY <1>0, <2>1 DEF PromotionHonest
    <3>2. PICK m : /\ Measured(m)
                   /\ Go("trials", Ranked(Append(work.trials, m)))
      <4>1. CASE RunTrial
        <5>1. IsFiniteSet(data.rows["val"]) /\ IsFiniteSet(data.rows["ood"])
          BY <1>1, <3>1, <4>1 DEF RunTrial, Have, Searched
        <5> QED BY <2>3, <4>1, <5>1, TrialsMeasured DEF RunTrial
      <4>2. CASE RunKernelTrial
        <5>1. IsFiniteSet(published.rows["val"]) /\ IsFiniteSet(published.rows["ood"])
          BY <1>1, <3>1, <4>2 DEF RunKernelTrial, Served, Searched
        <5> QED BY <2>3, <4>2, <5>1, KernelTrialsMeasured DEF RunKernelTrial
      <4> QED BY <1>10, <4>1, <4>2
    <3> DEFINE trials == Append(work.trials, m)
               n == Len(trials)
               best == CHOOSE i \in 1..n : \A j \in 1..n \ {i} : Ahead(trials, i, j)
    <3>3. /\ n \in Nat \ {0} /\ trials = [i \in 1..n |-> trials[i]]
          /\ \A i \in 1..n : Measured(trials[i])
      <4>1. /\ n = Len(work.trials) + 1
            /\ trials = [i \in 1..n |-> trials[i]]
            /\ \A i \in 1..Len(work.trials) : trials[i] = work.trials[i]
            /\ trials[Len(work.trials) + 1] = m
        BY <3>1, AppendIs
      <4> HIDE DEF trials, n
      <4>2. n \in Nat \ {0} /\ \A i \in 1..n : i = Len(work.trials) + 1 \/ i \in 1..Len(work.trials)
        BY <3>1, <4>1
      <4> QED BY <3>1, <3>2, <4>1, <4>2
    <3>4. DOMAIN trials = 1..n
      <4> HIDE DEF trials, n
      <4> QED BY <3>3
    <3>5. /\ step' = "trials" /\ fresh' = fresh
          /\ work' = [work EXCEPT !.trials = trials, !.promoted = best]
      BY <3>2, <3>4 DEF Go, Ranked
    <3>6. /\ work'.script = work.script /\ work'.trials = trials /\ work'.promoted = best
          /\ work.script \in {"tuning", "search"}
      <4> HIDE DEF trials, best
      <4> QED BY <1>0, <2>1, <3>5
    <3>7. /\ best \in 1..n
          /\ \A i \in 1..n : Passes(trials[i]) =>
                 Passes(trials[best]) /\ ~Less(F1(trials[best].tuned), F1(trials[i].tuned))
      <4> HIDE DEF trials, n
      <4> QED BY <3>3, PromotedIsBest
    <3> HIDE DEF trials, n, best
    <3>8. Have(Searched)' = Have(Searched) /\ Served(Searched)' = Served(Searched)
      BY <2>1 DEF Have, Served
    <3>9. PromotionHonest'
      <4>1. Len(work'.trials) = n /\ DOMAIN work'.trials = 1..n
        BY <3>4, <3>6 DEF n
      <4>2. \A i \in 1..n : Measured(work'.trials[i])
        BY <3>3, <3>6
      <4>3. work'.script = "tuning" => Have(Searched)'
        BY <3>1, <3>6, <3>8
      <4>4. work'.script = "search" => Served(Searched)'
        BY <3>1, <3>6, <3>8
      <4> QED BY <3>3, <3>6, <3>7, <4>1, <4>2, <4>3, <4>4 DEF PromotionHonest
    <3>10. ThresholdsHonest'
      BY <3>5 DEF ThresholdsHonest
    <3> QED BY <1>2, <2>1, <3>5, <3>9, <3>10
  <2> QED BY <2>2, <2>3
<1>11. CASE FinishTuning
  <2>1. /\ step = "trials" /\ Complete(work.script)
        /\ UNCHANGED <<data, staged, published, source, family>>
    BY <1>11 DEF FinishTuning
  <2>2. Makes(work.script) \notin {"views", "stage", "publish", "family"}
    BY <1>0, <2>1 DEF Makes
  <2> QED BY <2>1, <2>2, UnselectedComplete
<1> QED BY <1>3, <1>4, <1>5, <1>6, <1>7, <1>8, <1>9, <1>10, <1>11 DEF TrainNext

LEMMA SelectionInit == Init => SelectionInv
<1> SUFFICES ASSUME Init PROVE SelectionInv
  OBVIOUS
<1> USE DEF Init, PrepInit, ViewInit, KaggleInit, TrainInit
<1>1. step = "idle" /\ fresh = {}
  OBVIOUS
<1>2. RowsFinite
  BY <1>1 DEF RowsFinite, FiniteRows, NoData, NothingStaged
<1>3. SourcesKept /\ LabelsKept /\ ThresholdsHonest /\ PromotionHonest
  BY <1>1 DEF SourcesKept, LabelsKept, FamilySteps, ThresholdsHonest, PromotionHonest
<1> QED BY <1>2, <1>3 DEF SelectionInv

LEMMA SelectionStep == ReleaseInv /\ SelectionInv /\ [Next]_vars => SelectionInv'
<1> SUFFICES ASSUME ReleaseInv, SelectionInv, [Next]_vars PROVE SelectionInv'
  OBVIOUS
<1>1. CASE PreprocessNext /\ UNCHANGED <<viewVars, kaggleVars, trainVars, bundle>>
  BY <1>1, SelectionPrep
<1>2. CASE ViewNext /\ UNCHANGED <<kaggleVars, trainVars, bundle>>
  BY <1>2, SelectionViews
<1>3. CASE KaggleNext /\ UNCHANGED <<trainVars, bundle>>
  BY <1>3, SelectionKaggle
<1>4. CASE TrainNext /\ UNCHANGED bundle
  BY <1>4, SelectionTrain
<1>5. CASE BeginFamily \/ BeginFamilyKernel \/ FitFamily \/ WriteOracle \/ FitMulticlass
  BY <1>5, SelectionFamily
<1>6. CASE BeginPackaging \/ Package \/ BeginGated \/ EvaluateGated
  <2> USE DEF prepVars, viewVars, kaggleVars, trainVars
  <2>1. UNCHANGED <<data, staged, published, source, family>>
    BY <1>6 DEF BeginPackaging, Package, BeginGated, EvaluateGated
  <2>2. step = "package" => work.kind \in Kinds
    BY DEF ReleaseInv, Packed
  <2>3. \/ \E s : Raise(s)
        \/ \E s \in Kinds \cup {"gated"} : Complete(s)
        \/ fresh' \subseteq fresh /\ step' \in {"package", "gated"}
    BY <1>6, <2>2 DEF BeginPackaging, Package, BeginGated, EvaluateGated, Begin, Go
  <2>4. step' \in {"package", "gated"} => step' \notin Selecting
    BY DEF Selecting, PrepSteps, FamilySteps
  <2>5. \A s \in Kinds \cup {"gated"} : Makes(s) \notin {"views", "stage", "publish", "family"}
    BY DEF Makes, Kinds
  <2> QED BY <2>1, <2>3, <2>4, <2>5, UnselectedRaise, UnselectedComplete, Unselected
<1>7. CASE (Exit \/ Kill) /\ UNCHANGED <<prepVars, viewVars, kaggleVars, trainVars, bundle>>
  <2>1. UNCHANGED <<data, staged, published, source, family>> /\ fresh' = fresh /\ step' = "idle"
    BY <1>7 DEF Exit, Kill, prepVars, viewVars, kaggleVars, trainVars
  <2>2. step' \notin Selecting
    BY <2>1 DEF Selecting, PrepSteps, FamilySteps
  <2> QED BY <2>1, <2>2, Unselected
<1>8. CASE UNCHANGED vars
  <2>1. UNCHANGED <<data, corpus, staged, published, source, family, step, work, fresh>>
    BY <1>8 DEF vars, prepVars, runVars, viewVars, kaggleVars, trainVars
  <2>2. RowsFinite'
    BY <2>1 DEF SelectionInv, RowsFinite, FiniteRows
  <2>3. SourcesKept'
    BY <2>1 DEF SelectionInv, SourcesKept
  <2>4. LabelsKept'
    BY <2>1 DEF SelectionInv, LabelsKept, RoomForAll, KnownLabels, Labels
  <2>5. ThresholdsHonest'
    BY <2>1 DEF SelectionInv, ThresholdsHonest
  <2>6. PromotionHonest'
    BY <2>1 DEF SelectionInv, PromotionHonest, Have, Served
  <2> QED BY <2>2, <2>3, <2>4, <2>5, <2>6 DEF SelectionInv
<1> QED BY <1>1, <1>2, <1>3, <1>4, <1>5, <1>6, <1>7, <1>8 DEF Next

\* What is chosen is the best there was: the threshold under its cap, counted as if it had
\* been evaluated alone, the trial promoted first, and a sample with every known family, for
\* any rows, scores, grid and caps.
THEOREM SelectionIsHonest == Spec => []SelectionHonest
<1>1. Init => SelectionInv
  BY SelectionInit
<1>2. ReleaseInv /\ SelectionInv /\ [Next]_vars => SelectionInv'
  BY SelectionStep
<1>3. SelectionInv => SelectionHonest
  BY SelectionInvMeans
<1> QED BY <1>1, <1>2, <1>3, ReleaseAlways, PTL DEF Spec

-----------------------------------------------------------------------------
(* Rows of files, counted.                                                  *)

LEMMA RowsCounted ==
  ASSUME NEW files, NEW schema, FilesRead(files, schema), NEW S, S \subseteq DOMAIN files
  PROVE  /\ DOMAIN files = 1..Len(files) /\ IsFiniteSet(DOMAIN files)
         /\ IsFiniteSet(S) /\ IsFiniteSet(RowsIn(files, S)) /\ Total(files, S) \in Nat
<1> DEFINE N == Len(files)
           f == [i \in 1..N |-> {i} \X DOMAIN files[i].rows]
           Sets == {f[i] : i \in S}
<1>1. N \in Nat /\ files = [i \in 1..N |-> files[i]] /\ \A i \in 1..N : FileRead(files[i], schema)
  BY DEF FilesRead
<1>2. DOMAIN files = 1..N
  BY <1>1
<1>3. IsFiniteSet(1..N)
  <2>1. N \in Int /\ 1 \in Int
    BY <1>1
  <2> HIDE DEF N
  <2> QED BY <2>1, FS_Interval
<1>4. IsFiniteSet(S)
  BY <1>2, <1>3, Parts
<1>5. ASSUME NEW i \in 1..N PROVE IsFiniteSet(f[i])
  <2>1. IsFiniteSet(DOMAIN files[i].rows)
    BY <1>1 DEF FileRead
  <2>2. IsFiniteSet({i} \X DOMAIN files[i].rows)
    BY <2>1, FS_Singleton, FS_Product
  <2> QED BY <2>2
<1>6. IsFiniteSet(Sets)
  <2> HIDE DEF f
  <2> QED BY <1>4, ImageFinite
<1>7. \A T \in Sets : IsFiniteSet(T)
  BY <1>2, <1>5
<1>8. RowsIn(files, S) = UNION Sets
  BY <1>2 DEF RowsIn
<1> HIDE DEF Sets
<1>9. IsFiniteSet(RowsIn(files, S))
  BY <1>6, <1>7, <1>8, FS_UNION
<1> QED BY <1>2, <1>3, <1>4, <1>9, FS_CardinalityType DEF Total

\* The rows of files of two sets that share none add up.
LEMMA TotalAdds ==
  ASSUME NEW files, NEW schema, FilesRead(files, schema),
         NEW S, S \subseteq DOMAIN files, NEW T, T \subseteq DOMAIN files, S \cap T = {}
  PROVE  /\ Total(files, S \cup T) = Total(files, S) + Total(files, T)
         /\ Total(files, S) \in Nat /\ Total(files, T) \in Nat
<1>1. /\ IsFiniteSet(RowsIn(files, S)) /\ Total(files, S) \in Nat
      /\ IsFiniteSet(RowsIn(files, T)) /\ Total(files, T) \in Nat
  BY RowsCounted
<1>2. RowsIn(files, S \cup T) = RowsIn(files, S) \cup RowsIn(files, T)
  BY DEF RowsIn
<1>3. RowsIn(files, S) \cap RowsIn(files, T) = {}
  <2> SUFFICES ASSUME NEW x, x \in RowsIn(files, S), x \in RowsIn(files, T) PROVE FALSE
    OBVIOUS
  <2>1. PICK i \in S : x \in {i} \X DOMAIN files[i].rows
    BY DEF RowsIn
  <2>2. PICK j \in T : x \in {j} \X DOMAIN files[j].rows
    BY DEF RowsIn
  <2>3. i = j
    BY <2>1, <2>2
  <2> QED BY <2>3
<1>4. Cardinality(RowsIn(files, S) \cap RowsIn(files, T)) = 0
  BY <1>3, FS_EmptySet
<1> DEFINE A == RowsIn(files, S)
           B == RowsIn(files, T)
<1>5. /\ Cardinality(A \cup B) = Cardinality(A) + Cardinality(B) - Cardinality(A \cap B)
      /\ Cardinality(A) \in Nat /\ Cardinality(B) \in Nat
  <2>1. IsFiniteSet(A) /\ IsFiniteSet(B)
    BY <1>1
  <2> HIDE DEF A, B
  <2> QED BY <2>1, FS_Union, FS_CardinalityType
<1>6. Cardinality(A \cap B) = 0 /\ RowsIn(files, S \cup T) = A \cup B
  BY <1>2, <1>4
<1>7. Total(files, S \cup T) = Cardinality(A \cup B) /\ Total(files, S) = Cardinality(A)
      /\ Total(files, T) = Cardinality(B)
  BY <1>6 DEF Total
<1> HIDE DEF A, B
<1> QED BY <1>5, <1>6, <1>7

LEMMA TotalOfOne ==
  ASSUME NEW files, NEW schema, FilesRead(files, schema), NEW i \in DOMAIN files
  PROVE  /\ Total(files, {i}) = Size(files, i) /\ Size(files, i) \in Nat
         /\ Size(files, i) = 0 <=> DOMAIN files[i].rows = {}
<1>1. IsFiniteSet(DOMAIN files[i].rows)
  <2>1. i \in 1..Len(files)
    BY RowsCounted
  <2> QED BY <2>1 DEF FilesRead, FileRead
<1>2. RowsIn(files, {i}) = {i} \X DOMAIN files[i].rows
  BY DEF RowsIn
<1>3. IsFiniteSet({i}) /\ Cardinality({i}) = 1
  BY FS_Singleton
<1>4. Cardinality({i} \X DOMAIN files[i].rows) = 1 * Cardinality(DOMAIN files[i].rows)
  BY <1>1, <1>3, FS_Product
<1>5. Size(files, i) \in Nat /\ (Size(files, i) = 0 <=> DOMAIN files[i].rows = {})
  BY <1>1, FS_CardinalityType, FS_EmptySet DEF Size
<1> QED BY <1>2, <1>4, <1>5 DEF Total, Size

LEMMA TotalOfPart ==
  ASSUME NEW files, NEW schema, FilesRead(files, schema),
         NEW T, T \subseteq DOMAIN files, NEW S, S \subseteq T
  PROVE  Total(files, S) \in Nat /\ Total(files, T) \in Nat /\ Total(files, S) <= Total(files, T)
<1>1. S \cup (T \ S) = T /\ S \subseteq DOMAIN files /\ T \ S \subseteq DOMAIN files
      /\ S \cap (T \ S) = {}
  OBVIOUS
<1> DEFINE R == T \ S
<1> HIDE DEF R
<1>2. Total(files, S \cup R) = Total(files, S) + Total(files, R)
      /\ Total(files, S) \in Nat /\ Total(files, R) \in Nat
  BY <1>1, TotalAdds DEF R
<1>3. Total(files, T) = Total(files, S) + Total(files, R)
  <2>1. S \cup R = T
    BY <1>1 DEF R
  <2> QED BY <1>2, <2>1
<1> DEFINE t == Total(files, T)
           s == Total(files, S)
           r == Total(files, R)
<1>4. t = s + r /\ s \in Nat /\ r \in Nat
  BY <1>2, <1>3
<1> HIDE DEF t, s, r
<1>5. t \in Nat /\ s <= t
  BY <1>4
<1> QED BY <1>4, <1>5 DEF t, s

-----------------------------------------------------------------------------
(* The shares.                                                              *)

Three == {"train", "val", "test"}

LEMMA ThreeSplits ==
    /\ Range(InDistribution) = Three /\ Three \subseteq Splits /\ "ood" \notin Three
    /\ InDistribution[1] = "train" /\ InDistribution[2] = "val" /\ InDistribution[3] = "test"
<1>1. InDistribution = <<"train", "val", "test">>
  BY DEF InDistribution
<1>2. Range(InDistribution) = Three
  BY <1>1 DEF Range, Three
<1> QED BY <1>1, <1>2, Names DEF Three

LEMMA ShareBounded ==
  ASSUME NEW n \in Nat
  PROVE  Share(n) \in Nat /\ 2 * Share(n) <= n
<1> DEFINE q == (15 * n) \div 100
           r == (15 * n) % 100
<1>1. q \in Nat /\ r \in Nat /\ r <= 99 /\ 15 * n = 100 * q + r
  OBVIOUS
<1>2. Share(n) = IF r > 50 \/ (r = 50 /\ q % 2 = 1) THEN q + 1 ELSE q
  BY DEF Share
<1> HIDE DEF q, r
<1>3. CASE r >= 50
  <2>1. Share(n) = q \/ Share(n) = q + 1
    BY <1>2
  <2> QED BY <1>1, <1>3, <2>1
<1>4. CASE r < 50
  <2>1. Share(n) = q
    BY <1>1, <1>2, <1>4
  <2> QED BY <1>1, <2>1
<1> QED BY <1>1, <1>3, <1>4

\* The three shares are all of a family.
Aims(files, name) == [s \in Three |-> Target(files, name, s)]

LEMMA AimsAdd ==
  ASSUME NEW files, NEW schema, FilesRead(files, schema), NEW name
  PROVE  LET aim == Aims(files, name)
         IN  /\ aim \in [Three -> Nat] /\ Total(files, Members(files, name)) \in Nat
             /\ aim["train"] + aim["val"] + aim["test"] = Total(files, Members(files, name))
<1> DEFINE n == Total(files, Members(files, name))
           aim == Aims(files, name)
<1>1. n \in Nat
  <2>1. Members(files, name) \subseteq DOMAIN files
    BY DEF Members
  <2> QED BY <2>1, RowsCounted
<1>2. /\ aim["train"] = n - 2 * Share(n) /\ aim["val"] = Share(n) /\ aim["test"] = Share(n)
      /\ aim = [s \in Three |-> aim[s]]
  BY DEF Aims, Target, Three
<1> HIDE DEF n, aim
<1>3. Share(n) \in Nat /\ 2 * Share(n) <= n
  BY <1>1, ShareBounded
<1>4. aim["train"] \in Nat /\ aim["val"] \in Nat /\ aim["test"] \in Nat
      /\ aim["train"] + aim["val"] + aim["test"] = n
  BY <1>1, <1>2, <1>3
<1>5. aim \in [Three -> Nat]
  BY <1>2, <1>4 DEF Three
<1> QED BY <1>1, <1>4, <1>5 DEF n, aim

(* Of the splits, one comes before the others.                              *)

FilledLess(now, aim) == {p \in Three \X Three : Fuller(now, aim, p[2], p[1])}
Gap(now, aim, rows, u) ==
    IF now[u] + rows > aim[u] THEN now[u] + rows - aim[u] ELSE aim[u] - now[u] - rows
GapLess(now, aim, rows) ==
    {p \in Three \X Three : Gap(now, aim, rows, p[1]) < Gap(now, aim, rows, p[2])}
NameLess == {p \in Three \X Three : ByName[p[1]] < ByName[p[2]]}
Precedes(now, aim, rows) ==
    Then(Three, FilledLess(now, aim), Then(Three, GapLess(now, aim, rows), NameLess))

LEMMA FilledWeak ==
  ASSUME NEW now \in [Three -> Nat], NEW aim \in [Three -> Nat]
  PROVE  Weak(Three, FilledLess(now, aim))
<1> DEFINE x == [s \in Three |-> <<now[s], aim[s]>>]
<1>1. ASSUME NEW s \in Three
      PROVE  /\ x[s] \in Frac /\ now[s] \in Nat /\ aim[s] \in Nat
             /\ x[s][1] = now[s] /\ (aim[s] # 0 => Below(x[s]) = aim[s])
  BY DEF Frac, Below
<1> HIDE DEF x
<1>2. ASSUME NEW s \in Three, NEW t \in Three, aim[s] # 0, aim[t] # 0
      PROVE  Fuller(now, aim, t, s) <=> Less(x[s], x[t])
  <2>1. Less(x[s], x[t]) <=> x[s][1] * Below(x[t]) < x[t][1] * Below(x[s])
    BY <1>1, LessMeans
  <2>2. Less(x[s], x[t]) <=> now[s] * aim[t] < now[t] * aim[s]
    BY <1>1, <1>2, <2>1
  <2>3. Fuller(now, aim, t, s) <=> now[t] * aim[s] > now[s] * aim[t]
    BY <1>2 DEF Fuller
  <2> DEFINE a == now[s] * aim[t]
             b == now[t] * aim[s]
  <2>4. a < b <=> b > a
    <3>1. a \in Nat /\ b \in Nat
      BY <1>1
    <3> HIDE DEF a, b
    <3> QED BY <3>1
  <2> QED BY <2>2, <2>3, <2>4
<1>3. ASSUME NEW s \in Three, NEW t \in Three
      PROVE  <<s, t>> \in FilledLess(now, aim) <=> Fuller(now, aim, t, s)
  BY DEF FilledLess
<1>4. ASSUME NEW s \in Three, NEW t \in Three
      PROVE  /\ aim[s] = 0 => ~Fuller(now, aim, t, s)
             /\ (aim[s] # 0 /\ aim[t] = 0) => Fuller(now, aim, t, s)
  BY DEF Fuller
<1>5. ASSUME NEW p \in Three, NEW q \in Three, NEW r \in Three, <<p, q>> \in FilledLess(now, aim)
      PROVE  /\ <<q, p>> \notin FilledLess(now, aim)
             /\ <<p, r>> \in FilledLess(now, aim) \/ <<r, q>> \in FilledLess(now, aim)
  <2>1. aim[p] # 0 /\ Fuller(now, aim, q, p)
    BY <1>3, <1>4, <1>5
  <2>2. CASE aim[q] = 0
    BY <1>3, <1>4, <2>1, <2>2
  <2>3. CASE aim[q] # 0 /\ aim[r] = 0
    <3>1. <<p, r>> \in FilledLess(now, aim)
      BY <1>3, <1>4, <2>1, <2>3
    <3>2. Less(x[p], x[q])
      BY <1>2, <2>1, <2>3
    <3>3. ~Less(x[q], x[p])
      BY <1>1, <3>2, LessWeak
    <3>4. ~Fuller(now, aim, p, q)
      BY <1>2, <2>1, <2>3, <3>3
    <3> QED BY <1>3, <3>1, <3>4
  <2>4. CASE aim[q] # 0 /\ aim[r] # 0
    <3>1. Less(x[p], x[q])
      BY <1>2, <2>1, <2>4
    <3>2. ~Less(x[q], x[p]) /\ (Less(x[p], x[r]) \/ Less(x[r], x[q]))
      BY <1>1, <3>1, LessWeak
    <3>3. ~Fuller(now, aim, p, q) /\ (Fuller(now, aim, r, p) \/ Fuller(now, aim, q, r))
      BY <1>2, <2>1, <2>4, <3>2
    <3> QED BY <1>3, <3>3
  <2> QED BY <2>2, <2>3, <2>4
<1> QED BY <1>5 DEF Weak

LEMMA AheadExists ==
  ASSUME NEW now \in [Three -> Nat], NEW aim \in [Three -> Nat], NEW rows \in Nat
  PROVE  \E s \in Three : \A t \in Three \ {s} : Before(now, aim, rows, s, t)
<1> DEFINE A == FilledLess(now, aim)
           B == GapLess(now, aim, rows)
           R == Precedes(now, aim, rows)
<1>1. \A s \in Three : Gap(now, aim, rows, s) \in Int
  BY DEF Gap
<1>2. Weak(Three, B)
  BY <1>1 DEF Weak, GapLess
<1>3. ByName["train"] = 2 /\ ByName["val"] = 3 /\ ByName["test"] = 1
  BY DEF ByName
<1>4. Weak(Three, NameLess)
  BY <1>3 DEF Weak, NameLess, Three
<1>5. \A s, t \in Three : s # t => <<s, t>> \in NameLess \/ <<t, s>> \in NameLess
  BY <1>3 DEF NameLess, Three
<1>6. Weak(Three, A)
  BY FilledWeak
<1> HIDE DEF A, B
<1>7. Weak(Three, Then(Three, B, NameLess))
  BY <1>2, <1>4, ThenWeak
<1>8. Weak(Three, R)
  BY <1>6, <1>7, ThenWeak DEF Precedes, A, B
<1>9. \A s, t \in Three : s # t => <<s, t>> \in R \/ <<t, s>> \in R
  BY <1>5 DEF Precedes, Then
<1>10. IsFiniteSet(Three) /\ Three # {}
  <2>1. IsFiniteSet({"train"} \cup {"val"} \cup {"test"})
    BY FS_Singleton, FS_Union
  <2>2. Three = {"train"} \cup {"val"} \cup {"test"}
    BY DEF Three
  <2> QED BY <2>1, <2>2
<1> HIDE DEF R
<1>11. PICK s \in Three : \A t \in Three \ {s} : <<s, t>> \in R
  BY <1>8, <1>9, <1>10, FirstExists
<1>12. ASSUME NEW t \in Three \ {s} PROVE Before(now, aim, rows, s, t)
  <2>1. <<s, t>> \in A \/ (<<t, s>> \notin A /\ <<s, t>> \in Then(Three, B, NameLess))
    BY <1>11 DEF R, Precedes, Then, A, B
  <2>2. (<<s, t>> \in A <=> Fuller(now, aim, t, s)) /\ (<<t, s>> \in A <=> Fuller(now, aim, s, t))
    BY DEF A, FilledLess
  <2>3. <<s, t>> \in Then(Three, B, NameLess) =>
            \/ Gap(now, aim, rows, s) < Gap(now, aim, rows, t)
            \/ Gap(now, aim, rows, s) = Gap(now, aim, rows, t) /\ ByName[s] < ByName[t]
    BY <1>1 DEF Then, B, GapLess, NameLess
  <2> QED BY <2>1, <2>2, <2>3 DEF Before, Gap
<1> QED BY <1>12

\* A split that comes before the others has not its share, while they have not all of theirs.
LEMMA AheadHasRoom ==
  ASSUME NEW now \in [Three -> Nat], NEW aim \in [Three -> Nat], NEW rows,
         now["train"] + now["val"] + now["test"] < aim["train"] + aim["val"] + aim["test"],
         NEW s \in Three, \A t \in Three \ {s} : Before(now, aim, rows, s, t)
  PROVE  now[s] < aim[s]
<1> SUFFICES ASSUME now[s] >= aim[s] PROVE FALSE
  <2>1. now[s] \in Nat /\ aim[s] \in Nat
    OBVIOUS
  <2> QED BY <2>1
<1>1. PICK u \in Three : now[u] < aim[u]
  <2>1. \A t \in Three : now[t] \in Nat /\ aim[t] \in Nat
    OBVIOUS
  <2>2. "train" \in Three /\ "val" \in Three /\ "test" \in Three
    BY DEF Three
  <2> QED BY <2>1, <2>2
<1> DEFINE ns == now[s]
           nu == now[u]
           ws == aim[s]
           au == aim[u]
<1>2. ns \in Nat /\ nu \in Nat /\ ws \in Nat /\ au \in Nat /\ ns >= ws /\ nu < au
  BY <1>1
<1>3. u \in Three \ {s}
  BY <1>1, <1>2
<1> HIDE DEF ns, nu, ws, au
<1>4. au # 0 /\ (ws = 0 \/ ns * au > nu * ws)
  <2>1. CASE ws = 0
    BY <1>2, <2>1
  <2>2. CASE ws # 0
    <3>1. ws * au <= ns * au
      BY <1>2, Scaled
    <3>2. ~(au * ws <= nu * ws)
      BY <1>2, <2>2, Scaled
    <3>3. ws * au = au * ws /\ ws * au \in Nat /\ ns * au \in Nat /\ nu * ws \in Nat
      BY <1>2
    <3> QED BY <1>2, <3>1, <3>2, <3>3
  <2> QED BY <2>1, <2>2
<1>5. Fuller(now, aim, s, u)
  BY <1>4 DEF Fuller, ns, nu, ws, au
<1>6. ~Fuller(now, aim, u, s)
  <2> DEFINE a == ns * au
             b == nu * ws
  <2>1. ws = 0 \/ a > b
    BY <1>4
  <2>2. a \in Nat /\ b \in Nat
    BY <1>2
  <2> HIDE DEF a, b
  <2>3. ws = 0 \/ ~(b > a)
    BY <2>1, <2>2
  <2>4. Fuller(now, aim, u, s) => ws # 0 /\ (au = 0 \/ b > a)
    BY DEF Fuller, ns, nu, ws, au, a, b
  <2> QED BY <1>4, <2>3, <2>4
<1> QED BY <1>3, <1>5, <1>6 DEF Before

-----------------------------------------------------------------------------
(* The greedy draw, as a property of what it returns.                       *)

\* The files put in a split before the m-th one, and the rows they have.
PutBelow(o, p, m, s) == {o[k] : k \in {j \in 1..(m - 1) : p[j] = s}}
FilledBelow(files, o, p, m) == [s \in Three |-> Total(files, PutBelow(o, p, m, s))]

PickedTo(files, name, o, p, n) ==
    \A m \in 1..n :
        /\ p[m] \in Three
        /\ m <= 3 => p[m] = InDistribution[m]
        /\ m > 3 => \A t \in Three \ {p[m]} :
               Before(FilledBelow(files, o, p, m), Aims(files, name), Size(files, o[m]), p[m], t)

\* The split of the next file.
First(D, now, aim, rows) == CHOOSE s \in D : \A t \in D \ {s} : Before(now, aim, rows, s, t)
Choice(files, name, o, so, n) ==
    IF n <= 3 THEN InDistribution[n]
    ELSE First(Three, FilledBelow(files, o, so, n), Aims(files, name), Size(files, o[n]))

LEMMA FilledCounts ==
  ASSUME NEW files, NEW schema, FilesRead(files, schema), NEW N \in Nat,
         NEW o \in [1..N -> DOMAIN files], NEW p, NEW m \in 1..(N + 1)
  PROVE  /\ FilledBelow(files, o, p, m) \in [Three -> Nat]
         /\ \A s : PutBelow(o, p, m, s) \subseteq DOMAIN files
<1>1. \A j \in 1..(m - 1) : j \in 1..N
  OBVIOUS
<1>2. ASSUME NEW s PROVE PutBelow(o, p, m, s) \subseteq DOMAIN files
  BY <1>1 DEF PutBelow
<1>3. \A s : Total(files, PutBelow(o, p, m, s)) \in Nat
  BY <1>2, RowsCounted
<1> QED BY <1>2, <1>3 DEF FilledBelow

LEMMA ChoiceIsAhead ==
  ASSUME NEW files, NEW schema, FilesRead(files, schema), NEW name, NEW N \in Nat,
         NEW o \in [1..N -> DOMAIN files], NEW so, NEW n \in 1..N
  PROVE  LET s == Choice(files, name, o, so, n)
         IN  /\ s \in Three
             /\ n <= 3 => s = InDistribution[n]
             /\ n > 3 => \A t \in Three \ {s} :
                    Before(FilledBelow(files, o, so, n), Aims(files, name), Size(files, o[n]), s, t)
<1>1. CASE n <= 3
  <2>1. n = 1 \/ n = 2 \/ n = 3
    BY <1>1
  <2>2. InDistribution[n] \in Three
    BY <2>1, ThreeSplits DEF Three
  <2> QED BY <1>1, <2>2 DEF Choice
<1>2. CASE n > 3
  <2> DEFINE now == FilledBelow(files, o, so, n)
             aim == Aims(files, name)
             rows == Size(files, o[n])
  <2>1. now \in [Three -> Nat]
    <3>1. n \in 1..(N + 1)
      OBVIOUS
    <3> QED BY <3>1, FilledCounts
  <2>2. aim \in [Three -> Nat]
    BY AimsAdd
  <2>3. rows \in Nat
    <3>1. o[n] \in DOMAIN files
      OBVIOUS
    <3> QED BY <3>1, TotalOfOne
  <2>4. Choice(files, name, o, so, n) =
            CHOOSE s \in Three : \A t \in Three \ {s} : Before(now, aim, rows, s, t)
    BY <1>2 DEF Choice, First
  <2> HIDE DEF now, aim, rows
  <2>5. \E s \in Three : \A t \in Three \ {s} : Before(now, aim, rows, s, t)
    BY <2>1, <2>2, <2>3, AheadExists
  <2>6. LET s == Choice(files, name, o, so, n)
        IN  s \in Three /\ \A t \in Three \ {s} : Before(now, aim, rows, s, t)
    BY <2>4, <2>5
  <2> QED BY <1>2, <2>6 DEF now, aim, rows
<1> QED BY <1>1, <1>2

LEMMA GreedyPicks ==
  ASSUME NEW files, NEW schema, FilesRead(files, schema), NEW name,
         NEW o, Len(o) \in Nat, o \in [1..Len(o) -> DOMAIN files]
  PROVE  PickedTo(files, name, o, Greedy(files, name, o), Len(o))
<1> DEFINE N == Len(o)
           C(so, n) == Choice(files, name, o, so, n)
           aim == [s \in Range(InDistribution) |-> Target(files, name, s)]
           G[n \in 0..N] ==
               IF n = 0 THEN <<>>
               ELSE LET so == G[n - 1]
                        now == [s \in DOMAIN aim |->
                                   Total(files, {o[k] : k \in {j \in DOMAIN so : so[j] = s}})]
                    IN  Append(so, IF n <= 3 THEN InDistribution[n]
                                   ELSE CHOOSE s \in DOMAIN aim : \A t \in DOMAIN aim \ {s} :
                                            Before(now, aim, Size(files, o[n]), s, t))
           Old(so, n) == LET now == [s \in DOMAIN aim |->
                                        Total(files, {o[k] : k \in {j \in DOMAIN so : so[j] = s}})]
                         IN  IF n <= 3 THEN InDistribution[n]
                             ELSE CHOOSE s \in DOMAIN aim : \A t \in DOMAIN aim \ {s} :
                                      Before(now, aim, Size(files, o[n]), s, t)
<1>1. Greedy(files, name, o) = G[N]
  BY DEF Greedy
<1>2. aim = Aims(files, name) /\ DOMAIN aim = Three
  BY ThreeSplits DEF Aims
<1>3. ASSUME NEW n \in 1..N, NEW so, DOMAIN so = 1..(n - 1)
      PROVE  Old(so, n) = C(so, n)
  <2> DEFINE now == [s \in DOMAIN aim |-> Total(files, {o[k] : k \in {j \in DOMAIN so : so[j] = s}})]
  <2>1. now = FilledBelow(files, o, so, n)
    <3>1. \A s : {o[k] : k \in {j \in DOMAIN so : so[j] = s}} = PutBelow(o, so, n, s)
      BY <1>3 DEF PutBelow
    <3> HIDE DEF aim
    <3> QED BY <1>2, <3>1 DEF FilledBelow
  <2>2. Old(so, n) = IF n <= 3 THEN InDistribution[n]
                     ELSE First(DOMAIN aim, now, aim, Size(files, o[n]))
    <3> HIDE DEF aim
    <3> QED BY DEF First
  <2> HIDE DEF now, aim, Old
  <2> QED BY <1>2, <2>1, <2>2 DEF Choice
<1> DEFINE V == Seq(Three)
           base == <<>>
           next == [p \in Nat \X V |->
                       IF p[1] \in 1..N THEN Append(p[2], C(p[2], p[1])) ELSE p[2]]
<1>4. N \in Nat /\ o \in [1..N -> DOMAIN files]
  OBVIOUS
<1>5. ASSUME NEW so, NEW n \in 1..N
      PROVE  /\ C(so, n) \in Three
             /\ n <= 3 => C(so, n) = InDistribution[n]
             /\ n > 3 => \A t \in Three \ {C(so, n)} :
                    Before(FilledBelow(files, o, so, n), Aims(files, name), Size(files, o[n]), C(so, n), t)
  BY <1>4, ChoiceIsAhead
<1> HIDE DEF N, aim, C, Old
<1>6. base \in V
  OBVIOUS
<1>7. next \in Steps(V)
  BY <1>5 DEF Steps
<1> HIDE DEF base, next
<1>8. PICK g : Computed(V, base, next, N, g)
  BY <1>4, <1>6, <1>7, Recursion
<1>9. /\ g \in [0..N -> V] /\ g[0] = base
      /\ \A n \in 1..N : g[n] = Append(g[n - 1], C(g[n - 1], n))
  <2>1. /\ g \in [0..N -> V] /\ g[0] = base
        /\ \A n \in 1..N : g[n] = next[<<n, g[n - 1]>>]
    BY <1>8 DEF Computed
  <2>2. ASSUME NEW n \in 1..N PROVE g[n] = Append(g[n - 1], C(g[n - 1], n))
    <3>1. n \in Nat /\ n - 1 \in 0..N
      BY <1>4
    <3>2. g[n - 1] \in V
      BY <2>1, <3>1
    <3>3. next[<<n, g[n - 1]>>] = Append(g[n - 1], C(g[n - 1], n))
      BY <3>1, <3>2 DEF next
    <3> QED BY <2>1, <3>3
  <2> QED BY <2>1, <2>2
<1>10. \A n \in 0..N : g[n] \in Seq(Three) /\ Len(g[n]) = n
  <2> DEFINE I == {n \in Nat : n \in 0..N => g[n] \in Seq(Three) /\ Len(g[n]) = n}
  <2>1. 0 \in I
    BY <1>9 DEF base
  <2>2. ASSUME NEW n \in Nat, n \in I PROVE n + 1 \in I
    <3> SUFFICES ASSUME n + 1 \in 0..N PROVE g[n + 1] \in Seq(Three) /\ Len(g[n + 1]) = n + 1
      OBVIOUS
    <3>1. n \in 0..N /\ n + 1 \in 1..N /\ (n + 1) - 1 = n
      BY <1>4
    <3>2. g[n + 1] = Append(g[n], C(g[n], n + 1)) /\ C(g[n], n + 1) \in Three
      BY <1>5, <1>9, <3>1
    <3>3. g[n] \in Seq(Three) /\ Len(g[n]) = n
      BY <2>2, <3>1
    <3> QED BY <3>2, <3>3
  <2> HIDE DEF I
  <2>3. \A n \in Nat : n \in I
    BY <2>1, <2>2, NatInduct
  <2> QED BY <1>4, <2>3 DEF I
<1>11. g = [n \in 0..N |-> IF n = 0 THEN <<>> ELSE Append(g[n - 1], Old(g[n - 1], n))]
  <2>1. ASSUME NEW n \in 0..N
        PROVE  g[n] = IF n = 0 THEN <<>> ELSE Append(g[n - 1], Old(g[n - 1], n))
    <3>1. CASE n = 0
      BY <1>9, <3>1 DEF base
    <3>2. CASE n # 0
      <4>1. n \in 1..N /\ n - 1 \in 0..N
        BY <1>4, <3>2
      <4>2. DOMAIN g[n - 1] = 1..(n - 1)
        BY <1>10, <4>1
      <4>3. Old(g[n - 1], n) = C(g[n - 1], n)
        BY <1>3, <4>1, <4>2
      <4> QED BY <1>9, <3>2, <4>1, <4>3
    <3> QED BY <3>1, <3>2
  <2> QED BY <1>9, <2>1
<1>12. G = CHOOSE h : h = [n \in 0..N |-> IF n = 0 THEN <<>> ELSE Append(h[n - 1], Old(h[n - 1], n))]
  BY DEF Old
<1> HIDE DEF G
<1>13. G = [n \in 0..N |-> IF n = 0 THEN <<>> ELSE Append(G[n - 1], Old(G[n - 1], n))]
  BY <1>11, <1>12
<1> DEFINE I == {n \in Nat : n \in 0..N =>
                     /\ G[n] \in Seq(Three) /\ Len(G[n]) = n
                     /\ PickedTo(files, name, o, G[n], n)}
<1>14. 0 \in I
  <2>1. G[0] = <<>>
    BY <1>4, <1>13
  <2>2. <<>> \in Seq(Three) /\ Len(<<>>) = 0 /\ 1..0 = {}
    OBVIOUS
  <2> QED BY <2>1, <2>2 DEF PickedTo
<1>15. ASSUME NEW n \in Nat, n \in I PROVE n + 1 \in I
  <2> SUFFICES ASSUME n + 1 \in 0..N
               PROVE  /\ G[n + 1] \in Seq(Three) /\ Len(G[n + 1]) = n + 1
                      /\ PickedTo(files, name, o, G[n + 1], n + 1)
    OBVIOUS
  <2> DEFINE a == G[n]
             x == C(a, n + 1)
             b == Append(a, x)
  <2>1. n \in 0..N /\ n + 1 \in 1..N /\ (n + 1) - 1 = n /\ n + 1 # 0
    BY <1>4
  <2>2. a \in Seq(Three) /\ Len(a) = n /\ PickedTo(files, name, o, a, n)
    BY <1>15, <2>1
  <2>3. G[n + 1] = b
    <3>1. G[n + 1] = Append(G[n], Old(G[n], n + 1))
      BY <1>13, <2>1
    <3>2. DOMAIN a = 1..n
      BY <2>2
    <3>3. Old(a, n + 1) = x
      <4> HIDE DEF a
      <4> QED BY <1>3, <2>1, <3>2
    <3> QED BY <3>1, <3>3
  <2>4. /\ x \in Three
        /\ n + 1 <= 3 => x = InDistribution[n + 1]
        /\ n + 1 > 3 => \A t \in Three \ {x} :
               Before(FilledBelow(files, o, a, n + 1), Aims(files, name), Size(files, o[n + 1]), x, t)
    BY <1>5, <2>1
  <2> HIDE DEF a, x
  <2>5. /\ b \in Seq(Three) /\ Len(b) = n + 1 /\ b[n + 1] = x
        /\ \A m \in 1..n : b[m] = a[m]
    BY <2>2, <2>4
  <2> HIDE DEF b
  <2>6. \A m \in 1..(n + 1) : FilledBelow(files, o, b, m) = FilledBelow(files, o, a, m)
    <3>1. ASSUME NEW m \in 1..(n + 1), NEW s PROVE PutBelow(o, b, m, s) = PutBelow(o, a, m, s)
      <4>1. \A j \in 1..(m - 1) : b[j] = a[j]
        BY <2>5
      <4> QED BY <4>1 DEF PutBelow
    <3> QED BY <3>1 DEF FilledBelow
  <2>7. PickedTo(files, name, o, b, n + 1)
    <3> SUFFICES ASSUME NEW m \in 1..(n + 1)
                 PROVE  /\ b[m] \in Three
                        /\ m <= 3 => b[m] = InDistribution[m]
                        /\ m > 3 => \A t \in Three \ {b[m]} :
                               Before(FilledBelow(files, o, b, m), Aims(files, name), Size(files, o[m]), b[m], t)
      BY DEF PickedTo
    <3>1. CASE m \in 1..n
      <4>1. b[m] = a[m] /\ FilledBelow(files, o, b, m) = FilledBelow(files, o, a, m)
        BY <2>5, <2>6, <3>1
      <4> QED BY <2>2, <3>1, <4>1 DEF PickedTo
    <3>2. CASE m = n + 1
      <4>1. b[m] = x /\ FilledBelow(files, o, b, m) = FilledBelow(files, o, a, n + 1)
        BY <2>5, <2>6, <3>2
      <4> QED BY <2>4, <3>2, <4>1
    <3> QED BY <3>1, <3>2
  <2> QED BY <2>3, <2>5, <2>7
<1> HIDE DEF I
<1>16. \A n \in Nat : n \in I
  BY <1>14, <1>15, NatInduct
<1>17. PickedTo(files, name, o, G[N], N)
  BY <1>4, <1>16 DEF I
<1> QED BY <1>1, <1>17 DEF N

-----------------------------------------------------------------------------
(* A family that is shared out: each split has a file of it, and had not its  *)
(* share before the last of its files.                                      *)

Smallest(files, S) == CHOOSE n \in {Size(files, i) : i \in S} : \A i \in S : n <= Size(files, i)
HasRoom(files, name, s, S) ==
    Cardinality(S) > 1 => Total(files, S) - Smallest(files, S) < Target(files, name, s)
NotEmpty(files, S) == {i \in S : Size(files, i) > 0}

\* Where a draw puts a file.
PlaceOf(o, p, S) == [i \in S |-> p[CHOOSE k \in DOMAIN o : o[k] = i]]

LEMMA Placed ==
  ASSUME NEW files, NEW schema, FilesRead(files, schema), NEW S, S \subseteq DOMAIN files,
         NEW o \in Orders(files, S)
  PROVE  /\ Len(o) = Cardinality(S) /\ Len(o) \in Nat /\ o \in [1..Len(o) -> S]
         /\ \A i, j \in 1..Len(o) : i # j => o[i] # o[j]
         /\ \A i, j \in 1..Len(o) : i < j => Size(files, o[i]) >= Size(files, o[j])
         /\ \A x \in S : \E k \in 1..Len(o) : o[k] = x
         /\ \A p, k : k \in 1..Len(o) => PlaceOf(o, p, S)[o[k]] = p[k]
<1>1. o \in SetToSeqs(S) /\ \A i, j \in DOMAIN o : i < j => Size(files, o[i]) >= Size(files, o[j])
  BY DEF Orders
<1>2. IsFiniteSet(S)
  BY RowsCounted
<1>3. /\ Cardinality(S) \in Nat /\ o \in [1..Cardinality(S) -> S] /\ Len(o) = Cardinality(S)
      /\ \A i, j \in 1..Cardinality(S) : i # j => o[i] # o[j]
      /\ \A x \in S : \E i \in 1..Cardinality(S) : o[i] = x
  BY <1>1, <1>2, ListsAll
<1>4. DOMAIN o = 1..Len(o)
  BY <1>3
<1>5. ASSUME NEW p, NEW k \in 1..Len(o) PROVE PlaceOf(o, p, S)[o[k]] = p[k]
  <2> DEFINE c == CHOOSE j \in DOMAIN o : o[j] = o[k]
  <2>1. c \in 1..Len(o) /\ o[c] = o[k]
    BY <1>4
  <2>2. c = k
    <3> HIDE DEF c
    <3> QED BY <1>3, <2>1
  <2>3. o[k] \in S
    BY <1>3
  <2>4. PlaceOf(o, p, S)[o[k]] = p[c]
    BY <2>3 DEF PlaceOf
  <2> QED BY <2>2, <2>4
<1> QED BY <1>1, <1>3, <1>4, <1>5

\* Before the m-th file, less than the whole family has been placed.
LEMMA NotAllPlaced ==
  ASSUME NEW files, NEW schema, FilesRead(files, schema), NEW S, S \subseteq DOMAIN files,
         NEW o, Len(o) \in Nat, o \in [1..Len(o) -> S],
         \A i, j \in 1..Len(o) : i # j => o[i] # o[j],
         NEW p, NEW m \in 1..Len(o), Size(files, o[m]) > 0
  PROVE  LET now == FilledBelow(files, o, p, m)
         IN  now["train"] + now["val"] + now["test"] < Total(files, S)
<1> DEFINE P(s) == PutBelow(o, p, m, s)
           now == FilledBelow(files, o, p, m)
           A == P("train")
           B == P("val")
           C == P("test")
           R == S \ {o[m]}
<1>1. \A j \in 1..(m - 1) : j \in 1..Len(o) /\ j # m
  OBVIOUS
<1>2. ASSUME NEW s PROVE P(s) \subseteq R
  BY <1>1 DEF PutBelow
<1>3. ASSUME NEW s, NEW t, s # t PROVE P(s) \cap P(t) = {}
  <2> SUFFICES ASSUME NEW j \in 1..(m - 1), NEW k \in 1..(m - 1), p[j] = s, p[k] = t, o[j] = o[k]
               PROVE  FALSE
    BY DEF PutBelow
  <2>1. j = k
    BY <1>1
  <2> QED BY <1>3, <2>1
<1>4. A \cap B = {} /\ (A \cup B) \cap C = {}
  <2>1. A \cap B = {}
    BY <1>3
  <2>2. A \cap C = {}
    BY <1>3
  <2>3. B \cap C = {}
    BY <1>3
  <2> QED BY <2>1, <2>2, <2>3
<1>5. A \subseteq R /\ B \subseteq R /\ C \subseteq R
  BY <1>2
<1>6. now["train"] = Total(files, A) /\ now["val"] = Total(files, B) /\ now["test"] = Total(files, C)
  BY DEF FilledBelow, Three
<1>7. o[m] \in S /\ R \subseteq DOMAIN files /\ {o[m]} \subseteq DOMAIN files /\ R \cap {o[m]} = {}
      /\ R \cup {o[m]} = S
  OBVIOUS
<1> HIDE DEF A, B, C, R, now
<1>8. Total(files, A \cup B) = Total(files, A) + Total(files, B)
      /\ Total(files, A) \in Nat /\ Total(files, B) \in Nat
  BY <1>4, <1>5, <1>7, TotalAdds
<1>9. Total(files, (A \cup B) \cup C) = Total(files, A \cup B) + Total(files, C) /\ Total(files, C) \in Nat
  BY <1>4, <1>5, <1>7, TotalAdds
<1>10. Total(files, (A \cup B) \cup C) <= Total(files, R) /\ Total(files, R) \in Nat
  BY <1>5, <1>7, TotalOfPart
<1>11. Total(files, R \cup {o[m]}) = Total(files, R) + Total(files, {o[m]})
  BY <1>7, TotalAdds
<1>12. Total(files, {o[m]}) = Size(files, o[m]) /\ Size(files, o[m]) \in Nat
  BY <1>7, TotalOfOne
<1>13. Total(files, S) = Total(files, R) + Size(files, o[m])
  BY <1>7, <1>11, <1>12
<1> DEFINE a == Total(files, A)
           b == Total(files, B)
           c == Total(files, C)
           u == Total(files, (A \cup B) \cup C)
           r == Total(files, R)
           z == Size(files, o[m])
           t == Total(files, S)
<1>14. u = (a + b) + c /\ u <= r /\ t = r + z /\ z > 0
       /\ a \in Nat /\ b \in Nat /\ c \in Nat /\ r \in Nat /\ z \in Nat
  BY <1>8, <1>9, <1>10, <1>12, <1>13
<1>15. now["train"] = a /\ now["val"] = b /\ now["test"] = c
  BY <1>6
<1> HIDE DEF a, b, c, u, r, z, t
<1>16. a + b + c < t
  BY <1>14
<1> QED BY <1>15, <1>16 DEF t, now

LEMMA GreedyFair ==
  ASSUME NEW files, NEW schema, FilesRead(files, schema), NEW name,
         Cardinality(Members(files, name)) >= 3,
         NEW o \in Orders(files, Members(files, name)), NEW s \in Three
  PROVE  LET place == PlaceOf(o, Greedy(files, name, o), Members(files, name))
             own == {i \in Members(files, name) : place[i] = s}
         IN  /\ \A i \in Members(files, name) : place[i] \in Three
             /\ own # {} /\ HasRoom(files, name, s, NotEmpty(files, own))
<1> DEFINE S == Members(files, name)
           N == Len(o)
           p == Greedy(files, name, o)
           place == PlaceOf(o, p, S)
           own == {i \in S : place[i] = s}
           T == NotEmpty(files, own)
           K == {k \in 1..N : p[k] = s /\ Size(files, o[k]) > 0}
<1>1. S \subseteq DOMAIN files
  BY DEF Members
<1> HIDE DEF S
<1>2. /\ N = Cardinality(S) /\ N \in Nat /\ o \in [1..N -> S]
      /\ \A i, j \in 1..N : i # j => o[i] # o[j]
      /\ \A i, j \in 1..N : i < j => Size(files, o[i]) >= Size(files, o[j])
      /\ \A x \in S : \E k \in 1..N : o[k] = x
      /\ \A k \in 1..N : place[o[k]] = p[k]
  <2>1. o \in Orders(files, S)
    BY DEF S
  <2> HIDE DEF p
  <2> QED BY <1>1, <2>1, Placed
<1>3. N >= 3
  BY <1>2 DEF S
<1>4. PickedTo(files, name, o, p, N)
  <2>1. o \in [1..Len(o) -> DOMAIN files]
    BY <1>1, <1>2
  <2> QED BY <1>2, <2>1, GreedyPicks
<1>5. \A k \in 1..N : o[k] \in S /\ o[k] \in DOMAIN files /\ Size(files, o[k]) \in Nat
  BY <1>1, <1>2, TotalOfOne
<1> HIDE DEF p, place, N
<1>6. \A k \in 1..N : p[k] \in Three /\ (k <= 3 => p[k] = InDistribution[k])
  BY <1>4 DEF PickedTo
<1>7. \A i \in S : place[i] \in Three
  BY <1>2, <1>6
<1>8. own # {}
  <2>1. \E k \in 1..3 : InDistribution[k] = s
    <3>1. 1 \in 1..3 /\ 2 \in 1..3 /\ 3 \in 1..3
      OBVIOUS
    <3> QED BY <3>1, ThreeSplits DEF Three
  <2>2. PICK k \in 1..3 : InDistribution[k] = s
    BY <2>1
  <2>3. k \in 1..N /\ k <= 3
    BY <1>2, <1>3
  <2>4. p[k] = s
    BY <1>6, <2>2, <2>3
  <2> QED BY <1>2, <1>5, <2>3, <2>4
<1>9. \A i : i \in T <=> \E k \in K : o[k] = i
  <2>1. ASSUME NEW i, i \in T PROVE \E k \in K : o[k] = i
    <3>1. i \in S /\ place[i] = s /\ Size(files, i) > 0
      BY <2>1 DEF NotEmpty
    <3>2. PICK k \in 1..N : o[k] = i
      BY <1>2, <3>1
    <3> QED BY <1>2, <3>1, <3>2
  <2>2. ASSUME NEW k \in K PROVE o[k] \in T
    BY <1>2, <1>5 DEF NotEmpty
  <2> QED BY <2>1, <2>2
<1>10. T \subseteq S
  BY DEF NotEmpty
<1> HIDE DEF own, T
<1>11. HasRoom(files, name, s, T)
  <2> SUFFICES ASSUME Cardinality(T) > 1
               PROVE  Total(files, T) - Smallest(files, T) < Target(files, name, s)
    BY DEF HasRoom
  <2>1. PICK m \in K : \A k \in K : k <= m
    <3> DEFINE L == {N - k : k \in K}
    <3>1. L \subseteq Nat
      BY <1>2
    <3>2. K # {}
      <4> SUFFICES ASSUME K = {} PROVE FALSE
        OBVIOUS
      <4>1. T = {}
        BY <1>9
      <4>2. Cardinality(T) = 0
        BY <4>1, FS_EmptySet
      <4> QED BY <4>2
    <3>3. L # {}
      BY <3>2
    <3>4. PICK l \in L : \A x \in L : l <= x
      <4> HIDE DEF L
      <4> QED BY <3>1, <3>3, LeastNat
    <3>5. PICK m \in K : l = N - m
      OBVIOUS
    <3>6. ASSUME NEW k \in K PROVE k <= m
      <4>1. N - m <= N - k
        BY <3>4, <3>5
      <4>2. m \in Nat /\ k \in Nat /\ N \in Nat
        BY <1>2
      <4> QED BY <4>1, <4>2
    <3> QED BY <3>6
  <2>2. m \in 1..N /\ p[m] = s /\ Size(files, o[m]) > 0
    OBVIOUS
  <2>3. m > 3
    <3> SUFFICES ASSUME m <= 3 PROVE FALSE
      BY <1>2, <2>2
    <3>1. ASSUME NEW k \in K PROVE k = m
      <4>1. k \in 1..3 /\ m \in 1..3
        BY <1>2, <2>1, <2>2
      <4>2. p[k] = InDistribution[k] /\ p[m] = InDistribution[m] /\ p[k] = s
        BY <1>6, <2>2, <4>1
      <4>3. \A i, j \in 1..3 : InDistribution[i] = InDistribution[j] => i = j
        BY ThreeSplits
      <4> QED BY <2>2, <4>1, <4>2, <4>3
    <3>2. T = {o[m]}
      BY <1>9, <3>1
    <3>3. Cardinality(T) = 1
      BY <3>2, FS_Singleton
    <3> QED BY <3>3
  <2>4. PutBelow(o, p, m, s) = T \ {o[m]}
    <3>1. ASSUME NEW i, i \in PutBelow(o, p, m, s) PROVE i \in T \ {o[m]}
      <4>1. PICK k \in 1..(m - 1) : p[k] = s /\ i = o[k]
        BY <3>1 DEF PutBelow
      <4>2. k \in 1..N /\ k < m
        BY <1>2, <2>2
      <4>3. Size(files, o[k]) >= Size(files, o[m]) /\ o[k] # o[m]
        BY <1>2, <2>2, <4>2
      <4>4. Size(files, o[k]) > 0
        BY <1>5, <2>2, <4>2, <4>3
      <4> QED BY <1>9, <4>1, <4>2, <4>3, <4>4
    <3>2. ASSUME NEW i \in T \ {o[m]} PROVE i \in PutBelow(o, p, m, s)
      <4>1. PICK k \in K : o[k] = i
        BY <1>9
      <4>2. k # m /\ k <= m
        BY <2>1, <4>1
      <4>3. k \in 1..(m - 1) /\ p[k] = s
        BY <1>2, <2>2, <4>2
      <4> QED BY <4>1, <4>3 DEF PutBelow
    <3> QED BY <3>1, <3>2
  <2>5. o[m] \in T
    BY <1>9
  <2>6. Total(files, T) = Total(files, T \ {o[m]}) + Size(files, o[m])
        /\ Total(files, T \ {o[m]}) \in Nat /\ Size(files, o[m]) \in Nat
    <3> DEFINE R == T \ {o[m]}
    <3>1. R \cup {o[m]} = T /\ R \subseteq DOMAIN files /\ {o[m]} \subseteq DOMAIN files /\ R \cap {o[m]} = {}
      BY <1>1, <1>10, <2>5
    <3> HIDE DEF R
    <3>2. Total(files, R \cup {o[m]}) = Total(files, R) + Total(files, {o[m]}) /\ Total(files, R) \in Nat
      BY <3>1, TotalAdds
    <3>3. Total(files, {o[m]}) = Size(files, o[m]) /\ Size(files, o[m]) \in Nat
      BY <3>1, TotalOfOne
    <3> QED BY <3>1, <3>2, <3>3 DEF R
  <2>7. Smallest(files, T) = Size(files, o[m])
    <3> DEFINE Sizes == {Size(files, i) : i \in T}
               z == Size(files, o[m])
    <3>1. ASSUME NEW i \in T PROVE z <= Size(files, i) /\ Size(files, i) \in Nat
      <4>1. PICK k \in K : o[k] = i
        BY <1>9
      <4>2. k = m \/ k < m
        BY <1>2, <2>1, <2>2
      <4>3. Size(files, o[k]) >= Size(files, o[m])
        BY <1>2, <1>5, <2>2, <4>2
      <4> QED BY <1>5, <2>2, <4>1, <4>3
    <3>2. z \in Sizes /\ \A i \in T : z <= Size(files, i)
      BY <2>5, <3>1
    <3> DEFINE y == CHOOSE n \in Sizes : \A i \in T : n <= Size(files, i)
    <3>3. y \in Sizes /\ \A i \in T : y <= Size(files, i)
      BY <3>2
    <3> HIDE DEF y
    <3>4. y <= z
      BY <2>5, <3>3
    <3>5. z <= y /\ y \in Nat /\ z \in Nat
      BY <2>5, <3>1, <3>3
    <3>6. y = z
      <4> HIDE DEF z
      <4> QED BY <3>4, <3>5
    <3> QED BY <3>6 DEF Smallest, y
  <2> DEFINE now == FilledBelow(files, o, p, m)
             aim == Aims(files, name)
             rows == Size(files, o[m])
  <2>8. now \in [Three -> Nat]
    <3>1. o \in [1..N -> DOMAIN files] /\ m \in 1..(N + 1)
      BY <1>1, <1>2, <2>2
    <3> QED BY <1>2, <3>1, FilledCounts
  <2>9. aim \in [Three -> Nat] /\ aim["train"] + aim["val"] + aim["test"] = Total(files, S)
    BY AimsAdd DEF S
  <2>10. now["train"] + now["val"] + now["test"] < Total(files, S)
    BY <1>1, <1>2, <2>2, NotAllPlaced DEF N
  <2>11. \A t \in Three \ {s} : Before(now, aim, rows, s, t)
    BY <1>4, <2>2, <2>3 DEF PickedTo
  <2>12. now[s] = Total(files, T \ {o[m]}) /\ aim[s] = Target(files, name, s)
    BY <2>4 DEF FilledBelow, Aims
  <2> HIDE DEF now, aim, rows
  <2>13. now[s] < aim[s]
    BY <2>8, <2>9, <2>10, <2>11, AheadHasRoom
  <2> DEFINE t == Total(files, T)
             x == Total(files, T \ {o[m]})
             z == Size(files, o[m])
  <2>14. t = x + z /\ x \in Nat /\ z \in Nat /\ Smallest(files, T) = z /\ x < Target(files, name, s)
    BY <2>6, <2>7, <2>12, <2>13
  <2> HIDE DEF t, x, z
  <2>15. t - z = x
    BY <2>14
  <2> QED BY <2>14, <2>15 DEF t
<1> QED BY <1>7, <1>8, <1>11 DEF S, N, p, place, own, T

-----------------------------------------------------------------------------
(* Families settled one after another.                                      *)

FairTo(files, name, s) ==
    LET own == Members(files, name) \cap In(files, s)
    IN  own # {} /\ HasRoom(files, name, s, NotEmpty(files, own))

Settled(files, name) ==
    /\ \A i \in Members(files, name) : files[i].split \in Splits
    /\ HeldOut(files, name) => \A i \in Members(files, name) : files[i].split = "ood"
    /\ ~HeldOut(files, name) => \A s \in Three : FairTo(files, name, s)

\* The same files, but for their splits.
Alike(files, new) ==
    /\ DOMAIN new = DOMAIN files
    /\ \A i \in DOMAIN files : new[i].family = files[i].family /\ new[i].rows = files[i].rows

LEMMA AlikeCounts ==
  ASSUME NEW files, NEW new, Alike(files, new)
  PROVE  /\ \A name : /\ Members(new, name) = Members(files, name)
                      /\ HeldOut(new, name) <=> HeldOut(files, name)
         /\ \A i \in DOMAIN files : Size(new, i) = Size(files, i)
         /\ \A S : S \subseteq DOMAIN files =>
                /\ NotEmpty(new, S) = NotEmpty(files, S)
                /\ \A name, s : HasRoom(new, name, s, S) <=> HasRoom(files, name, s, S)
<1>1. ASSUME NEW name PROVE Members(new, name) = Members(files, name)
  BY DEF Members, Alike
<1>2. ASSUME NEW i \in DOMAIN files PROVE Size(new, i) = Size(files, i)
  BY DEF Size, Alike
<1>3. ASSUME NEW S, S \subseteq DOMAIN files PROVE Total(new, S) = Total(files, S)
  <2>1. RowsIn(new, S) = RowsIn(files, S)
    BY <1>3 DEF RowsIn, Alike
  <2> QED BY <2>1 DEF Total
<1>4. ASSUME NEW name, NEW s PROVE Target(new, name, s) = Target(files, name, s)
  <2>1. Members(files, name) \subseteq DOMAIN files
    BY DEF Members
  <2>2. Total(new, Members(new, name)) = Total(files, Members(files, name))
    BY <1>1, <1>3, <2>1
  <2> QED BY <2>2 DEF Target
<1>5. ASSUME NEW S, S \subseteq DOMAIN files PROVE NotEmpty(new, S) = NotEmpty(files, S)
  BY <1>2, <1>5 DEF NotEmpty
<1>6. ASSUME NEW S, S \subseteq DOMAIN files PROVE Smallest(new, S) = Smallest(files, S)
  <2> DEFINE Least(sizes) == CHOOSE n \in sizes : \A k \in sizes : n <= k
             Old == {Size(files, i) : i \in S}
             New == {Size(new, i) : i \in S}
  <2>1. Old = New
    BY <1>2, <1>6
  <2>2. ASSUME NEW any PROVE Smallest(any, S) = Least({Size(any, i) : i \in S})
    <3>1. \A n : (\A i \in S : n <= Size(any, i)) <=> (\A k \in {Size(any, i) : i \in S} : n <= k)
      OBVIOUS
    <3> QED BY <3>1 DEF Smallest
  <2>3. Smallest(files, S) = Least(Old) /\ Smallest(new, S) = Least(New)
    BY <2>2
  <2> HIDE DEF Least, Old, New
  <2> QED BY <2>1, <2>3
<1>7. ASSUME NEW S, S \subseteq DOMAIN files, NEW name, NEW s
      PROVE  HasRoom(new, name, s, S) <=> HasRoom(files, name, s, S)
  BY <1>3, <1>4, <1>6, <1>7 DEF HasRoom
<1>8. ASSUME NEW name PROVE HeldOut(new, name) <=> HeldOut(files, name)
  BY <1>1 DEF HeldOut
<1> QED BY <1>1, <1>2, <1>5, <1>7, <1>8

LEMMA AssignSettles ==
  ASSUME NEW files, NEW schema, FilesRead(files, schema), NEW name, NEW split,
         HeldOut(files, name) => split = [i \in Members(files, name) |-> "ood"],
         ~HeldOut(files, name) =>
             \E o \in Orders(files, Members(files, name)) :
                 split = PlaceOf(o, Greedy(files, name, o), Members(files, name))
  PROVE  LET new == Assigned(files, Members(files, name), split)
         IN  /\ Settled(new, name)
             /\ \A other : (other # name /\ Settled(files, other)) => Settled(new, other)
<1> DEFINE S == Members(files, name)
           new == Assigned(files, S, split)
<1>1. /\ DOMAIN new = DOMAIN files
      /\ \A i \in DOMAIN files :
             /\ new[i].family = files[i].family /\ new[i].rows = files[i].rows
             /\ new[i].split = IF i \in S THEN split[i] ELSE files[i].split
  BY AssignedRead
<1>2. S \subseteq DOMAIN files
  BY DEF Members
<1> HIDE DEF new
<1>3. Alike(files, new)
  BY <1>1 DEF Alike
<1>4. /\ \A any : /\ Members(new, any) = Members(files, any)
                  /\ HeldOut(new, any) <=> HeldOut(files, any)
      /\ \A T : T \subseteq DOMAIN files =>
             /\ NotEmpty(new, T) = NotEmpty(files, T)
             /\ \A any, s : HasRoom(new, any, s, T) <=> HasRoom(files, any, s, T)
  BY <1>3, AlikeCounts
<1>5. "ood" \in Splits /\ Three \subseteq Splits
  BY Names, ThreeSplits
<1>6. Settled(new, name)
  <2>1. CASE HeldOut(files, name)
    <3>1. \A i \in S : new[i].split = "ood"
      BY <1>1, <1>2, <2>1
    <3> QED BY <1>4, <1>5, <2>1, <3>1 DEF Settled
  <2>2. CASE ~HeldOut(files, name)
    <3>1. PICK o \in Orders(files, S) : split = PlaceOf(o, Greedy(files, name, o), S)
      BY <2>2
    <3>2. Cardinality(S) >= 3
      <4>1. ~(Cardinality(S) < 3)
        BY <2>2 DEF HeldOut
      <4>2. Cardinality(S) \in Nat
        BY <1>2, RowsCounted, FS_CardinalityType
      <4> QED BY <4>1, <4>2
    <3>3. ASSUME NEW s \in Three
          PROVE  /\ \A i \in S : split[i] \in Three
                 /\ {i \in S : split[i] = s} # {}
                 /\ HasRoom(files, name, s, NotEmpty(files, {i \in S : split[i] = s}))
      <4> DEFINE place == PlaceOf(o, Greedy(files, name, o), Members(files, name))
                 mine == {i \in Members(files, name) : place[i] = s}
      <4>1. /\ \A i \in Members(files, name) : place[i] \in Three
            /\ mine # {} /\ HasRoom(files, name, s, NotEmpty(files, mine))
        <5>1. Cardinality(Members(files, name)) >= 3
          BY <3>2
        <5>2. o \in Orders(files, Members(files, name))
          BY <3>1
        <5> QED BY ONLY <5>1, <5>2, FilesRead(files, schema), s \in Three, GreedyFair
      <4>2. place = split
        BY <3>1
      <4> HIDE DEF place
      <4> QED BY <4>1, <4>2
    <3>4. ASSUME NEW s \in Three PROVE FairTo(new, name, s)
      <4> DEFINE own == {i \in S : split[i] = s}
      <4>1. Members(new, name) \cap In(new, s) = own
        BY <1>1, <1>2, <1>4 DEF In
      <4>2. own \subseteq DOMAIN files
        BY <1>2
      <4>3. own # {} /\ HasRoom(files, name, s, NotEmpty(files, own))
        BY <3>3
      <4> HIDE DEF own
      <4>4. NotEmpty(files, own) \subseteq DOMAIN files
        BY <4>2 DEF NotEmpty
      <4>5. HasRoom(new, name, s, NotEmpty(new, own))
        BY <1>4, <4>2, <4>3, <4>4
      <4> QED BY <4>1, <4>3, <4>5 DEF FairTo
    <3>5. \A i \in S : new[i].split \in Three
      <4>1. "train" \in Three
        BY DEF Three
      <4> QED BY <1>1, <1>2, <3>3, <4>1
    <3> QED BY <1>4, <1>5, <2>2, <3>4, <3>5 DEF Settled
  <2> QED BY <2>1, <2>2
<1>7. ASSUME NEW other, other # name, Settled(files, other) PROVE Settled(new, other)
  <2> DEFINE M == Members(files, other)
  <2>1. M \subseteq DOMAIN files /\ \A i \in M : i \notin S
    BY <1>7 DEF Members
  <2>2. \A i \in M : new[i].split = files[i].split
    BY <1>1, <2>1
  <2>3. ASSUME NEW s \in Three, FairTo(files, other, s) PROVE FairTo(new, other, s)
    <3> DEFINE own == M \cap In(files, s)
    <3>1. Members(new, other) \cap In(new, s) = own
      BY <1>1, <1>4, <2>1, <2>2 DEF In
    <3>2. own \subseteq DOMAIN files /\ own # {} /\ HasRoom(files, other, s, NotEmpty(files, own))
      BY <2>1, <2>3 DEF FairTo
    <3> HIDE DEF own
    <3>3. NotEmpty(files, own) \subseteq DOMAIN files
      BY <3>2 DEF NotEmpty
    <3>4. HasRoom(new, other, s, NotEmpty(new, own))
      BY <1>4, <3>2, <3>3
    <3> QED BY <3>1, <3>2, <3>4 DEF FairTo
  <2>4. Members(new, other) = M /\ (HeldOut(new, other) <=> HeldOut(files, other))
    BY <1>4
  <2> QED BY <1>7, <2>2, <2>3, <2>4 DEF Settled
<1> QED BY <1>6, <1>7 DEF new

-----------------------------------------------------------------------------
(* Duplicates and columns.                                                  *)

\* Of the splits that hold a row, the one of the first file that has it keeps it, whatever
\* the buckets.
LEMMA SomeSplitKeeps ==
  ASSUME NEW files, NEW schema, FilesRead(files, schema), NEW i \in DOMAIN files,
         files[i].split \in Splits, NEW r \in RowsOf(files[i])
  PROVE  \E s \in Splits :
             /\ r \in Contents(files, s)
             /\ \A t \in Splits \ {s} :
                    r \in Contents(files, t) => FirstFile(files, r, s) < FirstFile(files, r, t)
<1> DEFINE Holds == {s \in Splits : r \in Contents(files, s)}
           FirstIn(s) == FirstFile(files, r, s)
           F == {FirstIn(s) : s \in Holds}
<1>1. DOMAIN files \subseteq Nat
  <2>1. DOMAIN files = 1..Len(files)
    BY RowsCounted
  <2> QED BY <2>1
<1>2. ASSUME NEW s \in Holds PROVE FirstIn(s) \in DOMAIN files /\ files[FirstIn(s)].split = s
  <2> DEFINE H == {j \in In(files, s) : r \in RowsOf(files[j])}
  <2>1. H \subseteq Nat
    BY <1>1 DEF In
  <2>2. H # {}
    BY DEF Contents
  <2>3. PICK n \in H : \A m \in H : n <= m
    <3> HIDE DEF H
    <3> QED BY <2>1, <2>2, LeastNat
  <2>4. /\ n \in In(files, s) /\ r \in RowsOf(files[n])
        /\ \A j \in In(files, s) : j < n => r \notin RowsOf(files[j])
    <3>1. ASSUME NEW j \in In(files, s), j < n, r \in RowsOf(files[j]) PROVE FALSE
      <4>1. j \in H
        BY <3>1
      <4>2. n <= j /\ n \in Nat /\ j \in Nat
        BY <2>1, <2>3, <4>1
      <4> QED BY <3>1, <4>2
    <3> QED BY <3>1
  <2>5. FirstIn(s) \in In(files, s)
    BY <2>4 DEF FirstFile
  <2> QED BY <2>5 DEF In
<1>3. F \subseteq Nat
  BY <1>1, <1>2
<1>4. F # {}
  <2>1. files[i].split \in Holds
    BY DEF Contents, In
  <2> QED BY <2>1
<1>5. PICK n \in F : \A m \in F : n <= m
  <2> HIDE DEF F
  <2> QED BY <1>3, <1>4, LeastNat
<1>6. PICK s \in Holds : n = FirstIn(s)
  OBVIOUS
<1>7. ASSUME NEW t \in Splits \ {s}, r \in Contents(files, t) PROVE FirstIn(s) < FirstIn(t)
  <2>1. t \in Holds
    BY <1>7
  <2>2. FirstIn(t) \in F /\ FirstIn(s) \in F
    BY <2>1
  <2>3. FirstIn(s) <= FirstIn(t) /\ FirstIn(s) \in Nat /\ FirstIn(t) \in Nat
    BY <1>3, <1>5, <1>6, <2>2
  <2>4. FirstIn(s) # FirstIn(t)
    BY <1>2, <1>7, <2>1
  <2> HIDE DEF FirstIn
  <2> QED BY <2>3, <2>4
<1> QED BY <1>7

\* What stays of two rows that differ still differs, if the columns left out are constant.
WhatIsLeft(r, columns) == <<r.family, r.scenario, [c \in columns |-> r.cells[c]]>>
RowsApart(rows, columns) == Cardinality({WhatIsLeft(r, columns) : r \in rows}) = Cardinality(rows)

LEMMA ConstantIsSpare ==
  ASSUME NEW files, NEW schema, FilesRead(files, schema), NEW s,
         NEW rows, rows \subseteq Contents(files, s)
  PROVE  RowsApart(rows, schema \ Constant(schema, rows))
<1> DEFINE columns == schema \ Constant(schema, rows)
           T == {WhatIsLeft(r, columns) : r \in rows}
           f == [r \in rows |-> WhatIsLeft(r, columns)]
<1>1. IsFiniteSet(rows)
  BY ContentsFinite, Parts
<1>2. ASSUME NEW r \in rows
      PROVE  /\ r = [family |-> r.family, scenario |-> r.scenario, cells |-> r.cells]
             /\ r.cells = [c \in schema |-> r.cells[c]]
  <2>1. r \in Contents(files, s)
    OBVIOUS
  <2>2. PICK i \in In(files, s) : r \in RowsOf(files[i])
    BY <2>1 DEF Contents
  <2>3. PICK k \in DOMAIN files[i].rows : r = Row(files[i], k)
    BY <2>2 DEF RowsOf
  <2>4. i \in 1..Len(files)
    BY <2>2, RowsCounted DEF In
  <2>5. files[i].rows[k] = [c \in schema |-> files[i].rows[k][c]]
    BY <2>4 DEF FilesRead, FileRead
  <2> DEFINE cells == files[i].rows[k]
  <2>6. r = [family |-> files[i].family, scenario |-> files[i].scenario, cells |-> cells]
    BY <2>3 DEF Row
  <2> HIDE DEF cells
  <2>7. r.cells = cells /\ r = [family |-> r.family, scenario |-> r.scenario, cells |-> r.cells]
    BY <2>6
  <2> QED BY <2>5, <2>7 DEF cells
<1>3. ASSUME NEW r \in rows, NEW q \in rows, WhatIsLeft(r, columns) = WhatIsLeft(q, columns) PROVE r = q
  <2>1. /\ r.family = q.family /\ r.scenario = q.scenario
        /\ [c \in columns |-> r.cells[c]] = [c \in columns |-> q.cells[c]]
    BY <1>3 DEF WhatIsLeft
  <2>2. ASSUME NEW c \in schema PROVE r.cells[c] = q.cells[c]
    <3>1. CASE c \in columns
      <4> HIDE DEF columns
      <4>1. [d \in columns |-> r.cells[d]][c] = [d \in columns |-> q.cells[d]][c]
        BY <2>1
      <4> QED BY <3>1, <4>1
    <3>2. CASE c \notin columns
      BY <3>2 DEF Constant
    <3> QED BY <3>1, <3>2
  <2>3. r.cells = q.cells
    <3>1. [c \in schema |-> r.cells[c]] = [c \in schema |-> q.cells[c]]
      BY <2>2
    <3>2. r.cells = [c \in schema |-> r.cells[c]] /\ q.cells = [c \in schema |-> q.cells[c]]
      BY <1>2
    <3> QED BY <3>1, <3>2
  <2> QED BY <1>2, <2>1, <2>3
<1> HIDE DEF columns
<1>4. f \in [rows -> T] /\ \A r \in rows : f[r] = WhatIsLeft(r, columns)
  OBVIOUS
<1>5. f \in Bijection(rows, T)
  <2>1. f \in Injection(rows, T)
    BY <1>3, <1>4 DEF Injection, IsInjective
  <2>2. f \in Surjection(rows, T)
    BY <1>4 DEF Surjection
  <2> QED BY <2>1, <2>2 DEF Bijection
<1> HIDE DEF f, T
<1>6. Cardinality(T) = Cardinality(rows)
  BY <1>1, <1>5, FS_Bijection DEF ExistsBijection
<1> QED BY <1>6 DEF RowsApart, T, columns

\* A finished dataset, whatever it is written to.
WholeDataset(rows, columns, files) ==
    /\ RowsApart(rows["train"], columns)
    /\ \A s \in Splits : rows[s] \subseteq Contents(files, s)
    /\ \A i \in DOMAIN files : RowsOf(files[i]) \subseteq UNION Range(rows)
    /\ \A i \in DOMAIN files : Settled(files, files[i].family)

LEMMA WholeDatasetMeans ==
  ASSUME data.report # None => WholeDataset(data.rows, data.columns, data.manifest)
  PROVE  DatasetSound
<1> SUFFICES ASSUME data.report # None PROVE DatasetSound
  BY DEF DatasetSound
<1> DEFINE files == data.manifest
           K(r) == <<r.family, r.scenario, [c \in data.columns |-> r.cells[c]]>>
           Least(S) == CHOOSE n \in {Size(files, i) : i \in S} : \A i \in S : n <= Size(files, i)
           Fair(name, s) ==
               LET own == Members(files, name) \cap In(files, s)
                   S == {i \in own : Size(files, i) > 0}
               IN  /\ own # {}
                   /\ Cardinality(S) > 1 => Total(files, S) - Least(S) < Target(files, name, s)
<1>1. WholeDataset(data.rows, data.columns, files)
  OBVIOUS
<1>2. Cardinality({K(r) : r \in data.rows["train"]}) = Cardinality(data.rows["train"])
  BY <1>1 DEF WholeDataset, RowsApart, WhatIsLeft
<1>3. ASSUME NEW i \in DOMAIN files
      PROVE  IF HeldOut(files, files[i].family) THEN files[i].split = "ood"
             ELSE \A s \in Range(InDistribution) : Fair(files[i].family, s)
  <2> DEFINE name == files[i].family
  <2>1. Settled(files, name) /\ i \in Members(files, name)
    BY <1>1 DEF WholeDataset, Members
  <2>2. CASE HeldOut(files, name)
    BY <2>1, <2>2 DEF Settled
  <2>3. CASE ~HeldOut(files, name)
    <3>1. ASSUME NEW s \in Three PROVE Fair(name, s)
      <4>1. FairTo(files, name, s)
        BY <2>1, <2>3 DEF Settled
      <4> QED BY <4>1 DEF FairTo, HasRoom, NotEmpty, Smallest
    <3> HIDE DEF Fair
    <3> QED BY <2>3, <3>1, ThreeSplits
  <2> QED BY <2>2, <2>3
<1>4. /\ \A s \in Splits : data.rows[s] \subseteq Contents(files, s)
      /\ \A i \in DOMAIN files : RowsOf(files[i]) \subseteq UNION Range(data.rows)
  BY <1>1 DEF WholeDataset
<1> QED BY <1>2, <1>3, <1>4 DEF DatasetSound

-----------------------------------------------------------------------------
(* The dataset.  DatasetSound speaks of a finished one; it holds because of   *)
(* what the steps before the report have made so.  DatasetInv follows them:   *)
(* the families settled so far, the rows that stay in some split, and what is  *)
(* written of them.                                                         *)

FamiliesSettled ==
    step = "assign" =>
        /\ work.at \in 1..(Len(FamilyOrder) + 1)
        /\ \A k \in 1..(work.at - 1) : Settled(work.files, FamilyOrder[k])

RowsStaged ==
    step = "trim" =>
        /\ work = [schema |-> work.schema, files |-> work.files, stage |-> work.stage]
        /\ work.stage = [s \in Splits |-> work.stage[s]]
        /\ FilesRead(work.files, work.schema)
        /\ \A s \in Splits : work.stage[s] \subseteq Contents(work.files, s)
        /\ \A i \in DOMAIN work.files :
               /\ RowsOf(work.files[i]) \subseteq UNION Range(work.stage)
               /\ Settled(work.files, work.files[i].family)

SplitsWritten ==
    step = "write" =>
        /\ WholeDataset(work.stage, work.columns, work.files)
        /\ work.stage = [s \in Splits |-> work.stage[s]]
        /\ work.at \in 1..5
        /\ \A j \in 1..(work.at - 1) : data.rows[SplitNames[j]] = work.stage[SplitNames[j]]

DatasetInv ==
    /\ (step = "report" \/ data.report # None) =>
           WholeDataset(data.rows, data.columns, data.manifest)
    /\ data.rows = [s \in Splits |-> data.rows[s]]
    /\ FamiliesSettled /\ RowsStaged /\ SplitsWritten

LEMMA DatasetInvMeans == DatasetInv => DatasetSound
<1> SUFFICES ASSUME DatasetInv PROVE DatasetSound
  OBVIOUS
<1>1. data.report # None => WholeDataset(data.rows, data.columns, data.manifest)
  BY DEF DatasetInv
<1> QED BY <1>1, WholeDatasetMeans

\* The other scripts leave it alone.
LEMMA DatasetFrame ==
    ASSUME DatasetInv, data' = data, step' \notin {"assign", "trim", "write", "report"}
    PROVE  DatasetInv'
<1>1. FamiliesSettled' /\ RowsStaged' /\ SplitsWritten'
  BY DEF FamiliesSettled, RowsStaged, SplitsWritten
<1>2. data'.report # None => WholeDataset(data'.rows, data'.columns, data'.manifest)
  BY DEF DatasetInv
<1>3. (data.rows)' = [s \in Splits |-> (data.rows)'[s]]
  BY DEF DatasetInv
<1> QED BY <1>1, <1>2, <1>3 DEF DatasetInv

LEMMA AssignKeepsDataset ==
    ASSUME ReleaseInv, RowsFinite, DatasetInv, AssignFamily
    PROVE  DatasetInv'
<1> DEFINE name == FamilyOrder[work.at]
           files == work.files
           S == Members(files, name)
           Put(split) == work' = [work EXCEPT !.at = @ + 1, !.files = Assigned(@, S, split)]
<1>1. /\ step = "assign" /\ step' = "assign" /\ data' = data /\ work.at <= Len(FamilyOrder)
  BY DEF AssignFamily, Go, prepVars
<1>2. /\ work = [schema |-> work.schema, files |-> files, at |-> work.at]
      /\ FilesRead(files, work.schema)
  BY <1>1 DEF RowsFinite
<1>3. /\ work.at \in 1..(Len(FamilyOrder) + 1) /\ Len(FamilyOrder) \in Nat
      /\ \A k \in 1..(work.at - 1) : Settled(files, FamilyOrder[k])
  BY <1>1, CorporaAssumption DEF DatasetInv, FamiliesSettled
<1>4. PICK split : /\ Put(split)
                   /\ HeldOut(files, name) => split = [i \in S |-> "ood"]
                   /\ ~HeldOut(files, name) =>
                          \E o \in Orders(files, S) : split = PlaceOf(o, Greedy(files, name, o), S)
  <2>1. CASE HeldOut(files, name)
    <3>1. Put([i \in S |-> "ood"])
      BY <2>1 DEF AssignFamily, Go, Assigned
    <3> QED BY <2>1, <3>1
  <2>2. CASE ~HeldOut(files, name)
    <3>1. \E o \in Orders(files, S) : Put(PlaceOf(o, Greedy(files, name, o), S))
      BY <2>2 DEF AssignFamily, Go, Assigned, PlaceOf
    <3> HIDE DEF S, Put
    <3> QED BY <2>2, <3>1
  <2> QED BY <2>1, <2>2
<1> DEFINE new == Assigned(files, S, split)
<1>5. work'.files = new /\ work'.at = work.at + 1
  <2>1. Put(split)
    BY <1>4
  <2> QED BY <1>2, <2>1
<1>6. /\ Settled(new, name)
      /\ \A other : (other # name /\ Settled(files, other)) => Settled(new, other)
  <2> HIDE DEF Put, name, files
  <2> QED BY <1>2, <1>4, AssignSettles
<1> HIDE DEF new
<1>7. ASSUME NEW k \in 1..work.at PROVE Settled(new, FamilyOrder[k])
  <2>1. CASE k = work.at
    BY <1>6, <2>1
  <2>2. CASE k # work.at
    <3>1. k \in 1..(work.at - 1)
      BY <1>3, <2>2
    <3>2. Settled(files, FamilyOrder[k])
      BY <1>3, <3>1
    <3> HIDE DEF name, files
    <3>3. FamilyOrder[k] = name \/ FamilyOrder[k] # name
      OBVIOUS
    <3> QED BY <1>6, <3>2, <3>3
  <2> QED BY <2>1, <2>2
<1>8. FamiliesSettled'
  <2>1. work'.at \in 1..(Len(FamilyOrder) + 1) /\ work'.at - 1 = work.at
    BY <1>1, <1>3, <1>5
  <2>2. \A k \in 1..(work'.at - 1) : Settled(work'.files, FamilyOrder[k])
    BY <1>5, <1>7, <2>1
  <2> QED BY <2>1, <2>2 DEF FamiliesSettled
<1>9. RowsStaged' /\ SplitsWritten'
  BY <1>1 DEF RowsStaged, SplitsWritten
<1>10. data.report = None /\ data.rows = [s \in Splits |-> data.rows[s]]
  BY <1>1 DEF ReleaseInv, ReportCounts, PrepSteps, DatasetInv
<1> QED BY <1>1, <1>8, <1>9, <1>10 DEF DatasetInv

LEMMA DedupeKeepsDataset ==
    ASSUME ReleaseInv, RowsFinite, DatasetInv, Dedupe
    PROVE  DatasetInv'
<1> DEFINE files == work.files
           in == [s \in Splits |-> Contents(files, s)]
           Both == {r \in UNION Range(in) : Cardinality({s \in DOMAIN in : r \in in[s]}) > 1}
           Copies == {p \in Both \X DOMAIN in : p[1] \in in[p[2]]}
           Stays(bucket, r, s) == \A t \in DOMAIN in \ {s} :
               (r \in in[t] /\ bucket[<<r, s>>] = bucket[<<r, t>>])
                   => FirstFile(files, r, s) < FirstFile(files, r, t)
           Stage(bucket) == [s \in DOMAIN in |-> {r \in in[s] : Stays(bucket, r, s)}]
<1>1. /\ step = "assign" /\ step' = "trim" /\ data' = data /\ work.at > Len(FamilyOrder)
      /\ \E bucket \in [Copies -> Buckets] :
             work' = [schema |-> work.schema, files |-> files, stage |-> Stage(bucket)]
  BY DEF Dedupe, Go, prepVars
<1>2. FilesRead(files, work.schema)
  BY <1>1 DEF RowsFinite
<1>3. PICK bucket : work' = [schema |-> work.schema, files |-> files, stage |-> Stage(bucket)]
  <2> HIDE DEF Stage, files, Copies
  <2> QED BY <1>1
<1> DEFINE stage == Stage(bucket)
<1>4. ASSUME NEW i \in DOMAIN files PROVE Settled(files, files[i].family)
  <2>1. /\ work.at = Len(FamilyOrder) + 1 /\ Len(FamilyOrder) \in Nat
        /\ \A k \in 1..(work.at - 1) : Settled(files, FamilyOrder[k])
    BY <1>1, CorporaAssumption DEF DatasetInv, FamiliesSettled
  <2>2. i \in 1..Len(files)
    BY <1>2, RowsCounted
  <2>3. files[i].family \in Range(FamilyOrder)
    BY <1>2, <2>2 DEF FilesRead, FileRead
  <2>4. PICK k \in DOMAIN FamilyOrder : files[i].family = FamilyOrder[k]
    BY <2>3 DEF Range
  <2>5. DOMAIN FamilyOrder = 1..Len(FamilyOrder)
    BY CorporaAssumption
  <2> QED BY <2>1, <2>4, <2>5
<1>5. stage = [s \in Splits |-> stage[s]]
  OBVIOUS
<1>6. \A s \in Splits : stage[s] \subseteq Contents(files, s)
  OBVIOUS
<1>7. ASSUME NEW i \in DOMAIN files PROVE RowsOf(files[i]) \subseteq UNION Range(stage)
  <2> SUFFICES ASSUME NEW r \in RowsOf(files[i]) PROVE r \in UNION Range(stage)
    OBVIOUS
  <2>1. files[i].split \in Splits
    <3>1. i \in Members(files, files[i].family)
      BY DEF Members
    <3> QED BY <1>4, <3>1 DEF Settled
  <2>2. PICK s \in Splits :
            /\ r \in Contents(files, s)
            /\ \A t \in Splits \ {s} :
                   r \in Contents(files, t) => FirstFile(files, r, s) < FirstFile(files, r, t)
    <3> HIDE DEF files
    <3> QED BY <1>2, <2>1, SomeSplitKeeps
  <2>3. r \in in[s] /\ Stays(bucket, r, s)
    BY <2>2
  <2>4. r \in stage[s]
    BY <2>3
  <2> HIDE DEF stage
  <2>5. s \in DOMAIN stage
    BY <1>5
  <2> QED BY <2>4, <2>5 DEF Range
<1> HIDE DEF Stage, files
<1>8. work' = [schema |-> work'.schema, files |-> work'.files, stage |-> work'.stage]
      /\ work'.schema = work.schema /\ work'.files = files /\ work'.stage = stage
  BY <1>3
<1>9. RowsStaged'
  BY <1>2, <1>4, <1>5, <1>6, <1>7, <1>8 DEF RowsStaged
<1>10. FamiliesSettled' /\ SplitsWritten'
  BY <1>1 DEF FamiliesSettled, SplitsWritten
<1>11. data.report = None /\ data.rows = [s \in Splits |-> data.rows[s]]
  BY <1>1 DEF ReleaseInv, ReportCounts, PrepSteps, DatasetInv
<1> QED BY <1>1, <1>9, <1>10, <1>11 DEF DatasetInv

LEMMA TrimKeepsDataset ==
    ASSUME ReleaseInv, DatasetInv, Trim
    PROVE  DatasetInv'
<1>1. step = "trim" /\ data' = data
  BY DEF Trim, prepVars
<1>2. CASE Raise("preprocess")
  BY <1>1, <1>2, DatasetFrame DEF Raise
<1>3. CASE ~Raise("preprocess")
  <2> DEFINE stage == work.stage
             columns == work.schema \ Constant(work.schema, stage["train"])
             files == work.files
  <2>1. /\ step' = "write"
        /\ work' = [columns |-> columns, files |-> files, stage |-> stage, at |-> 1]
    BY <1>3 DEF Trim, Go
  <2>2. /\ stage = [s \in Splits |-> stage[s]]
        /\ FilesRead(files, work.schema)
        /\ \A s \in Splits : stage[s] \subseteq Contents(files, s)
        /\ \A i \in DOMAIN files :
               RowsOf(files[i]) \subseteq UNION Range(stage) /\ Settled(files, files[i].family)
    BY <1>1 DEF DatasetInv, RowsStaged
  <2> HIDE DEF stage, files
  <2>3. RowsApart(stage["train"], columns)
    <3>1. "train" \in Splits
      BY Names
    <3>2. stage["train"] \subseteq Contents(files, "train")
      BY <2>2, <3>1
    <3> QED BY <2>2, <3>2, ConstantIsSpare
  <2> HIDE DEF columns
  <2>4. WholeDataset(stage, columns, files)
    BY <2>2, <2>3 DEF WholeDataset
  <2>5. work'.columns = columns /\ work'.files = files /\ work'.stage = stage /\ work'.at = 1
    BY <2>1
  <2>6. SplitsWritten'
    BY <2>2, <2>4, <2>5 DEF SplitsWritten
  <2>7. FamiliesSettled' /\ RowsStaged'
    BY <2>1 DEF FamiliesSettled, RowsStaged
  <2>8. data.report = None /\ data.rows = [s \in Splits |-> data.rows[s]]
    BY <1>1 DEF ReleaseInv, ReportCounts, PrepSteps, DatasetInv
  <2> QED BY <1>1, <2>1, <2>6, <2>7, <2>8 DEF DatasetInv
<1> QED BY <1>2, <1>3

LEMMA WriteKeepsDataset ==
    ASSUME ReleaseInv, RowsFinite, DatasetInv, WriteSplit
    PROVE  DatasetInv'
<1> DEFINE s == SplitNames[work.at]
<1>1. step = "write" /\ work.at <= 4
  BY Names DEF WriteSplit
<1>2. CASE Raise("preprocess")
  <2>1. data' = data
    BY <1>1, <1>2 DEF WriteSplit, prepVars, Raise, Go
  <2> QED BY <1>2, <2>1, DatasetFrame DEF Raise
<1>3. CASE ~Raise("preprocess")
  <2>1. /\ step' = "write" /\ work' = [work EXCEPT !.at = @ + 1]
        /\ data' = [data EXCEPT !.rows[s] = work.stage[s]]
    BY <1>3 DEF WriteSplit, Go
  <2>2. work = [columns |-> work.columns, files |-> work.files, stage |-> work.stage, at |-> work.at]
    BY <1>1 DEF RowsFinite
  <2>3. /\ WholeDataset(work.stage, work.columns, work.files)
        /\ work.stage = [t \in Splits |-> work.stage[t]]
        /\ work.at \in 1..4
        /\ \A j \in 1..(work.at - 1) : data.rows[SplitNames[j]] = work.stage[SplitNames[j]]
    BY <1>1 DEF DatasetInv, SplitsWritten
  <2>4. /\ work'.stage = work.stage /\ work'.columns = work.columns /\ work'.files = work.files
        /\ work'.at = work.at + 1
    BY <2>1, <2>2
  <2>5. /\ data = [rows |-> data.rows, columns |-> data.columns, manifest |-> data.manifest,
                   report |-> data.report]
        /\ data.report = None /\ data.rows = [t \in Splits |-> data.rows[t]]
    BY <1>1 DEF ReleaseInv, LayoutsKept, ReportCounts, PrepSteps, DatasetInv
  <2> HIDE DEF s
  <2>6. data'.rows = [data.rows EXCEPT ![s] = work.stage[s]] /\ data'.report = None
    BY <2>1, <2>5
  <2>7. data'.rows = [t \in Splits |-> data'.rows[t]]
        /\ s \in Splits /\ data'.rows[s] = work.stage[s]
        /\ \A t \in Splits \ {s} : data'.rows[t] = data.rows[t]
    <3>1. s \in Splits
      BY <2>3, Names DEF s
    <3> DEFINE rows == data.rows
               new == [rows EXCEPT ![s] = work.stage[s]]
    <3>2. rows = [t \in Splits |-> rows[t]]
      BY <2>5
    <3> HIDE DEF rows
    <3>3. new = [t \in Splits |-> new[t]] /\ new[s] = work.stage[s]
          /\ \A t \in Splits \ {s} : new[t] = rows[t]
      BY <3>1, <3>2
    <3> QED BY <2>6, <3>1, <3>3 DEF rows
  <2>8. ASSUME NEW j \in 1..(work'.at - 1)
        PROVE  data'.rows[SplitNames[j]] = work'.stage[SplitNames[j]]
    <3>1. j \in 1..4 /\ work.at \in 1..4 /\ (j = work.at \/ j \in 1..(work.at - 1))
      BY <2>3, <2>4
    <3>2. CASE j = work.at
      BY <2>4, <2>7, <3>2 DEF s
    <3>3. CASE j \in 1..(work.at - 1)
      <4>1. SplitNames[j] \in Splits /\ SplitNames[j] # s
        BY <2>3, <3>1, <3>3, Names DEF s
      <4> QED BY <2>3, <2>4, <2>7, <3>3, <4>1
    <3> QED BY <3>1, <3>2, <3>3
  <2>9. SplitsWritten'
    BY <2>3, <2>4, <2>8 DEF SplitsWritten
  <2>10. FamiliesSettled' /\ RowsStaged'
    BY <2>1 DEF FamiliesSettled, RowsStaged
  <2> QED BY <2>1, <2>6, <2>7, <2>9, <2>10 DEF DatasetInv
<1> QED BY <1>2, <1>3

LEMMA ManifestsKeepDataset ==
    ASSUME ReleaseInv, DatasetInv, WriteManifests
    PROVE  DatasetInv'
<1>1. /\ step = "write" /\ work.at > 4 /\ step' = "report"
      /\ data' = [data EXCEPT !.manifest = work.files, !.columns = work.columns]
  BY Names DEF WriteManifests, Go
<1>2. /\ WholeDataset(work.stage, work.columns, work.files)
      /\ work.stage = [s \in Splits |-> work.stage[s]]
      /\ work.at = 5
      /\ \A j \in 1..(work.at - 1) : data.rows[SplitNames[j]] = work.stage[SplitNames[j]]
  BY <1>1 DEF DatasetInv, SplitsWritten
<1>3. /\ data = [rows |-> data.rows, columns |-> data.columns, manifest |-> data.manifest,
                 report |-> data.report]
      /\ data.report = None /\ data.rows = [s \in Splits |-> data.rows[s]]
  BY <1>1 DEF ReleaseInv, LayoutsKept, ReportCounts, PrepSteps, DatasetInv
<1>4. data'.rows = data.rows /\ data'.columns = work.columns /\ data'.manifest = work.files
      /\ data'.report = None
  BY <1>1, <1>3
<1>5. data.rows = work.stage
  <2>1. ASSUME NEW s \in Splits PROVE data.rows[s] = work.stage[s]
    <3>1. PICK j \in 1..4 : s = SplitNames[j]
      BY Names
    <3> QED BY <1>2, <3>1
  <2> QED BY <1>2, <1>3, <2>1
<1>6. WholeDataset(data'.rows, data'.columns, data'.manifest)
  BY <1>2, <1>4, <1>5
<1>7. FamiliesSettled' /\ RowsStaged' /\ SplitsWritten'
  BY <1>1 DEF FamiliesSettled, RowsStaged, SplitsWritten
<1>8. data'.rows = [s \in Splits |-> data'.rows[s]]
  BY <1>3, <1>4
<1> QED BY <1>6, <1>7, <1>8 DEF DatasetInv

LEMMA ReportKeepsDataset ==
    ASSUME ReleaseInv, DatasetInv, WriteReport
    PROVE  DatasetInv'
<1>1. step = "report" /\ step' = "idle" /\ data' = [data EXCEPT !.report = Counts(data.rows)]
  BY DEF WriteReport, Complete
<1>2. /\ data = [rows |-> data.rows, columns |-> data.columns, manifest |-> data.manifest,
                 report |-> data.report]
      /\ data.rows = [s \in Splits |-> data.rows[s]]
      /\ WholeDataset(data.rows, data.columns, data.manifest)
  BY <1>1 DEF ReleaseInv, LayoutsKept, DatasetInv
<1>3. data'.rows = data.rows /\ data'.columns = data.columns /\ data'.manifest = data.manifest
  BY <1>1, <1>2
<1>4. FamiliesSettled' /\ RowsStaged' /\ SplitsWritten'
  BY <1>1 DEF FamiliesSettled, RowsStaged, SplitsWritten
<1>5. WholeDataset(data'.rows, data'.columns, data'.manifest)
      /\ data'.rows = [s \in Splits |-> data'.rows[s]]
  BY <1>2, <1>3
<1> QED BY <1>4, <1>5 DEF DatasetInv

LEMMA PreprocessKeepsDataset ==
    ASSUME ReleaseInv, RowsFinite, DatasetInv, PreprocessNext
    PROVE  DatasetInv'
<1>1. CASE BeginPreprocess
  <2>1. data' = NoData /\ step' = "clean"
    BY <1>1 DEF BeginPreprocess, Begin
  <2>2. NoData.report = None /\ NoData.rows = [s \in Splits |-> NoData.rows[s]]
    BY DEF NoData
  <2>3. FamiliesSettled' /\ RowsStaged' /\ SplitsWritten'
    BY <2>1 DEF FamiliesSettled, RowsStaged, SplitsWritten
  <2> QED BY <2>1, <2>2, <2>3 DEF DatasetInv
<1>2. CASE CleanFiles
  <2>1. step = "clean" /\ data' = data
    BY <1>2 DEF CleanFiles, prepVars
  <2>2. CASE step' # "assign"
    <3>1. step' = "raised"
      BY <1>2, <2>2 DEF CleanFiles, Raise, Go
    <3> QED BY <2>1, <3>1, DatasetFrame
  <2>3. CASE step' = "assign"
    <3>1. work'.at = 1
      BY <1>2, <2>1, <2>3, FilesCleaned DEF RowsFinite
    <3>2. Len(FamilyOrder) \in Nat
      BY CorporaAssumption
    <3>3. work'.at \in 1..(Len(FamilyOrder) + 1) /\ 1..(work'.at - 1) = {}
      BY <3>1, <3>2
    <3>4. FamiliesSettled'
      BY <3>3 DEF FamiliesSettled
    <3>5. RowsStaged' /\ SplitsWritten'
      BY <2>3 DEF RowsStaged, SplitsWritten
    <3>6. data.report = None /\ data.rows = [s \in Splits |-> data.rows[s]]
      BY <2>1 DEF ReleaseInv, ReportCounts, PrepSteps, DatasetInv
    <3> QED BY <2>1, <2>3, <3>4, <3>5, <3>6 DEF DatasetInv
  <2> QED BY <2>2, <2>3
<1> QED
  BY <1>1, <1>2, AssignKeepsDataset, DedupeKeepsDataset, TrimKeepsDataset, WriteKeepsDataset,
     ManifestsKeepDataset, ReportKeepsDataset DEF PreprocessNext

\* No other script writes the dataset or stands where the preprocessing stands.
LEMMA OthersFrame ==
    ASSUME DatasetInv,
           \/ ViewNext \/ KaggleNext \/ TrainNext
           \/ BeginFamily \/ BeginFamilyKernel \/ FitFamily \/ WriteOracle \/ FitMulticlass
           \/ BeginPackaging \/ Package \/ BeginGated \/ EvaluateGated
    PROVE  DatasetInv'
<1> USE DEF prepVars, Begin, Go, Complete, Raise
<1>1. CASE ViewNext
  <2>1. data' = data /\ step' \in {"raised", "idle", "derive", "index"}
    BY <1>1 DEF ViewNext, BeginViews, DeriveSplit, CloseView, WriteIndex
  <2> QED BY <2>1, DatasetFrame
<1>2. CASE KaggleNext
  <2>1. data' = data
        /\ step' \in {"raised", "idle", "splits", "manifests", "metadata", "stream", "fit kernel",
                      "evaluate kernel", "fit finalist", "evaluate finalist"}
    <3>1. CASE BeginStaging \/ LinkSplits \/ LinkManifests \/ WriteMetadata \/ Publish
      BY <3>1 DEF BeginStaging, LinkSplits, LinkManifests, WriteMetadata, Publish
    <3>2. CASE BeginBenchmark \/ BeginPromotion
      BY <3>2 DEF BeginBenchmark, BeginPromotion
    <3>3. CASE FitStreaming \/ FitSampled \/ EvaluateKernel \/ FitFinalist \/ EvaluateFinalist
      BY <3>3 DEF FitStreaming, FitSampled, EvaluateKernel, FitFinalist, EvaluateFinalist, Fit
    <3> QED BY <1>2, <3>1, <3>2, <3>3 DEF KaggleNext
  <2> QED BY <2>1, DatasetFrame
<1>3. CASE TrainNext
  <2>1. data' = data
        /\ step' \in {"raised", "idle", "fit", "training", "summary", "baseline", "score baseline",
                      "evaluate", "trials"}
    <3>1. CASE BeginRelease \/ FitRelease \/ WriteTraining \/ WriteSummary
      BY <3>1 DEF BeginRelease, FitRelease, WriteTraining, WriteSummary
    <3>2. CASE BeginBaselines \/ FitBaseline \/ ScoreBaseline
      BY <3>2 DEF BeginBaselines, FitBaseline, ScoreBaseline
    <3>3. CASE BeginThresholds \/ WriteSelection
      BY <3>3 DEF BeginThresholds, WriteSelection
    <3>4. CASE BeginTuning \/ BeginSearch \/ RunTrial \/ RunKernelTrial \/ FinishTuning
      BY <3>4 DEF BeginTuning, BeginSearch, RunTrial, RunKernelTrial, FinishTuning
    <3> QED BY <1>3, <3>1, <3>2, <3>3, <3>4 DEF TrainNext
  <2> QED BY <2>1, DatasetFrame
<1>4. CASE BeginFamily \/ BeginFamilyKernel \/ FitFamily \/ WriteOracle \/ FitMulticlass
  <2>1. data' = data /\ step' \in {"raised", "idle", "family", "oracle"}
    BY <1>4 DEF BeginFamily, BeginFamilyKernel, FitFamily, WriteOracle, FitMulticlass
  <2> QED BY <2>1, DatasetFrame
<1>5. CASE BeginPackaging \/ Package \/ BeginGated \/ EvaluateGated
  <2>1. data' = data /\ step' \in {"raised", "idle", "package", "gated"}
    BY <1>5 DEF BeginPackaging, Package, BeginGated, EvaluateGated
  <2> QED BY <2>1, DatasetFrame
<1> QED BY <1>1, <1>2, <1>3, <1>4, <1>5

LEMMA DatasetInit == Init => DatasetInv
<1> SUFFICES ASSUME Init PROVE DatasetInv
  OBVIOUS
<1>1. step = "idle" /\ data = NoData
  BY DEF Init, PrepInit
<1>2. NoData.report = None /\ NoData.rows = [s \in Splits |-> NoData.rows[s]]
  BY DEF NoData
<1> QED BY <1>1, <1>2 DEF DatasetInv, FamiliesSettled, RowsStaged, SplitsWritten

LEMMA DatasetStep == ReleaseInv /\ RowsFinite /\ DatasetInv /\ [Next]_vars => DatasetInv'
<1> SUFFICES ASSUME ReleaseInv, RowsFinite, DatasetInv, [Next]_vars PROVE DatasetInv'
  OBVIOUS
<1>1. CASE PreprocessNext
  BY <1>1, PreprocessKeepsDataset
<1>2. CASE (Exit \/ Kill) /\ UNCHANGED <<prepVars, viewVars, kaggleVars, trainVars, bundle>>
  <2>1. data' = data /\ step' = "idle"
    BY <1>2 DEF Exit, Kill, prepVars
  <2> QED BY <2>1, DatasetFrame
<1>3. CASE UNCHANGED vars
  <2>1. UNCHANGED <<data, step, work>>
    BY <1>3 DEF vars, prepVars, runVars
  <2>2. FamiliesSettled' /\ RowsStaged' /\ SplitsWritten'
    BY <2>1 DEF DatasetInv, FamiliesSettled, RowsStaged, SplitsWritten
  <2> QED BY <2>1, <2>2 DEF DatasetInv
<1> QED BY <1>1, <1>2, <1>3, OthersFrame DEF Next

\* A finished dataset is sound, for any corpora, families and buckets: rows of train stay
\* apart in the columns that are left, no clean row is lost and none is in a split it has no
\* file in, and every family is held out as a whole or shared out by the greedy draw, no split
\* having had its share before the last of its files.
THEOREM DatasetIsSound == Spec => []DatasetSound
<1>1. Init => SelectionInv /\ DatasetInv
  BY SelectionInit, DatasetInit
<1>2. ReleaseInv /\ SelectionInv /\ DatasetInv /\ [Next]_vars => (SelectionInv /\ DatasetInv)'
  BY SelectionStep, DatasetStep DEF SelectionInv
<1>3. DatasetInv => DatasetSound
  BY DatasetInvMeans
<1> QED BY <1>1, <1>2, <1>3, ReleaseAlways, PTL DEF Spec

-----------------------------------------------------------------------------
(* Why scripts fail.  ScriptsFailForCause is not inductive: that a script has  *)
(* what it needs follows from what all before it have made of the corpus.     *)
(* CauseInv adds, for a corpus the scripts are meant for: what the             *)
(* preprocessing has in memory at every step, from the files as they were      *)
(* read, over the files that open the splits, to the rows and columns that are *)
(* left; that a dataset that is up to date has rows of every kind in every      *)
(* split (DataReady); that products that are up to date are there and have      *)
(* the columns of the dataset (ProductsReady); and that a sample lacks benign   *)
(* rows only if it lacks attacks (SamplesReady).                               *)

\* The input is a corpus the scripts are meant for.
Meant == corpus \in Corpora /\ SoundCorpus(corpus)

\* The files of a corpus as they were read.
ReadFrom(files, c) ==
    /\ files = [i \in DOMAIN c |-> files[i]]
    /\ \A i \in DOMAIN c :
           files[i] = [family |-> c[i].family, scenario |-> c[i].scenario, rows |-> Cleaned(c[i]),
                       split |-> files[i].split]

\* The files of a family are in the three splits, and one of the three largest opened each,
\* the largest train.
Opened(files, name) ==
    /\ \A i \in Members(files, name) : files[i].split \in Three
    /\ \A s \in Three : \E i \in Members(files, name) :
           /\ files[i].split = s /\ Cardinality(Larger(files, i)) < 3
           /\ s = "train" => Larger(files, i) = {}

\* Rows, and then a dataset, that no script refuses.
UsableRows(rows, c) ==
    /\ rows \in [Splits -> Tables(c)]
    /\ \A s \in Three :
           /\ Labels(rows[s]) \subseteq LabelSpace["direct_multiclass"]
           /\ "Benign" \in Labels(rows[s]) /\ KnownLabels(rows[s]) # {}
    /\ rows["ood"] # {} /\ Labels(rows["ood"]) \subseteq OODFamilies

Usable(d, c) ==
    /\ d \in Datasets(c) /\ UsableRows(d.rows, c) /\ d.columns # {} /\ d.report = Counts(d.rows)

DataReady ==
    Meant =>
        /\ step = "assign" =>
               /\ work.schema = corpus[1].columns /\ ReadFrom(work.files, corpus)
               /\ \A k \in 1..(work.at - 1) :
                      FamilyOrder[k] \in LabelSpace["direct_multiclass"]
                          => Opened(work.files, FamilyOrder[k])
        /\ step = "trim" =>
               /\ work.schema = corpus[1].columns /\ work.files \in Manifests(corpus)
               /\ UsableRows(work.stage, corpus)
               /\ \E col \in work.schema : \E r, q \in work.stage["train"] : r.cells[col] # q.cells[col]
        /\ step = "write" =>
               /\ work.files \in Manifests(corpus) /\ UsableRows(work.stage, corpus)
               /\ work.columns \in Columns(corpus) \ {{}}
        /\ step = "report" =>
               /\ data.manifest \in Manifests(corpus) /\ UsableRows(data.rows, corpus)
               /\ data.columns \in Columns(corpus) \ {{}}
        /\ "preprocess" \in fresh => Usable(data, corpus)

\* What a script under way for it has, and what one that is up to date has left.
ProductsReady ==
    Meant =>
        /\ "views" \in fresh => views.index
        /\ step = "summary" => release.training = published.columns
        /\ "release" \in fresh =>
               release.training = data.columns /\ release.summary = data.columns
        /\ (step \in FamilySteps /\ Makes(work.script) = "family" /\ Reads[work.script] \subseteq fresh)
               => work.labels \subseteq KnownAttackFamilies
        /\ (step = "oracle" /\ Reads[work.script] \subseteq fresh)
               => family.model \in Classifiers(corpus)
        /\ "family" \in fresh =>
               family.model \in Classifiers(corpus) /\ family.report \in Classifiers(corpus)
        /\ "binary" \in fresh => bundle["binary"]["columns"] = data.columns

\* A sample has a benign row if it has one of an attack; a search without an attack row
\* has not begun a trial.
Drawn(w) == w \in [benign : Nat, attack : Nat] /\ (w.attack = 0 \/ w.benign # 0)

SamplesReady ==
    Meant =>
        /\ (step \in {"fit", "fit kernel", "fit finalist"} /\ OnKaggle \subseteq fresh) => Drawn(work)
        /\ (step = "baseline" /\ "preprocess" \in fresh) => Drawn(work)
        /\ (step = "trials" /\ work.attack = 0) => work = Search(work.script, 0)

CauseInv ==
    /\ corpus \in Corpora \cup {<<>>}
    /\ DataReady /\ ProductsReady /\ SamplesReady /\ ScriptsFailForCause

-----------------------------------------------------------------------------
LEMMA Spaces ==
    /\ LabelSpace["attack_only"] = KnownAttackFamilies
    /\ LabelSpace["direct_multiclass"] = {"Benign"} \cup KnownAttackFamilies
    /\ "Benign" \notin KnownAttackFamilies /\ "Benign" \notin OODFamilies
    /\ KnownAttackFamilies # {} /\ KnownAttackFamilies \cap OODFamilies = {}
    /\ \A v \in Range(ViewOrder) : KnownAttackFamilies \subseteq LabelSpace[v]
  BY FamiliesAssumption, Names DEF LabelSpace, KnownAttackFamilies

\* A dataset that can be used is there in all its files, and every script finds in it what
\* it looks for.
LEMMA UsableServes ==
  ASSUME NEW c \in Corpora \ {<<>>}, NEW d, Usable(d, c), FiniteRows(d.rows)
  PROVE  /\ d # None /\ d.columns # None /\ d.manifest # None /\ d.report # None
         /\ d.columns # {} /\ d.columns \in Columns(c)
         /\ \A s \in Splits : d.rows[s] # None
         /\ d.report["train"].Benign \in Nat /\ d.report["train"].Benign # 0
         /\ d.report["train"].Attack \in Nat /\ d.report["train"].Attack # 0
         /\ \A s \in Three : Benign(d.rows[s]) # {} /\ Attacks(d.rows[s]) # {}
         /\ \A s \in Splits :
                /\ Unexpected(s, d.rows[s]) = {}
                /\ \A v \in Range(ViewOrder) : Filtered(v, s, d.rows[s]) # {}
<1> DEFINE R == [Splits -> [Benign : Nat, Attack : Nat]]
<1>1. /\ d \in Datasets(c) /\ UsableRows(d.rows, c) /\ d.columns # {} /\ d.report = Counts(d.rows)
  BY DEF Usable
<1>2. /\ d.rows \in [Splits -> Tables(c)] /\ d.columns \in Columns(c)
      /\ d.manifest \in Manifests(c) /\ d.report \in R
  BY <1>1 DEF Datasets
<1>3. /\ None \notin R /\ None \notin Manifests(c) /\ None \notin Datasets(c)
      /\ \A x \in Columns(c) \cup Tables(c) : None # x
  BY NoneAssumption
<1>4. /\ \A s \in Three :
             /\ Labels(d.rows[s]) \subseteq LabelSpace["direct_multiclass"]
             /\ "Benign" \in Labels(d.rows[s]) /\ KnownLabels(d.rows[s]) # {}
      /\ d.rows["ood"] # {} /\ Labels(d.rows["ood"]) \subseteq OODFamilies
  BY <1>1 DEF UsableRows
<1> HIDE DEF R
<1>5. ASSUME NEW s \in Splits PROVE d.rows[s] # None /\ IsFiniteSet(d.rows[s])
  <2>1. d.rows[s] \in Tables(c)
    BY <1>2
  <2>2. d.rows[s] # None
    BY <1>3, <2>1
  <2> QED BY <2>2 DEF FiniteRows
<1>6. ASSUME NEW s \in Three
      PROVE  /\ \E r \in d.rows[s] : r.family = "Benign"
             /\ \E r \in d.rows[s] : r.family \in KnownAttackFamilies
  BY <1>4 DEF Labels, KnownLabels
<1>7. ASSUME NEW s \in Three PROVE Benign(d.rows[s]) # {} /\ Attacks(d.rows[s]) # {}
  BY <1>6, Spaces DEF Benign, Attacks, IsBenign
<1>8. /\ d.report["train"].Benign \in Nat /\ d.report["train"].Benign # 0
      /\ d.report["train"].Attack \in Nat /\ d.report["train"].Attack # 0
  <2> DEFINE rows == d.rows["train"]
             B == {r \in rows : (r.family = "Benign") = TRUE}
             A == {r \in rows : (r.family = "Benign") = FALSE}
  <2>1. "train" \in Splits /\ "train" \in Three
    BY Names DEF Three
  <2>2. IsFiniteSet(rows)
    BY <1>5, <2>1
  <2>3. B # {} /\ A # {} /\ B \subseteq rows /\ A \subseteq rows
    BY <1>6, <2>1, Spaces
  <2>4. d.report["train"].Benign = Cardinality(B) /\ d.report["train"].Attack = Cardinality(A)
    BY <1>1, <2>1 DEF Counts, LabelCount
  <2> HIDE DEF A, B, rows
  <2>5. IsFiniteSet(A) /\ IsFiniteSet(B)
    BY <2>2, <2>3, FS_Subset
  <2>6. Cardinality(A) \in Nat /\ Cardinality(A) # 0 /\ Cardinality(B) \in Nat /\ Cardinality(B) # 0
    BY <2>3, <2>5, FS_CardinalityType, FS_EmptySet
  <2> QED BY <2>4, <2>6
<1>9. ASSUME NEW s \in Splits
      PROVE  /\ Unexpected(s, d.rows[s]) = {}
             /\ \A v \in Range(ViewOrder) : Filtered(v, s, d.rows[s]) # {}
  <2>1. s \in Three \/ s = "ood"
    BY Names DEF Three
  <2>2. "ood" \notin Three
    BY ThreeSplits
  <2>3. CASE s \in Three
    <3>1. s # "ood"
      BY <2>2, <2>3
    <3>2. Unexpected(s, d.rows[s]) = {}
      BY <1>4, <2>3, <3>1 DEF Unexpected
    <3>3. PICK r \in d.rows[s] : r.family \in KnownAttackFamilies
      BY <1>6, <2>3
    <3>4. ASSUME NEW v \in Range(ViewOrder) PROVE r \in Filtered(v, s, d.rows[s])
      BY <3>1, <3>3, Spaces DEF Filtered
    <3> QED BY <3>2, <3>4
  <2>4. CASE s = "ood"
    <3>1. Unexpected(s, d.rows[s]) = {}
      BY <1>4, <2>4 DEF Unexpected
    <3>2. PICK r \in d.rows[s] : r.family \in OODFamilies
      BY <1>4, <2>4 DEF Labels
    <3>3. ASSUME NEW v \in Range(ViewOrder) PROVE r \in Filtered(v, s, d.rows[s])
      BY <2>4, <3>2 DEF Filtered
    <3> QED BY <3>1, <3>3
  <2> QED BY <2>1, <2>3, <2>4
<1>10. d # None /\ d.columns # None /\ d.manifest # None /\ d.report # None
  BY <1>1, <1>2, <1>3
<1> QED BY <1>1, <1>2, <1>5, <1>7, <1>8, <1>9, <1>10

-----------------------------------------------------------------------------
\* What a sound corpus promises of the files that are read from it.
SoundFiles(files) ==
    /\ \A i \in DOMAIN files : files[i].family \in Range(FamilyOrder)
    /\ \A name \in LabelSpace["direct_multiclass"] :
           /\ Cardinality(Members(files, name)) >= 3
           /\ \A i \in Members(files, name) :
                  Cardinality(Larger(files, i)) < 3 => OwnRows(files, i) # {}
    /\ \E i \in DOMAIN files : files[i].family \in OODFamilies /\ RowsOf(files[i]) # {}

Telling(files, name, col) ==
    \A i \in Members(files, name) :
        Larger(files, i) = {} => \E r, q \in OwnRows(files, i) : r.cells[col] # q.cells[col]

LEMMA LargerAlike ==
  ASSUME NEW files, NEW new, Alike(files, new)
  PROVE  \A i \in DOMAIN files : Larger(new, i) = Larger(files, i)
<1> SUFFICES ASSUME NEW i \in DOMAIN files PROVE Larger(new, i) = Larger(files, i)
  OBVIOUS
<1>1. new[i].family = files[i].family
  BY DEF Alike
<1>2. Members(new, files[i].family) = Members(files, files[i].family)
      /\ \A j \in DOMAIN files : Size(new, j) = Size(files, j)
  BY AlikeCounts
<1>3. Members(files, files[i].family) \subseteq DOMAIN files
  BY DEF Members
<1> QED BY <1>1, <1>2, <1>3 DEF Larger

LEMMA CorpusSound ==
  ASSUME NEW c \in Corpora, SoundCorpus(c), NEW files, ReadFrom(files, c)
  PROVE  /\ c # <<>> /\ c[1].columns # None /\ DOMAIN files = DOMAIN c
         /\ SoundFiles(files)
         /\ \E name \in LabelSpace["direct_multiclass"], col \in c[1].columns :
                Telling(files, name, col)
<1> DEFINE clean == CleanedFiles(c)
<1>1. DOMAIN clean = DOMAIN c /\ DOMAIN files = DOMAIN c
  BY DEF CleanedFiles, ReadFrom
<1>2. ASSUME NEW i \in DOMAIN c
      PROVE  /\ files[i].family = c[i].family /\ files[i].scenario = c[i].scenario
             /\ files[i].rows = Cleaned(c[i])
             /\ clean[i].family = c[i].family /\ clean[i].scenario = c[i].scenario
             /\ clean[i].rows = Cleaned(c[i])
  <2> DEFINE f == files[i]
  <2>1. f = [family |-> c[i].family, scenario |-> c[i].scenario, rows |-> Cleaned(c[i]),
             split |-> f.split]
    BY DEF ReadFrom
  <2> HIDE DEF f
  <2>2. f.family = c[i].family /\ f.scenario = c[i].scenario /\ f.rows = Cleaned(c[i])
    BY <2>1
  <2>3. clean[i] = [family |-> c[i].family, scenario |-> c[i].scenario, rows |-> Cleaned(c[i])]
    BY DEF CleanedFiles
  <2> HIDE DEF clean
  <2> QED BY <2>2, <2>3 DEF f
<1>3. /\ c # <<>>
      /\ \A i \in DOMAIN c : Discovered(c[i]) /\ ~Quarantined(c[i], c[1].columns)
      /\ \A name \in LabelSpace["direct_multiclass"] :
             /\ Cardinality(Members(clean, name)) >= 3
             /\ \A i \in Members(clean, name) :
                    Cardinality(Larger(clean, i)) < 3 => OwnRows(clean, i) # {}
      /\ \E i \in DOMAIN clean : clean[i].family \in OODFamilies /\ RowsOf(clean[i]) # {}
      /\ \E name \in LabelSpace["direct_multiclass"], col \in c[1].columns : Telling(clean, name, col)
  BY DEF SoundCorpus, Telling
<1> HIDE DEF clean
<1>4. Alike(clean, files)
  BY <1>1, <1>2 DEF Alike
<1>5. \A i \in DOMAIN c : RowsOf(files[i]) = RowsOf(clean[i])
  BY <1>2 DEF RowsOf, Row
<1>6. \A i \in DOMAIN c : OwnRows(files, i) = OwnRows(clean, i)
  BY <1>1, <1>5 DEF OwnRows
<1>7. \A i \in DOMAIN c : Larger(files, i) = Larger(clean, i)
  BY <1>1, <1>4, LargerAlike
<1>8. \A name : Members(files, name) = Members(clean, name) /\ Members(clean, name) \subseteq DOMAIN c
  BY <1>1, <1>4, AlikeCounts DEF Members
<1>9. c[1].columns # None
  <2>1. DOMAIN c = 1..Len(c) /\ Len(c) \in Nat /\ c \in Seq(Range(c))
    BY CorporaAssumption
  <2>2. 1 \in DOMAIN c
    BY <1>3, <2>1
  <2>3. c[1] \in Range(c)
    BY <2>2 DEF Range
  <2> QED BY <2>3, CorporaAssumption
<1>10. SoundFiles(files)
  BY <1>1, <1>2, <1>3, <1>5, <1>6, <1>7, <1>8 DEF SoundFiles, Discovered
<1>11. \E name \in LabelSpace["direct_multiclass"], col \in c[1].columns : Telling(files, name, col)
  <2>1. PICK name \in LabelSpace["direct_multiclass"], col \in c[1].columns : Telling(clean, name, col)
    BY <1>3
  <2>2. Telling(files, name, col)
    BY <1>6, <1>7, <1>8, <2>1 DEF Telling
  <2> QED BY <2>2
<1> QED BY <1>1, <1>3, <1>9, <1>10, <1>11

\* All files of a sound corpus are read.
LEMMA AllFilesRead ==
  ASSUME Meant, CleanFiles
  PROVE  /\ step' = "assign" /\ work'.schema = corpus[1].columns /\ work'.at = 1
         /\ ReadFrom(work'.files, corpus)
<1> DEFINE N == Len(corpus)
           schema == corpus[1].columns
           New(i) == [family |-> corpus[i].family, scenario |-> corpus[i].scenario,
                      rows |-> Cleaned(corpus[i]), split |-> None]
           base == [schema |-> None, files |-> <<>>]
           Prefix(n) == [i \in 1..n |-> New(i)]
           g == [n \in 0..N |-> [schema |-> IF n = 0 THEN None ELSE schema, files |-> Prefix(n)]]
           Done[n \in 0..N] ==
               IF n = 0 THEN [schema |-> None, files |-> <<>>] ELSE CleanFile(Done[n - 1], corpus[n])
           all == Done[N]
<1>1. /\ corpus \in Corpora /\ corpus # <<>> /\ N \in Nat /\ DOMAIN corpus = 1..N
      /\ \A i \in 1..N : Discovered(corpus[i]) /\ ~Quarantined(corpus[i], schema)
  BY CorporaAssumption DEF Meant, SoundCorpus
<1>2. 1 \in 1..N /\ N # 0
  BY <1>1, CorporaAssumption
<1>3. \A i \in 1..N : corpus[i].columns # None
  BY <1>1, CorporaAssumption DEF Range
<1>4. \A i \in 1..N : corpus[i].header = "ok" /\ corpus[i].columns = schema
  BY <1>1, <1>2, <1>3 DEF Quarantined
<1>5. IF all.schema = None THEN Raise("preprocess")
      ELSE Go("assign", [schema |-> all.schema, files |-> all.files, at |-> 1])
  BY DEF CleanFiles
<1>6. ASSUME NEW n \in 1..N PROVE Append(Prefix(n - 1), New(n)) = Prefix(n)
  <2> DEFINE s == Prefix(n - 1)
             x == New(n)
  <2>1. n - 1 \in Nat /\ (n - 1) + 1 = n /\ \A i \in 1..n : i \in 1..(n - 1) \/ i = n
    BY <1>1
  <2>2. s = [i \in 1..(n - 1) |-> s[i]] /\ Len(s) = n - 1
    <3> HIDE DEF New
    <3>1. s = [i \in 1..(n - 1) |-> s[i]]
      OBVIOUS
    <3> HIDE DEF s
    <3> QED BY <2>1, <3>1
  <2>3. \A i \in 1..(n - 1) : s[i] = New(i)
    <3> HIDE DEF New
    <3> QED OBVIOUS
  <2> HIDE DEF s, x
  <2> DEFINE a == Append(s, x)
  <2>4. /\ Len(a) = Len(s) + 1 /\ a = [i \in 1..Len(a) |-> a[i]]
        /\ \A i \in 1..Len(s) : a[i] = s[i]
        /\ a[Len(s) + 1] = x
    BY <2>1, <2>2, AppendIs
  <2> HIDE DEF a
  <2>5. a = [i \in 1..n |-> a[i]]
    BY <2>1, <2>2, <2>4
  <2>6. ASSUME NEW i \in 1..n PROVE a[i] = New(i)
    <3> HIDE DEF New
    <3>1. CASE i \in 1..(n - 1)
      BY <2>2, <2>3, <2>4, <3>1
    <3>2. CASE i = n
      BY <2>1, <2>2, <2>4, <3>2 DEF x
    <3> QED BY <2>1, <3>1, <3>2
  <2> HIDE DEF New
  <2>7. a = Prefix(n)
    BY <2>5, <2>6
  <2> QED BY <2>7 DEF a, s, x
<1>7. Prefix(0) = <<>>
  <2> HIDE DEF New
  <2> QED OBVIOUS
<1> HIDE DEF Prefix
<1>8. ASSUME NEW n \in 1..N PROVE g[n] = CleanFile(g[n - 1], corpus[n])
  <2>1. n \in 0..N /\ n - 1 \in 0..N /\ n # 0
    BY <1>1
  <2> DEFINE so == g[n - 1]
             f == corpus[n]
  <2>2. so.schema = (IF n - 1 = 0 THEN None ELSE schema) /\ so.files = Prefix(n - 1)
    BY <2>1
  <2>3. g[n] = [schema |-> schema, files |-> Prefix(n)]
    BY <2>1
  <2> HIDE DEF so, g
  <2>4. Discovered(f) /\ f.header = "ok" /\ f.columns = schema
    BY <1>1, <1>4
  <2>5. so.schema \in {None, f.columns}
    BY <2>2, <2>4
  <2>6. ~Quarantined(f, so.schema)
    BY <2>4, <2>5 DEF Quarantined
  <2>7. CleanFile(so, f) = [schema |-> f.columns, files |-> Append(so.files, New(n))]
    BY <2>4, <2>6 DEF CleanFile
  <2> QED BY <1>6, <2>2, <2>3, <2>4, <2>7 DEF so
<1>9. g[0] = base
  BY <1>1, <1>7
<1>10. g = [n \in 0..N |-> IF n = 0 THEN base ELSE CleanFile(g[n - 1], corpus[n])]
  <2>1. g = [n \in 0..N |-> g[n]]
    OBVIOUS
  <2>2. ASSUME NEW n \in 0..N
        PROVE  g[n] = IF n = 0 THEN base ELSE CleanFile(g[n - 1], corpus[n])
    <3>1. n = 0 \/ n \in 1..N
      BY <1>1
    <3> HIDE DEF g, base
    <3> QED BY <1>8, <1>9, <3>1
  <2> HIDE DEF g, base, N
  <2> QED BY <2>1, <2>2
<1> HIDE DEF g
<1>11. Done = CHOOSE h : h = [n \in 0..N |-> IF n = 0 THEN base ELSE CleanFile(h[n - 1], corpus[n])]
  BY DEF base
<1> HIDE DEF Done, base
<1>12. Done = [n \in 0..N |-> IF n = 0 THEN base ELSE CleanFile(Done[n - 1], corpus[n])]
  BY <1>10, <1>11
<1>13. DOMAIN Done = 0..N /\ Done[0] = base
       /\ \A n \in 1..N : Done[n] = CleanFile(Done[n - 1], corpus[n])
  BY <1>1, <1>12
<1>14. \A n \in 0..N : Done[n] = g[n]
  <2> DEFINE C == {n \in Nat : n \in 0..N => Done[n] = g[n]}
  <2>1. 0 \in C
    BY <1>9, <1>13
  <2>2. ASSUME NEW n \in Nat, n \in C PROVE n + 1 \in C
    <3> SUFFICES ASSUME n + 1 \in 0..N PROVE Done[n + 1] = g[n + 1]
      OBVIOUS
    <3>1. n \in 0..N /\ n + 1 \in 1..N /\ (n + 1) - 1 = n
      BY <1>1
    <3> QED BY <1>8, <1>13, <2>2, <3>1
  <2> HIDE DEF C
  <2>3. \A n \in Nat : n \in C
    BY <2>1, <2>2, NatInduct
  <2> QED BY <1>1, <2>3 DEF C
<1>15. all = [schema |-> schema, files |-> Prefix(N)]
  <2>1. N \in 0..N
    BY <1>1
  <2>2. g[N] = [schema |-> schema, files |-> Prefix(N)]
    BY <1>2, <2>1 DEF g
  <2> QED BY <1>14, <2>1, <2>2
<1> HIDE DEF all
<1>16. all.schema = schema /\ all.files = Prefix(N) /\ schema # None
  BY <1>2, <1>3, <1>15
<1>17. step' = "assign" /\ work' = [schema |-> schema, files |-> Prefix(N), at |-> 1]
  BY <1>5, <1>16 DEF Go
<1>18. ReadFrom(Prefix(N), corpus)
  <2> DEFINE files == Prefix(N)
  <2>1. files = [i \in 1..N |-> files[i]] /\ \A i \in 1..N : files[i] = New(i)
    <3> HIDE DEF New
    <3> QED BY DEF Prefix
  <2> HIDE DEF files
  <2>2. \A i \in 1..N : files[i].split = None
    BY <2>1
  <2>3. ReadFrom(files, corpus)
    BY <1>1, <2>1, <2>2 DEF ReadFrom
  <2> QED BY <2>3 DEF files
<1>19. work'.schema = schema /\ work'.files = Prefix(N) /\ work'.at = 1
  BY <1>17
<1> QED BY <1>17, <1>18, <1>19

-----------------------------------------------------------------------------
\* A family is held out as a whole, or shared out in one of the orders by size.
Shared(files, name, split) ==
    /\ HeldOut(files, name) => split = [i \in Members(files, name) |-> "ood"]
    /\ ~HeldOut(files, name) =>
           \E o \in Orders(files, Members(files, name)) :
               split = PlaceOf(o, Greedy(files, name, o), Members(files, name))

LEMMA AssignPuts ==
  ASSUME AssignFamily, NEW schema, FilesRead(work.files, schema),
         work = [schema |-> work.schema, files |-> work.files, at |-> work.at]
  PROVE  \E split :
             /\ Shared(work.files, FamilyOrder[work.at], split)
             /\ step' = "assign" /\ fresh' = fresh /\ work'.schema = work.schema /\ work'.at = work.at + 1
             /\ work'.files = Assigned(work.files, Members(work.files, FamilyOrder[work.at]), split)
<1> DEFINE name == FamilyOrder[work.at]
           files == work.files
           S == Members(files, name)
           Put(split) == work' = [work EXCEPT !.at = @ + 1, !.files = Assigned(@, S, split)]
<1>1. step' = "assign" /\ fresh' = fresh
  BY DEF AssignFamily, Go
<1>2. PICK split : Put(split) /\ Shared(files, name, split)
  <2>1. CASE HeldOut(files, name)
    <3>1. Put([i \in S |-> "ood"])
      BY <2>1 DEF AssignFamily, Go, Assigned
    <3>2. Shared(files, name, [i \in S |-> "ood"])
      BY <2>1 DEF Shared
    <3> QED BY <3>1, <3>2
  <2>2. CASE ~HeldOut(files, name)
    <3>1. PICK o \in Orders(files, S) : Put(PlaceOf(o, Greedy(files, name, o), S))
      BY <2>2 DEF AssignFamily, Go, Assigned, PlaceOf
    <3>2. Shared(files, name, PlaceOf(o, Greedy(files, name, o), S))
      <4> HIDE DEF files, name
      <4> QED BY <2>2 DEF Shared
    <3> HIDE DEF Put
    <3> QED BY <3>1, <3>2
  <2> QED BY <2>1, <2>2
<1> DEFINE new == Assigned(files, S, split)
<1>3. work' = [work EXCEPT !.at = @ + 1, !.files = new]
  BY <1>2
<1> HIDE DEF new
<1>4. work'.schema = work.schema /\ work'.at = work.at + 1 /\ work'.files = new
  BY <1>3
<1> HIDE DEF Put, S, files
<1> QED BY <1>1, <1>2, <1>4 DEF S, files, new

\* The three largest files of a family open the three splits.
LEMMA OpenersPlaced ==
  ASSUME NEW files, NEW schema, FilesRead(files, schema), NEW name,
         Cardinality(Members(files, name)) >= 3, ~HeldOut(files, name),
         NEW split, Shared(files, name, split)
  PROVE  Opened(Assigned(files, Members(files, name), split), name)
<1> DEFINE S == Members(files, name)
           new == Assigned(files, S, split)
<1>1. /\ DOMAIN new = DOMAIN files
      /\ \A i \in DOMAIN files :
             /\ new[i].family = files[i].family /\ new[i].rows = files[i].rows
             /\ new[i].split = IF i \in S THEN split[i] ELSE files[i].split
  BY AssignedRead
<1>2. S \subseteq DOMAIN files
  BY DEF Members
<1> HIDE DEF new
<1>3. Alike(files, new)
  BY <1>1 DEF Alike
<1>4. Members(new, name) = S /\ \A i \in DOMAIN files : Larger(new, i) = Larger(files, i)
  BY <1>3, AlikeCounts, LargerAlike
<1>5. PICK o \in Orders(files, S) : split = PlaceOf(o, Greedy(files, name, o), S)
  BY DEF Shared
<1> DEFINE N == Len(o)
           p == Greedy(files, name, o)
<1>6. /\ N = Cardinality(S) /\ N \in Nat /\ o \in [1..N -> S]
      /\ \A i, j \in 1..N : i < j => Size(files, o[i]) >= Size(files, o[j])
      /\ \A x \in S : \E k \in 1..N : o[k] = x
      /\ \A k \in 1..N : split[o[k]] = p[k]
  <2> HIDE DEF p
  <2> QED BY <1>2, <1>5, Placed DEF p
<1>7. N >= 3 /\ o \in [1..N -> DOMAIN files]
  BY <1>2, <1>6
<1>8. PickedTo(files, name, o, p, N)
  BY <1>6, <1>7, GreedyPicks
<1> HIDE DEF p, N
<1>9. \A k \in 1..N : p[k] \in Three
  BY <1>8 DEF PickedTo
<1>10. \A i \in S : new[i].split \in Three
  BY <1>1, <1>2, <1>6, <1>9
<1>11. \A i \in S : Size(files, i) \in Nat
  BY <1>2, TotalOfOne
<1>12. ASSUME NEW m \in 1..3
       PROVE  /\ o[m] \in S /\ new[o[m]].split = InDistribution[m]
              /\ Cardinality(Larger(files, o[m])) < 3 /\ (m = 1 => Larger(files, o[m]) = {})
  <2>1. m \in 1..N /\ o[m] \in S
    BY <1>6, <1>7
  <2>2. new[o[m]].split = InDistribution[m]
    <3>1. p[m] = InDistribution[m]
      BY <1>8, <2>1 DEF PickedTo
    <3> QED BY <1>1, <1>2, <1>6, <2>1, <3>1
  <2> DEFINE L == Larger(files, o[m])
             f == [k \in 1..(m - 1) |-> o[k]]
             B == {f[k] : k \in 1..(m - 1)}
  <2>3. ASSUME NEW j \in L PROVE j \in B
    <3>1. j \in S /\ Size(files, j) > Size(files, o[m])
      <4>1. files[o[m]].family = name
        BY <2>1 DEF Members
      <4> QED BY <4>1 DEF Larger
    <3>2. PICK k \in 1..N : o[k] = j
      BY <1>6, <3>1
    <3>3. ~(m < k) /\ m # k
      <4>1. Size(files, o[m]) \in Nat /\ Size(files, j) \in Nat
        BY <1>11, <2>1, <3>1
      <4>2. m < k => Size(files, o[m]) >= Size(files, j)
        BY <1>6, <2>1, <3>2
      <4>3. m = k => Size(files, o[m]) = Size(files, j)
        BY <3>2
      <4> QED BY <3>1, <4>1, <4>2, <4>3
    <3>4. k \in 1..(m - 1)
      BY <1>6, <2>1, <3>3
    <3> QED BY <3>2, <3>4
  <2>4. m = 1 => B = {}
    OBVIOUS
  <2>5. IsFiniteSet(1..(m - 1)) /\ Cardinality(1..(m - 1)) <= 2
    <3>1. m - 1 \in Int /\ 1 \in Int /\ m - 1 <= 2 /\ m - 1 >= 0
      OBVIOUS
    <3> DEFINE q == m - 1
    <3>2. q \in Int /\ 1 \in Int /\ q <= 2 /\ q >= 0
      BY <3>1
    <3> HIDE DEF q
    <3>3. IsFiniteSet(1..q) /\ Cardinality(1..q) = IF 1 > q THEN 0 ELSE q - 1 + 1
      BY <3>2, FS_Interval
    <3> QED BY <3>2, <3>3 DEF q
  <2>6. IsFiniteSet(B) /\ Cardinality(B) <= Cardinality(1..(m - 1))
    <3> DEFINE D == 1..(m - 1)
    <3>1. f \in [D -> B] /\ \A t \in B : \E k \in D : f[k] = t
      OBVIOUS
    <3> HIDE DEF f, B, D
    <3>2. f \in Surjection(D, B)
      BY <3>1 DEF Surjection
    <3>3. IsFiniteSet(D)
      BY <2>5 DEF D
    <3>4. IsFiniteSet(B) /\ Cardinality(B) <= Cardinality(D)
      BY <3>2, <3>3, FS_Surjection
    <3> QED BY <3>4 DEF D
  <2> HIDE DEF L, B
  <2>7. IsFiniteSet(L) /\ Cardinality(L) <= Cardinality(B)
    BY <2>3, <2>6, FS_Subset
  <2>8. Cardinality(L) \in Nat /\ Cardinality(B) \in Nat /\ Cardinality(1..(m - 1)) \in Nat
    BY <2>5, <2>6, <2>7, FS_CardinalityType
  <2>9. Cardinality(L) < 3
    BY <2>5, <2>6, <2>7, <2>8
  <2>10. m = 1 => L = {}
    BY <2>3, <2>4
  <2> QED BY <2>1, <2>2, <2>9, <2>10 DEF L
<1>13. ASSUME NEW s \in Three
       PROVE  \E i \in S : /\ new[i].split = s /\ Cardinality(Larger(new, i)) < 3
                           /\ s = "train" => Larger(new, i) = {}
  <2>1. /\ InDistribution[1] = "train" /\ InDistribution[2] = "val" /\ InDistribution[3] = "test"
        /\ s \in {"train", "val", "test"}
    BY ThreeSplits DEF Three
  <2>2. PICK m \in 1..3 : InDistribution[m] = s /\ (s = "train" => m = 1)
    <3>1. CASE s = "train"
      BY <2>1, <3>1
    <3>2. CASE s = "val"
      <4>1. 2 \in 1..3 /\ InDistribution[2] = s
        BY <2>1, <3>2
      <4> QED BY <3>2, <4>1
    <3>3. CASE s = "test"
      <4>1. 3 \in 1..3 /\ InDistribution[3] = s
        BY <2>1, <3>3
      <4> QED BY <3>3, <4>1
    <3> QED BY <2>1, <3>1, <3>2, <3>3
  <2>3. o[m] \in DOMAIN files
    BY <1>2, <1>12
  <2>4. Larger(new, o[m]) = Larger(files, o[m])
    BY <1>4, <2>3
  <2> QED BY <1>12, <2>2, <2>4
<1> QED BY <1>4, <1>10, <1>13 DEF Opened, new

\* Sharing out one family leaves the others as they are.
LEMMA OthersStayOpened ==
  ASSUME NEW files, NEW schema, FilesRead(files, schema), NEW name, NEW split,
         NEW other, other # name, Opened(files, other)
  PROVE  Opened(Assigned(files, Members(files, name), split), other)
<1> DEFINE S == Members(files, name)
           new == Assigned(files, S, split)
           M == Members(files, other)
<1>1. /\ DOMAIN new = DOMAIN files
      /\ \A i \in DOMAIN files :
             /\ new[i].family = files[i].family /\ new[i].rows = files[i].rows
             /\ new[i].split = IF i \in S THEN split[i] ELSE files[i].split
  BY AssignedRead
<1>2. M \subseteq DOMAIN files /\ \A i \in M : i \notin S
  BY DEF Members
<1> HIDE DEF new
<1>3. Alike(files, new)
  BY <1>1 DEF Alike
<1>4. Members(new, other) = M /\ \A i \in DOMAIN files : Larger(new, i) = Larger(files, i)
  BY <1>3, AlikeCounts, LargerAlike
<1>5. \A i \in M : new[i].split = files[i].split /\ Larger(new, i) = Larger(files, i)
  BY <1>1, <1>2, <1>4
<1>6. /\ \A i \in M : files[i].split \in Three
      /\ \A s \in Three : \E i \in M :
             /\ files[i].split = s /\ Cardinality(Larger(files, i)) < 3
             /\ s = "train" => Larger(files, i) = {}
  BY DEF Opened
<1> HIDE DEF M
<1> QED BY <1>4, <1>5, <1>6 DEF Opened, new

LEMMA AssignReads ==
  ASSUME NEW files, NEW schema, FilesRead(files, schema), NEW c, ReadFrom(files, c), NEW S, NEW split
  PROVE  ReadFrom(Assigned(files, S, split), c)
<1> DEFINE new == Assigned(files, S, split)
<1>1. DOMAIN files = DOMAIN c
  BY DEF ReadFrom
<1>2. new = [i \in DOMAIN c |-> new[i]]
  BY <1>1 DEF Assigned
<1>3. ASSUME NEW i \in DOMAIN c
      PROVE  new[i] = [family |-> c[i].family, scenario |-> c[i].scenario, rows |-> Cleaned(c[i]),
                       split |-> new[i].split]
  <2> DEFINE f == files[i]
             g == new[i]
  <2>1. f = [family |-> c[i].family, scenario |-> c[i].scenario, rows |-> Cleaned(c[i]),
             split |-> f.split]
    BY DEF ReadFrom
  <2>2. g = f \/ g = [f EXCEPT !.split = split[i]]
    BY <1>1 DEF Assigned
  <2> HIDE DEF f, g
  <2>3. g = [family |-> c[i].family, scenario |-> c[i].scenario, rows |-> Cleaned(c[i]),
             split |-> g.split]
    <3>1. CASE g = f
      BY <2>1, <3>1
    <3>2. CASE g = [f EXCEPT !.split = split[i]]
      <4>1. g = [family |-> c[i].family, scenario |-> c[i].scenario, rows |-> Cleaned(c[i]),
                 split |-> split[i]]
        BY <2>1, <3>2
      <4> QED BY <4>1
    <3> QED BY <2>2, <3>1, <3>2
  <2> QED BY <2>3 DEF g
<1> HIDE DEF new
<1> QED BY <1>2, <1>3 DEF ReadFrom, new

-----------------------------------------------------------------------------
\* A row of a file is a row of the corpus.
LEMMA RowsFromCorpus ==
  ASSUME NEW c \in Corpora, NEW files, ReadFrom(files, c), NEW i \in DOMAIN c
  PROVE  /\ RowsOf(files[i]) \subseteq UNION {RowsOf(f) : f \in Range(c)}
         /\ \A r \in RowsOf(files[i]) : r.family = files[i].family
<1> DEFINE f == files[i]
<1>1. f = [family |-> c[i].family, scenario |-> c[i].scenario, rows |-> Cleaned(c[i]),
           split |-> f.split]
  BY DEF ReadFrom
<1> HIDE DEF f
<1>2. f.family = c[i].family /\ f.scenario = c[i].scenario /\ f.rows = Cleaned(c[i])
  BY <1>1
<1>3. c[i] \in Range(c)
  BY DEF Range
<1>4. ASSUME NEW k \in DOMAIN f.rows
      PROVE  Row(f, k) \in RowsOf(c[i]) /\ Row(f, k).family = f.family
  <2>1. k \in DOMAIN c[i].rows /\ f.rows[k] = c[i].rows[k]
    BY <1>2 DEF Cleaned
  <2>2. Row(f, k) = Row(c[i], k)
    BY <1>2, <2>1 DEF Row
  <2> QED BY <2>1, <2>2 DEF RowsOf, Row
<1> QED BY <1>3, <1>4 DEF RowsOf, f

\* What the splits keep of a sound corpus: a row that one file alone has stays where the
\* file is.
LEMMA StagedUsable ==
  ASSUME NEW c \in Corpora, SoundCorpus(c), NEW files, ReadFrom(files, c),
         \A name \in LabelSpace["direct_multiclass"] : Opened(files, name),
         \A i \in DOMAIN files : Settled(files, files[i].family),
         NEW stage, stage = [s \in Splits |-> stage[s]],
         \A s \in Splits : stage[s] \subseteq Contents(files, s),
         \A s \in Splits : \A r \in Contents(files, s) :
             (\A t \in Splits \ {s} : r \notin Contents(files, t)) => r \in stage[s]
  PROVE  /\ UsableRows(stage, c) /\ files \in Manifests(c)
         /\ \E col \in c[1].columns : \E r, q \in stage["train"] : r.cells[col] # q.cells[col]
<1>1. /\ c # <<>> /\ DOMAIN files = DOMAIN c /\ SoundFiles(files)
      /\ \E name \in LabelSpace["direct_multiclass"], col \in c[1].columns :
             Telling(files, name, col)
  BY CorpusSound
<1>2. ASSUME NEW i \in DOMAIN files
      PROVE  /\ files[i].split \in Splits /\ i \in Members(files, files[i].family)
             /\ files[i].family \in OODFamilies <=> files[i].split = "ood"
             /\ files[i].family \in Range(FamilyOrder)
             /\ files[i].family \notin OODFamilies =>
                    files[i].family \in LabelSpace["direct_multiclass"]
  <2> DEFINE name == files[i].family
  <2>1. i \in Members(files, name) /\ Settled(files, name) /\ name \in Range(FamilyOrder)
    BY <1>1 DEF Members, SoundFiles
  <2>2. name \notin OODFamilies => name \in LabelSpace["direct_multiclass"]
    BY <2>1, Spaces DEF KnownAttackFamilies
  <2> HIDE DEF name
  <2>3. name \in OODFamilies => files[i].split = "ood"
    BY <2>1 DEF Settled, HeldOut
  <2>4. name \notin OODFamilies => files[i].split # "ood"
    BY <2>1, <2>2, ThreeSplits DEF Opened
  <2>5. files[i].split \in Splits
    BY <2>1 DEF Settled
  <2> QED BY <2>1, <2>2, <2>3, <2>4, <2>5 DEF name
<1>3. ASSUME NEW i \in DOMAIN files
      PROVE  /\ RowsOf(files[i]) \subseteq UNION {RowsOf(f) : f \in Range(c)}
             /\ \A r \in RowsOf(files[i]) : r.family = files[i].family
  BY <1>1, RowsFromCorpus
<1>4. \A s, r : r \in Contents(files, s) <=>
          \E i \in DOMAIN files : files[i].split = s /\ r \in RowsOf(files[i])
  BY DEF Contents, In
<1>5. ASSUME NEW i \in DOMAIN files, NEW r \in OwnRows(files, i)
      PROVE  r \in stage[files[i].split] /\ r.family = files[i].family
  <2>1. r \in RowsOf(files[i]) /\ \A j \in DOMAIN files \ {i} : r \notin RowsOf(files[j])
    BY DEF OwnRows
  <2>2. r \in Contents(files, files[i].split)
    BY <1>4, <2>1
  <2>3. \A t : t # files[i].split => r \notin Contents(files, t)
    BY <1>4, <2>1
  <2> QED BY <1>2, <1>3, <2>1, <2>2, <2>3
<1>6. stage \in [Splits -> Tables(c)]
  <2>1. ASSUME NEW s \in Splits PROVE stage[s] \in Tables(c)
    <3>1. \A r \in stage[s] : r \in UNION {RowsOf(f) : f \in Range(c)}
      BY <1>3, <1>4
    <3> QED BY <3>1 DEF Tables
  <2> QED BY <2>1
<1>7. ASSUME NEW s \in Three, NEW name \in LabelSpace["direct_multiclass"]
      PROVE  name \in Labels(stage[s])
  <2>1. PICK i \in Members(files, name) : files[i].split = s /\ Cardinality(Larger(files, i)) < 3
    BY DEF Opened
  <2>2. i \in DOMAIN files /\ files[i].family = name
    BY DEF Members
  <2>3. OwnRows(files, i) # {}
    BY <1>1, <2>1 DEF SoundFiles
  <2>4. PICK r \in OwnRows(files, i) : TRUE
    BY <2>3
  <2>5. r \in stage[s] /\ r.family = name
    BY <1>5, <2>1, <2>2, <2>4
  <2> QED BY <2>5 DEF Labels
<1>8. ASSUME NEW s \in Three
      PROVE  /\ Labels(stage[s]) \subseteq LabelSpace["direct_multiclass"]
             /\ "Benign" \in Labels(stage[s]) /\ KnownLabels(stage[s]) # {}
  <2>1. s \in Splits /\ s # "ood"
    BY ThreeSplits
  <2>2. ASSUME NEW r \in stage[s] PROVE r.family \in LabelSpace["direct_multiclass"]
    <3>1. PICK i \in DOMAIN files : files[i].split = s /\ r \in RowsOf(files[i])
      BY <1>4, <2>1
    <3> QED BY <1>2, <1>3, <2>1, <3>1
  <2>3. "Benign" \in Labels(stage[s])
    BY <1>7, Spaces
  <2>4. PICK name \in KnownAttackFamilies : TRUE
    BY Spaces
  <2>5. name \in Labels(stage[s])
    BY <1>7, <2>4, Spaces
  <2>6. KnownLabels(stage[s]) # {}
    BY <2>4, <2>5 DEF KnownLabels
  <2> QED BY <2>2, <2>3, <2>6 DEF Labels
<1>9. stage["ood"] # {} /\ Labels(stage["ood"]) \subseteq OODFamilies
  <2>1. "ood" \in Splits
    BY Names
  <2>2. PICK i \in DOMAIN files : files[i].family \in OODFamilies /\ RowsOf(files[i]) # {}
    BY <1>1 DEF SoundFiles
  <2>3. PICK r \in RowsOf(files[i]) : TRUE
    BY <2>2
  <2>4. r \in Contents(files, "ood")
    BY <1>2, <1>4, <2>2, <2>3
  <2>5. ASSUME NEW t, r \in Contents(files, t) PROVE t = "ood"
    <3>1. PICK j \in DOMAIN files : files[j].split = t /\ r \in RowsOf(files[j])
      BY <1>4, <2>5
    <3>2. files[j].family = files[i].family
      BY <1>3, <2>3, <3>1
    <3> QED BY <1>2, <2>2, <3>1, <3>2
  <2>6. r \in stage["ood"]
    BY <2>1, <2>4, <2>5
  <2>7. ASSUME NEW q \in stage["ood"] PROVE q.family \in OODFamilies
    <3>1. PICK j \in DOMAIN files : files[j].split = "ood" /\ q \in RowsOf(files[j])
      BY <1>4, <2>1
    <3> QED BY <1>2, <1>3, <3>1
  <2> QED BY <2>6, <2>7 DEF Labels
<1>10. \E col \in c[1].columns : \E r, q \in stage["train"] : r.cells[col] # q.cells[col]
  <2>1. PICK name \in LabelSpace["direct_multiclass"], col \in c[1].columns :
            Telling(files, name, col)
    BY <1>1
  <2>2. "train" \in Three
    BY DEF Three
  <2>3. PICK i \in Members(files, name) : files[i].split = "train" /\ Larger(files, i) = {}
    BY <2>2 DEF Opened
  <2>4. PICK r \in OwnRows(files, i), q \in OwnRows(files, i) : r.cells[col] # q.cells[col]
    BY <2>1, <2>3 DEF Telling
  <2>5. i \in DOMAIN files
    BY DEF Members
  <2> QED BY <1>5, <2>3, <2>4, <2>5
<1>11. files \in Manifests(c)
  <2> DEFINE F == [family : Range(FamilyOrder), scenario : {f.scenario : f \in Range(c)},
                   rows : {Cleaned(f) : f \in Range(c)}, split : Splits]
  <2>1. ASSUME NEW i \in DOMAIN c PROVE files[i] \in F
    <3> DEFINE f == files[i]
    <3>1. f = [family |-> c[i].family, scenario |-> c[i].scenario, rows |-> Cleaned(c[i]),
               split |-> f.split]
      BY DEF ReadFrom
    <3>2. f.split \in Splits /\ f.family \in Range(FamilyOrder)
      BY <1>1, <1>2
    <3>3. c[i] \in Range(c)
      BY DEF Range
    <3> HIDE DEF f
    <3>4. f.family = c[i].family
      BY <3>1
    <3>5. c[i].scenario \in {g.scenario : g \in Range(c)} /\ Cleaned(c[i]) \in {Cleaned(g) : g \in Range(c)}
      BY <3>3
    <3>6. f \in F
      BY <3>1, <3>2, <3>4, <3>5
    <3> QED BY <3>6 DEF f
  <2>2. files = [i \in DOMAIN c |-> files[i]]
    BY DEF ReadFrom
  <2> HIDE DEF F
  <2>3. files \in [DOMAIN c -> F]
    BY <2>1, <2>2
  <2> QED BY <2>3 DEF F, Manifests
<1> QED BY <1>6, <1>8, <1>9, <1>10, <1>11 DEF UsableRows

-----------------------------------------------------------------------------
\* The preprocessing of a sound corpus does not fail, and leaves what all need.
LEMMA PreparingKeeps ==
    ASSUME ReleaseInv, step \in PrepSteps, corpus' = corpus, fresh' = fresh
    PROVE  /\ Meant' <=> Meant
           /\ fresh = {} /\ "preprocess" \notin fresh'
  BY DEF ReleaseInv, NothingStale, Meant

LEMMA CleanReady ==
    ASSUME ReleaseInv, CleanFiles, Meant
    PROVE  step' # "raised" /\ DataReady'
<1>1. /\ step' = "assign" /\ work'.schema = corpus[1].columns /\ work'.at = 1
      /\ ReadFrom(work'.files, corpus)
  BY AllFilesRead
<1>2. step \in PrepSteps /\ corpus' = corpus /\ fresh' = fresh
  BY <1>1 DEF CleanFiles, prepVars, Raise, Go, PrepSteps
<1>3. "preprocess" \notin fresh'
  BY <1>2, PreparingKeeps
<1>4. 1..(work'.at - 1) = {}
  BY <1>1
<1> QED BY <1>1, <1>2, <1>3, <1>4 DEF DataReady

LEMMA AssignReady ==
    ASSUME ReleaseInv, RowsFinite, DatasetInv, DataReady, AssignFamily, Meant
    PROVE  step' # "raised" /\ DataReady'
<1> DEFINE name == FamilyOrder[work.at]
           files == work.files
           S == Members(files, name)
<1>1. step = "assign" /\ corpus' = corpus /\ work.at <= Len(FamilyOrder)
  BY DEF AssignFamily, prepVars
<1>2. /\ work = [schema |-> work.schema, files |-> files, at |-> work.at]
      /\ FilesRead(files, work.schema)
  BY <1>1 DEF RowsFinite
<1>3. /\ work.at \in 1..(Len(FamilyOrder) + 1) /\ Len(FamilyOrder) \in Nat
  BY <1>1, CorporaAssumption DEF DatasetInv, FamiliesSettled
<1>4. PICK split : /\ Shared(files, name, split)
                   /\ step' = "assign" /\ fresh' = fresh
                   /\ work'.schema = work.schema /\ work'.at = work.at + 1
                   /\ work'.files = Assigned(files, S, split)
  BY <1>2, AssignPuts
<1>5. /\ work.schema = corpus[1].columns /\ ReadFrom(files, corpus)
      /\ \A k \in 1..(work.at - 1) :
             FamilyOrder[k] \in LabelSpace["direct_multiclass"] => Opened(files, FamilyOrder[k])
  BY <1>1 DEF DataReady
<1> DEFINE new == Assigned(files, S, split)
<1>6. ReadFrom(new, corpus)
  <2> HIDE DEF S
  <2> QED BY <1>2, <1>5, AssignReads
<1>7. corpus \in Corpora /\ SoundFiles(files)
  BY <1>5, CorpusSound DEF Meant
<1>8. ASSUME NEW k \in 1..work.at, FamilyOrder[k] \in LabelSpace["direct_multiclass"]
      PROVE  Opened(new, FamilyOrder[k])
  <2> DEFINE other == FamilyOrder[k]
  <2>1. CASE other = name
    <3>1. Cardinality(S) >= 3 /\ name \notin OODFamilies
      BY <1>7, <1>8, <2>1, Spaces DEF SoundFiles
    <3>2. ~HeldOut(files, name)
      <4>1. Cardinality(S) \in Nat
        <5>1. S \subseteq DOMAIN files
          BY DEF Members
        <5> QED BY <1>2, <5>1, RowsCounted, FS_CardinalityType
      <4>2. ~(Cardinality(S) < 3)
        BY <3>1, <4>1
      <4> QED BY <3>1, <4>2 DEF HeldOut
    <3>3. Opened(new, name)
      <4> HIDE DEF name, files
      <4> QED BY <1>2, <1>4, <3>1, <3>2, OpenersPlaced
    <3> QED BY <2>1, <3>3
  <2>2. CASE other # name
    <3>1. k \in 1..(work.at - 1)
      BY <1>3, <2>2
    <3>2. Opened(files, other)
      BY <1>5, <1>8, <3>1
    <3>3. Opened(new, other)
      <4> HIDE DEF name, files, other
      <4> QED BY <1>2, <2>2, <3>2, OthersStayOpened
    <3> QED BY <3>3
  <2> QED BY <2>1, <2>2
<1> HIDE DEF new
<1>9. "preprocess" \notin fresh'
  <2>1. step \in PrepSteps
    BY <1>1 DEF PrepSteps
  <2> QED BY <1>1, <1>4, <2>1, PreparingKeeps
<1>10. work'.at - 1 = work.at
  BY <1>3, <1>4
<1>11. /\ work'.schema = corpus'[1].columns /\ ReadFrom(work'.files, corpus')
       /\ \A k \in 1..(work'.at - 1) :
              FamilyOrder[k] \in LabelSpace["direct_multiclass"]
                  => Opened(work'.files, FamilyOrder[k])
  BY <1>1, <1>4, <1>5, <1>6, <1>8, <1>10 DEF new
<1> QED BY <1>4, <1>9, <1>11 DEF DataReady

LEMMA DedupeReady ==
    ASSUME ReleaseInv, RowsFinite, DatasetInv, DataReady, Dedupe, Meant
    PROVE  step' # "raised" /\ DataReady'
<1> DEFINE files == work.files
           in == [s \in Splits |-> Contents(files, s)]
           Both == {r \in UNION Range(in) : Cardinality({s \in DOMAIN in : r \in in[s]}) > 1}
           Copies == {p \in Both \X DOMAIN in : p[1] \in in[p[2]]}
           Stays(bucket, r, s) == \A t \in DOMAIN in \ {s} :
               (r \in in[t] /\ bucket[<<r, s>>] = bucket[<<r, t>>])
                   => FirstFile(files, r, s) < FirstFile(files, r, t)
           Stage(bucket) == [s \in DOMAIN in |-> {r \in in[s] : Stays(bucket, r, s)}]
<1>1. /\ step = "assign" /\ step' = "trim" /\ corpus' = corpus /\ fresh' = fresh
      /\ work.at > Len(FamilyOrder)
      /\ \E bucket \in [Copies -> Buckets] :
             work' = [schema |-> work.schema, files |-> files, stage |-> Stage(bucket)]
  BY DEF Dedupe, Go, prepVars
<1>2. PICK bucket : work' = [schema |-> work.schema, files |-> files, stage |-> Stage(bucket)]
  <2> HIDE DEF Stage, files, Copies
  <2> QED BY <1>1
<1> DEFINE stage == Stage(bucket)
<1>3. \A s \in Splits : \A r \in Contents(files, s) :
          (\A t \in Splits \ {s} : r \notin Contents(files, t)) => r \in stage[s]
  OBVIOUS
<1> HIDE DEF Stage, files
<1>4. work'.schema = work.schema /\ work'.files = files /\ work'.stage = stage
  BY <1>2
<1>5. RowsStaged'
  BY DedupeKeepsDataset DEF DatasetInv
<1>6. /\ stage = [s \in Splits |-> stage[s]]
      /\ \A s \in Splits : stage[s] \subseteq Contents(files, s)
      /\ \A i \in DOMAIN files : Settled(files, files[i].family)
  BY <1>1, <1>4, <1>5 DEF RowsStaged
<1>7. /\ work.schema = corpus[1].columns /\ ReadFrom(files, corpus)
      /\ \A k \in 1..(work.at - 1) :
             FamilyOrder[k] \in LabelSpace["direct_multiclass"] => Opened(files, FamilyOrder[k])
  BY <1>1 DEF DataReady, files
<1>8. ASSUME NEW name \in LabelSpace["direct_multiclass"] PROVE Opened(files, name)
  <2>1. name \in Range(FamilyOrder)
    BY Spaces, FamiliesAssumption DEF KnownAttackFamilies
  <2>2. PICK k \in DOMAIN FamilyOrder : name = FamilyOrder[k]
    BY <2>1 DEF Range
  <2>3. DOMAIN FamilyOrder = 1..Len(FamilyOrder) /\ Len(FamilyOrder) \in Nat
    BY CorporaAssumption
  <2>4. work.at = Len(FamilyOrder) + 1
    BY <1>1, <2>3 DEF DatasetInv, FamiliesSettled
  <2>5. k \in 1..(work.at - 1)
    BY <2>2, <2>3, <2>4
  <2> QED BY <1>7, <2>2, <2>5
<1>9. corpus \in Corpora /\ SoundCorpus(corpus)
  BY DEF Meant
<1> HIDE DEF stage
<1>10. /\ UsableRows(stage, corpus) /\ files \in Manifests(corpus)
       /\ \E col \in corpus[1].columns : \E r, q \in stage["train"] : r.cells[col] # q.cells[col]
  <2>1. \A name \in LabelSpace["direct_multiclass"] : Opened(files, name)
    BY <1>8
  <2> QED BY ONLY <1>3, <1>6, <1>7, <1>9, <2>1, StagedUsable, Zenon
<1>11. "preprocess" \notin fresh'
  <2>1. step \in PrepSteps
    BY <1>1 DEF PrepSteps
  <2> QED BY <1>1, <2>1, PreparingKeeps
<1>12. /\ work'.schema = corpus'[1].columns /\ work'.files \in Manifests(corpus')
       /\ UsableRows(work'.stage, corpus')
       /\ \E col \in work'.schema : \E r, q \in work'.stage["train"] : r.cells[col] # q.cells[col]
  BY <1>1, <1>4, <1>7, <1>10
<1> QED BY <1>1, <1>11, <1>12 DEF DataReady

LEMMA TrimReady ==
    ASSUME ReleaseInv, DataReady, Trim, Meant
    PROVE  step' # "raised" /\ DataReady'
<1> DEFINE stage == work.stage
           columns == work.schema \ Constant(work.schema, stage["train"])
<1>1. step = "trim" /\ corpus' = corpus /\ fresh' = fresh
  BY DEF Trim, prepVars, Raise, Go
<1>2. /\ work.schema = corpus[1].columns /\ work.files \in Manifests(corpus)
      /\ UsableRows(stage, corpus)
      /\ \E col \in work.schema : \E r, q \in stage["train"] : r.cells[col] # q.cells[col]
  BY <1>1 DEF DataReady
<1>3. stage["train"] # {}
  BY <1>2
<1>4. /\ step' = "write"
      /\ work' = [columns |-> columns, files |-> work.files, stage |-> stage, at |-> 1]
  BY <1>3 DEF Trim, Go
<1>5. columns \in Columns(corpus) \ {{}}
  BY <1>2 DEF Constant, Columns
<1> HIDE DEF columns, stage
<1>6. work'.columns = columns /\ work'.files = work.files /\ work'.stage = stage
  BY <1>4
<1>7. "preprocess" \notin fresh'
  <2>1. step \in PrepSteps
    BY <1>1 DEF PrepSteps
  <2> QED BY <1>1, <2>1, PreparingKeeps
<1> QED BY <1>1, <1>2, <1>4, <1>5, <1>6, <1>7 DEF DataReady

LEMMA UsableRowsThere ==
    ASSUME NEW c, NEW rows, UsableRows(rows, c), NEW s \in Splits PROVE rows[s] # {}
<1>1. s \in Three \/ s = "ood"
  BY Names DEF Three
<1> QED BY <1>1 DEF UsableRows, Labels

LEMMA WriteReady ==
    ASSUME ReleaseInv, RowsFinite, DatasetInv, DataReady, WriteSplit, Meant
    PROVE  step' # "raised" /\ DataReady'
<1> DEFINE s == SplitNames[work.at]
<1>1. step = "write" /\ corpus' = corpus /\ fresh' = fresh /\ work.at <= 4
  BY Names DEF WriteSplit, prepVars, Raise, Go
<1>2. /\ work.files \in Manifests(corpus) /\ UsableRows(work.stage, corpus)
      /\ work.columns \in Columns(corpus) \ {{}}
  BY <1>1 DEF DataReady
<1>3. work.stage[s] # {}
  <2>1. work.at \in 1..4
    BY <1>1 DEF DatasetInv, SplitsWritten
  <2>2. s \in Splits
    BY <2>1, Names
  <2> HIDE DEF s
  <2> QED BY <1>2, <2>2, UsableRowsThere
<1>4. step' = "write" /\ work' = [work EXCEPT !.at = @ + 1]
  BY <1>3 DEF WriteSplit, Go
<1>5. work = [columns |-> work.columns, files |-> work.files, stage |-> work.stage, at |-> work.at]
  BY <1>1 DEF RowsFinite
<1>6. work'.columns = work.columns /\ work'.files = work.files /\ work'.stage = work.stage
  BY <1>4, <1>5
<1>7. "preprocess" \notin fresh'
  <2>1. step \in PrepSteps
    BY <1>1 DEF PrepSteps
  <2> QED BY <1>1, <2>1, PreparingKeeps
<1> QED BY <1>1, <1>2, <1>4, <1>6, <1>7 DEF DataReady

LEMMA ManifestsReady ==
    ASSUME ReleaseInv, DatasetInv, DataReady, WriteManifests, Meant
    PROVE  step' # "raised" /\ DataReady'
<1>1. /\ step = "write" /\ work.at > 4 /\ step' = "report" /\ corpus' = corpus /\ fresh' = fresh
      /\ data' = [data EXCEPT !.manifest = work.files, !.columns = work.columns]
  BY Names DEF WriteManifests, Go
<1>2. /\ work.stage = [s \in Splits |-> work.stage[s]]
      /\ work.at = 5
      /\ \A j \in 1..(work.at - 1) : data.rows[SplitNames[j]] = work.stage[SplitNames[j]]
  BY <1>1 DEF DatasetInv, SplitsWritten
<1>3. /\ data = [rows |-> data.rows, columns |-> data.columns, manifest |-> data.manifest,
                 report |-> data.report]
      /\ data.rows = [s \in Splits |-> data.rows[s]]
  BY <1>1 DEF ReleaseInv, LayoutsKept, DatasetInv
<1>4. data'.rows = data.rows /\ data'.columns = work.columns /\ data'.manifest = work.files
  BY <1>1, <1>3
<1>5. data.rows = work.stage
  <2>1. ASSUME NEW s \in Splits PROVE data.rows[s] = work.stage[s]
    <3>1. PICK j \in 1..4 : s = SplitNames[j]
      BY Names
    <3> QED BY <1>2, <3>1
  <2> QED BY <1>2, <1>3, <2>1
<1>6. /\ work.files \in Manifests(corpus) /\ UsableRows(work.stage, corpus)
      /\ work.columns \in Columns(corpus) \ {{}}
  BY <1>1 DEF DataReady
<1>7. "preprocess" \notin fresh'
  <2>1. step \in PrepSteps
    BY <1>1 DEF PrepSteps
  <2> QED BY <1>1, <2>1, PreparingKeeps
<1>8. /\ data'.manifest \in Manifests(corpus') /\ UsableRows(data'.rows, corpus')
      /\ data'.columns \in Columns(corpus') \ {{}}
  BY <1>1, <1>4, <1>5, <1>6
<1> QED BY <1>1, <1>7, <1>8 DEF DataReady

LEMMA ReportReady ==
    ASSUME ReleaseInv, RowsFinite, DatasetInv, DataReady, WriteReport, Meant
    PROVE  step' # "raised" /\ DataReady'
<1>1. /\ step = "report" /\ step' = "idle" /\ corpus' = corpus
      /\ data' = [data EXCEPT !.report = Counts(data.rows)]
  BY DEF WriteReport, Complete
<1>2. data = [rows |-> data.rows, columns |-> data.columns, manifest |-> data.manifest,
              report |-> data.report]
  BY DEF ReleaseInv, LayoutsKept
<1>3. /\ data.manifest \in Manifests(corpus) /\ UsableRows(data.rows, corpus)
      /\ data.columns \in Columns(corpus) \ {{}}
  BY <1>1 DEF DataReady
<1>4. data' = [rows |-> data.rows, columns |-> data.columns, manifest |-> data.manifest,
               report |-> Counts(data.rows)]
  BY <1>1, <1>2
<1>5. Counts(data.rows) \in [Splits -> [Benign : Nat, Attack : Nat]]
  <2>1. ASSUME NEW s \in Splits PROVE IsFiniteSet(data.rows[s])
    <3>1. corpus \in Corpora \ {<<>>}
      BY DEF Meant, SoundCorpus
    <3>2. data.rows[s] \in Tables(corpus)
      BY <1>3 DEF UsableRows
    <3>3. data.rows[s] # None
      BY <3>1, <3>2, NoneAssumption
    <3> QED BY <3>3 DEF RowsFinite, FiniteRows
  <2>2. ASSUME NEW s \in Splits, NEW benign PROVE LabelCount(data.rows[s], benign) \in Nat
    <3> DEFINE rows == data.rows[s]
               part == {r \in rows : (r.family = "Benign") = benign}
    <3>1. IsFiniteSet(rows) /\ part \subseteq rows
      BY <2>1
    <3>2. LabelCount(rows, benign) = Cardinality(part)
      BY DEF LabelCount
    <3> HIDE DEF rows, part
    <3>3. IsFiniteSet(part)
      BY <3>1, FS_Subset
    <3>4. Cardinality(part) \in Nat
      BY <3>3, FS_CardinalityType
    <3> QED BY <3>2, <3>4 DEF rows
  <2> QED BY <2>2 DEF Counts
<1>6. /\ data'.rows = data.rows /\ data'.columns = data.columns
      /\ data'.manifest = data.manifest /\ data'.report = Counts(data.rows)
  BY <1>4
<1>7. data' \in Datasets(corpus)
  <2>1. data.rows \in [Splits -> Tables(corpus)]
    BY <1>3 DEF UsableRows
  <2> DEFINE R == [Splits -> [Benign : Nat, Attack : Nat]]
  <2>2. Counts(data.rows) \in R /\ data.columns \in Columns(corpus)
    BY <1>3, <1>5
  <2> HIDE DEF R
  <2>3. data' \in [rows : [Splits -> Tables(corpus)], columns : Columns(corpus),
                   manifest : Manifests(corpus), report : R]
    BY <1>3, <1>4, <2>1, <2>2
  <2> QED BY <2>3 DEF Datasets, R
<1>8. Usable(data', corpus')
  BY <1>1, <1>3, <1>6, <1>7 DEF Usable
<1> QED BY <1>1, <1>8 DEF DataReady

-----------------------------------------------------------------------------
\* What each part needs when what it speaks of is left alone.
Serving(d, c) ==
    /\ d # None /\ d.columns # None /\ d.manifest # None /\ d.report # None
    /\ d.columns # {} /\ d.columns \in Columns(c)
    /\ \A s \in Splits : d.rows[s] # None
    /\ d.report["train"].Benign \in Nat /\ d.report["train"].Benign # 0
    /\ d.report["train"].Attack \in Nat /\ d.report["train"].Attack # 0
    /\ \A s \in Three : Benign(d.rows[s]) # {} /\ Attacks(d.rows[s]) # {}
    /\ \A s \in Splits :
           /\ Unexpected(s, d.rows[s]) = {}
           /\ \A v \in Range(ViewOrder) : Filtered(v, s, d.rows[s]) # {}

LEMMA HomeServes ==
    ASSUME SelectionInv, CauseInv, Meant, "preprocess" \in fresh
    PROVE  Serving(data, corpus)
<1>1. corpus \in Corpora \ {<<>>}
  BY DEF Meant, SoundCorpus
<1>2. Usable(data, corpus) /\ FiniteRows(data.rows)
  BY DEF CauseInv, DataReady, SelectionInv, RowsFinite
<1> QED BY <1>1, <1>2, UsableServes DEF Serving

LEMMA KaggleServes ==
    ASSUME SelectionInv, CauseInv, Meant, OnKaggle \subseteq fresh
    PROVE  published = data /\ Serving(published, corpus) /\ \A ss : ss \subseteq Splits => Served(ss)
<1>1. "preprocess" \in fresh /\ "publish" \in fresh
  BY DEF OnKaggle
<1>2. published = data /\ Serving(data, corpus)
  BY <1>1, HomeServes DEF SelectionInv, SourcesKept
<1> QED BY <1>2 DEF Serving, Served

LEMMA DataReadyFrame ==
    ASSUME DataReady, UNCHANGED <<corpus, data>>, step' \notin PrepSteps,
           "preprocess" \in fresh' => "preprocess" \in fresh
    PROVE  DataReady'
<1>1. Meant' <=> Meant
  BY DEF Meant
<1>2. step' \notin {"assign", "trim", "write", "report"}
  BY DEF PrepSteps
<1>3. (Meant /\ "preprocess" \in fresh) => Usable(data, corpus)
  BY DEF DataReady
<1> QED BY <1>1, <1>2, <1>3 DEF DataReady

Sampling == {"fit", "fit kernel", "fit finalist", "baseline", "trials"}

LEMMA SamplesFrame == ASSUME step' \notin Sampling PROVE SamplesReady'
  BY DEF SamplesReady, Sampling

LEMMA ProductsFrame ==
    ASSUME ProductsReady, UNCHANGED <<corpus, data, views, release, family, bundle>>,
           step' \notin FamilySteps \cup {"summary"},
           \A x \in {"views", "release", "family", "binary"} : x \in fresh' => x \in fresh
    PROVE  ProductsReady'
<1>1. Meant' <=> Meant
  BY DEF Meant
<1> QED BY <1>1 DEF ProductsReady, FamilySteps

\* A script that goes on, and leaves what counts alone.
LEMMA Proceeds ==
    ASSUME CauseInv, UNCHANGED <<corpus, data, views, release, family, bundle>>,
           step' \notin PrepSteps \cup FamilySteps \cup {"summary", "raised"},
           \A x \in {"preprocess", "views", "release", "family", "binary"} :
               x \in fresh' => x \in fresh,
           SamplesReady'
    PROVE  CauseInv'
<1>1. DataReady' /\ ProductsReady'
  BY DataReadyFrame, ProductsFrame DEF CauseInv
<1> QED BY <1>1 DEF CauseInv, ScriptsFailForCause

LEMMA ProceedsAlone ==
    ASSUME CauseInv, UNCHANGED <<corpus, data, views, release, family, bundle>>,
           step' \notin PrepSteps \cup FamilySteps \cup Sampling \cup {"summary", "raised"},
           \A x \in {"preprocess", "views", "release", "family", "binary"} :
               x \in fresh' => x \in fresh
    PROVE  CauseInv'
  BY Proceeds, SamplesFrame

\* A script that fails has cause to.
Sampled == {"release", "baselines", "tuning", "benchmark", "promotion", "search"}

LEMMA Fails ==
    ASSUME CauseInv, UNCHANGED <<corpus, data, views, release, family, bundle>>, NEW s, Raise(s),
           (Meant /\ Reads[s] \subseteq fresh) => s \in Sampled /\ work # None /\ work.attack = 0
    PROVE  CauseInv'
<1>1. /\ step' = "raised" /\ fresh' = fresh /\ work' = [script |-> s, had |-> work]
  BY DEF Raise
<1>2. work'.script = s /\ work'.had = work
  BY <1>1
<1>3. DataReady' /\ ProductsReady' /\ SamplesReady'
  BY <1>1, DataReadyFrame, ProductsFrame, SamplesFrame DEF CauseInv, PrepSteps, FamilySteps, Sampling
<1>4. ScriptsFailForCause'
  <2> SUFFICES ASSUME SoundCorpus(corpus), Reads[s] \subseteq fresh
               PROVE  s \in Sampled /\ work # None /\ work.attack = 0
    BY <1>1, <1>2 DEF ScriptsFailForCause, Sampled
  <2>1. Meant
    BY DEF Meant, CauseInv, SoundCorpus
  <2> QED BY <2>1
<1> QED BY <1>3, <1>4 DEF CauseInv

-----------------------------------------------------------------------------
LEMMA PreprocessCause ==
    ASSUME ReleaseInv, SelectionInv, DatasetInv, CauseInv, PreprocessNext, ReleaseInv'
    PROVE  CauseInv'
<1>1. RowsFinite /\ DataReady
  BY DEF SelectionInv, CauseInv
<1>2. CASE BeginPreprocess
  <2>1. corpus' \in Corpora /\ step' = "clean"
    BY <1>2 DEF BeginPreprocess, Begin
  <2>2. fresh' = {}
    BY <2>1 DEF ReleaseInv, NothingStale, PrepSteps
  <2>3. DataReady' /\ ProductsReady' /\ SamplesReady'
    BY <2>1, <2>2 DEF DataReady, ProductsReady, SamplesReady, FamilySteps
  <2> QED BY <2>1, <2>3 DEF CauseInv, ScriptsFailForCause
<1>3. CASE ~BeginPreprocess
  <2>1. corpus' = corpus /\ step' \in PrepSteps \cup {"idle", "raised"} /\ step \in PrepSteps
    BY <1>3 DEF PreprocessNext, CleanFiles, AssignFamily, Dedupe, Trim, WriteSplit, WriteManifests,
                WriteReport, Go, Raise, Complete, prepVars, PrepSteps
  <2>2. fresh' \subseteq {"preprocess"}
    <3>1. CASE WriteReport
      <4>1. Complete("preprocess")
        BY <3>1 DEF WriteReport
      <4>2. fresh = {}
        BY <2>1 DEF ReleaseInv, NothingStale
      <4> QED BY <4>1, <4>2, AfterComplete DEF Makes
    <3>2. CASE ~WriteReport
      <4>1. fresh' = fresh
        BY <1>3, <3>2 DEF PreprocessNext, CleanFiles, AssignFamily, Dedupe, Trim, WriteSplit,
                          WriteManifests, Go, Raise
      <4> QED BY <2>1, <4>1 DEF ReleaseInv, NothingStale
    <3> QED BY <3>1, <3>2
  <2>3. ProductsReady' /\ SamplesReady'
    BY <2>1, <2>2 DEF ProductsReady, SamplesReady, PrepSteps, FamilySteps
  <2>4. Meant' <=> Meant
    BY <2>1 DEF Meant
  <2>5. Meant => step' # "raised" /\ DataReady'
    BY <1>1, <1>3, CleanReady, AssignReady, DedupeReady, TrimReady, WriteReady, ManifestsReady,
       ReportReady DEF PreprocessNext
  <2>6. DataReady'
    <3>1. ASSUME Meant' PROVE DataReady'
      BY <2>4, <2>5, <3>1
    <3>2. ASSUME ~Meant' PROVE DataReady'
      BY <3>2 DEF DataReady
    <3> QED BY <3>1, <3>2
  <2>7. corpus' \in Corpora \cup {<<>>}
    BY <2>1 DEF CauseInv
  <2>8. SoundCorpus(corpus') => Meant'
    BY <2>7 DEF Meant, SoundCorpus
  <2>9. ScriptsFailForCause'
    BY <2>4, <2>5, <2>8 DEF ScriptsFailForCause
  <2> QED BY <2>3, <2>6, <2>7, <2>9 DEF CauseInv
<1> QED BY <1>2, <1>3

LEMMA ViewsCause ==
    ASSUME ReleaseInv, SelectionInv, CauseInv, ViewNext,
           UNCHANGED <<kaggleVars, trainVars, bundle>>, ReleaseInv'
    PROVE  CauseInv'
<1> USE DEF prepVars, kaggleVars, trainVars
<1>1. CASE \E s \in {"views"} : Raise(s) /\ UNCHANGED <<corpus, data, views>>
  <2>1. Raise("views") /\ UNCHANGED <<corpus, data, views, release, family, bundle>>
    BY <1>1
  <2> SUFFICES ASSUME Meant, Reads["views"] \subseteq fresh PROVE FALSE
    BY <2>1, Fails
  <2>2. "preprocess" \in fresh
    BY DEF Reads
  <2>3. Serving(data, corpus)
    BY <2>2, HomeServes
  <2>4. ~BeginViews
    BY <2>1, <2>3 DEF BeginViews, Begin, Raise, Serving
  <2>5. ~DeriveSplit
    <3> SUFFICES ASSUME DeriveSplit PROVE FALSE
      OBVIOUS
    <3>1. work.view \in 1..2 /\ work.at \in 1..4 /\ step = "derive"
      <4>1. step = "derive" /\ work.at <= 4
        BY Names DEF DeriveSplit
      <4>2. work.view \in 1..2 /\ work.at \in 1..5
        BY <4>1 DEF ReleaseInv, ViewsGrow
      <4> QED BY <4>1, <4>2
    <3> DEFINE v == ViewOrder[work.view]
               s == SplitNames[work.at]
    <3>2. v \in Range(ViewOrder) /\ s \in Splits
      BY <3>1, Names
    <3> HIDE DEF v, s
    <3>3. Unexpected(s, data.rows[s]) = {} /\ Filtered(v, s, data.rows[s]) # {}
      BY <2>3, <3>2 DEF Serving
    <3>4. Go("derive", [work EXCEPT !.at = @ + 1])
      BY <3>3 DEF DeriveSplit, v, s
    <3> QED BY <2>1, <3>4 DEF Go, Raise
  <2> QED BY <1>1, <2>1, <2>4, <2>5 DEF ViewNext, CloseView, WriteIndex, Go, Complete, Raise
<1>2. ASSUME UNCHANGED <<corpus, data>>, step' \in ViewSteps, fresh' \subseteq fresh
      PROVE  CauseInv'
  <2>1. "views" \notin fresh'
    BY <1>2 DEF ReleaseInv, NothingStale
  <2>2. Meant' <=> Meant
    BY <1>2 DEF Meant
  <2>3. ProductsReady'
    BY <1>2, <2>1, <2>2 DEF CauseInv, ProductsReady, ViewSteps, FamilySteps
  <2>4. DataReady' /\ SamplesReady'
    BY <1>2, DataReadyFrame, SamplesFrame DEF CauseInv, PrepSteps, ViewSteps, Sampling
  <2> QED BY <1>2, <2>3, <2>4 DEF CauseInv, ScriptsFailForCause, ViewSteps
<1>3. CASE WriteIndex
  <2>1. Complete("views") /\ corpus' = corpus /\ data' = data /\ views' = [views EXCEPT !.index = TRUE]
    BY <1>3 DEF WriteIndex
  <2>2. step' = "idle" /\ fresh' \subseteq fresh \cup {"views"}
    BY <2>1, AfterComplete DEF Makes
  <2>3. views'.index
    BY <2>1 DEF ReleaseInv, LayoutsKept
  <2>4. Meant' <=> Meant
    BY <2>1 DEF Meant
  <2>5. ProductsReady'
    BY <2>1, <2>2, <2>3, <2>4 DEF CauseInv, ProductsReady, FamilySteps
  <2>6. DataReady' /\ SamplesReady'
    BY <2>1, <2>2, DataReadyFrame, SamplesFrame DEF CauseInv, PrepSteps, Sampling
  <2> QED BY <2>1, <2>2, <2>5, <2>6 DEF CauseInv, ScriptsFailForCause
<1>4. CASE ~WriteIndex /\ ~(\E s \in {"views"} : Raise(s) /\ UNCHANGED <<corpus, data, views>>)
  <2>1. UNCHANGED <<corpus, data>> /\ step' \in ViewSteps /\ fresh' \subseteq fresh
    <3>1. CASE BeginViews
      BY <1>4, <3>1 DEF BeginViews, Begin, ViewSteps, viewVars
    <3>2. CASE DeriveSplit \/ CloseView
      BY <1>4, <3>2 DEF DeriveSplit, CloseView, Go, ViewSteps
    <3> QED BY <1>4, <3>1, <3>2 DEF ViewNext
  <2> QED BY <1>2, <2>1
<1> QED BY <1>1, <1>3, <1>4

-----------------------------------------------------------------------------
\* A sample without a cap on its benign rows.
LEMMA DrawsDrawn ==
    ASSUME NEW n, n.Benign \in Nat, n.Benign # 0, n.Attack \in Nat, NEW cap,
           NEW draw \in Draws(n, None, cap)
    PROVE  Drawn(draw)
<1>1. PICK b \in Kept(n.Benign, None), a \in Kept(n.Attack, cap) : draw = [benign |-> b, attack |-> a]
  BY DEF Draws
<1>2. b = n.Benign
  BY DEF Kept
<1>3. a \in Nat
  <2>1. a = n.Attack \/ a \in 0..cap
    BY DEF Kept
  <2> QED BY <2>1
<1> QED BY <1>1, <1>2, <1>3 DEF Drawn

\* A sample that was drawn and could not be fitted has no attack.
LEMMA DrawnFails ==
    ASSUME Drawn(work), 0 \in {work.benign, work.attack}
    PROVE  work # None /\ work.attack = 0
  BY NoneAssumption DEF Drawn

LEMMA KaggleCause ==
    ASSUME ReleaseInv, SelectionInv, CauseInv, KaggleNext, UNCHANGED <<trainVars, bundle>>
    PROVE  CauseInv'
<1> USE DEF prepVars, viewVars, kaggleVars, trainVars
<1>1. UNCHANGED <<corpus, data, views, release, family, bundle>>
  BY DEF KaggleNext, BeginStaging, LinkSplits, LinkManifests, WriteMetadata, Publish, BeginBenchmark,
         FitStreaming, FitSampled, EvaluateKernel, BeginPromotion, FitFinalist, EvaluateFinalist
<1>2. \A at \in {"splits", "manifests", "metadata", "stream", "evaluate kernel", "evaluate finalist",
                 "idle"} :
          at \notin PrepSteps \cup FamilySteps \cup Sampling \cup {"summary", "raised"}
  BY DEF PrepSteps, FamilySteps, Sampling
<1>3. \A at \in {"fit kernel", "fit finalist"} :
          at \notin PrepSteps \cup FamilySteps \cup {"summary", "raised"}
  BY DEF PrepSteps, FamilySteps
<1> DEFINE Calm == /\ step' \in {"splits", "manifests", "metadata", "stream", "evaluate kernel",
                                 "evaluate finalist", "idle"}
                   /\ \A x \in {"preprocess", "views", "release", "family", "binary"} :
                          x \in fresh' => x \in fresh
<1>4. ASSUME Calm PROVE CauseInv'
  BY <1>1, <1>2, <1>4, ProceedsAlone
<1>5. ASSUME NEW s, s \in {"stage", "publish", "benchmark", "promotion"}, Complete(s) PROVE Calm
  <2>1. step' = "idle" /\ fresh' \subseteq fresh \cup {Makes(s)}
    BY <1>5, AfterComplete
  <2>2. Makes(s) \in {"stage", "publish", "benchmark", "promotion"}
    BY <1>5 DEF Makes
  <2> QED BY <2>1, <2>2
<1>6. ASSUME NEW s, s \in {"benchmark", "promotion"}, Raise(s), Served(Splits) => published.columns = {}
      PROVE  CauseInv'
  <2> SUFFICES ASSUME Meant, Reads[s] \subseteq fresh PROVE FALSE
    BY <1>1, <1>6, Fails
  <2>1. OnKaggle \subseteq fresh
    BY <1>6 DEF Reads
  <2> QED BY <1>6, <2>1, KaggleServes DEF Serving
<1> HIDE DEF Calm
<1>7. CASE BeginStaging
  <2>1. CASE Raise("stage")
    <3>1. ~Linkable(data)
      BY <1>7, <2>1 DEF BeginStaging, Begin, Raise
    <3> SUFFICES ASSUME Meant, Reads["stage"] \subseteq fresh PROVE FALSE
      BY <1>1, <2>1, Fails
    <3>2. Serving(data, corpus)
      BY HomeServes DEF Reads
    <3> QED BY <3>1, <3>2 DEF Serving, Linkable
  <2>2. CASE ~Raise("stage")
    BY <1>4, <1>7, <2>2 DEF BeginStaging, Begin, Calm
  <2> QED BY <2>1, <2>2
<1>8. CASE LinkSplits \/ LinkManifests
  BY <1>4, <1>8 DEF LinkSplits, LinkManifests, Go, Calm
<1>9. CASE WriteMetadata
  BY <1>4, <1>5, <1>9 DEF WriteMetadata
<1>10. CASE Publish
  BY <1>4, <1>10 DEF Publish, Calm
<1>11. CASE BeginBenchmark
  <2>1. CASE ~Served({"train", "val"})
    <3>1. Raise("benchmark") /\ ~Served(Splits)
      BY <1>11, <2>1, Names DEF BeginBenchmark, Served
    <3> QED BY <1>6, <3>1
  <2>2. CASE Served({"train", "val"})
    <3>1. PICK cap \in BenchmarkCaps :
              \E draw \in Draws(published.report["train"], None, cap) :
                  Begin("benchmark", IF cap = None THEN "stream" ELSE "fit kernel", draw)
      BY <1>11, <2>2 DEF BeginBenchmark
    <3>2. PICK draw \in Draws(published.report["train"], None, cap) :
                  Begin("benchmark", IF cap = None THEN "stream" ELSE "fit kernel", draw)
      BY <3>1
    <3>3. work' = draw /\ fresh' \subseteq fresh /\ step' = IF cap = None THEN "stream" ELSE "fit kernel"
      BY <3>2 DEF Begin
    <3>4. CASE step' = "stream"
      BY <1>4, <3>3, <3>4 DEF Calm
    <3>5. CASE step' = "fit kernel"
      <4>1. ASSUME Meant, OnKaggle \subseteq fresh PROVE Drawn(draw)
        <5>1. Serving(published, corpus)
          BY <4>1, KaggleServes
        <5> QED BY <5>1, DrawsDrawn DEF Serving
      <4>2. Meant' <=> Meant
        BY <1>1 DEF Meant
      <4>3. Drawn(work)' <=> Drawn(draw)
        BY <3>3 DEF Drawn
      <4>4. SamplesReady'
        BY <3>3, <3>5, <4>1, <4>2, <4>3 DEF SamplesReady
      <4> QED BY <1>1, <1>3, <3>3, <3>5, <4>4, Proceeds
    <3> QED BY <3>3, <3>4, <3>5
  <2> QED BY <2>1, <2>2
<1>12. CASE BeginPromotion
  <2>1. CASE ~Served({"train", "val"})
    <3>1. Raise("promotion") /\ ~Served(Splits)
      BY <1>12, <2>1, Names DEF BeginPromotion, Served
    <3> QED BY <1>6, <3>1
  <2>2. CASE Served({"train", "val"})
    <3>1. PICK cap \in PromotionCaps :
              \E draw \in Draws(published.report["train"], cap.benign, cap.attack) :
                  Begin("promotion", "fit finalist", draw)
      BY <1>12, <2>2 DEF BeginPromotion
    <3>2. PICK draw \in Draws(published.report["train"], None, cap.attack) :
                  Begin("promotion", "fit finalist", draw)
      BY <3>1, FinalistsAssumption
    <3>3. work' = draw /\ fresh' \subseteq fresh /\ step' = "fit finalist"
      BY <3>2 DEF Begin
    <3>4. ASSUME Meant, OnKaggle \subseteq fresh PROVE Drawn(draw)
      <4>1. Serving(published, corpus)
        BY <3>4, KaggleServes
      <4> QED BY <4>1, DrawsDrawn DEF Serving
    <3>5. Meant' <=> Meant
      BY <1>1 DEF Meant
    <3>6. Drawn(work)' <=> Drawn(draw)
      BY <3>3 DEF Drawn
    <3>7. SamplesReady'
      BY <3>3, <3>4, <3>5, <3>6 DEF SamplesReady
    <3> QED BY <1>1, <1>3, <3>3, <3>7, Proceeds
  <2> QED BY <2>1, <2>2
<1>13. CASE FitStreaming
  <2>1. CASE published.columns = {}
    <3>1. Raise("benchmark")
      BY <1>13, <2>1 DEF FitStreaming
    <3> QED BY <1>6, <2>1, <3>1
  <2>2. CASE published.columns # {}
    BY <1>4, <1>13, <2>2 DEF FitStreaming, Go, Calm
  <2> QED BY <2>1, <2>2
\* A sample that cannot be fitted.
<1>14. ASSUME NEW s \in {"benchmark", "promotion"}, NEW next \in {"evaluate kernel", "evaluate finalist"},
              step \in {"fit kernel", "fit finalist"}, Fit(s, next)
       PROVE  CauseInv'
  <2>1. CASE Go(next, None)
    BY <1>4, <1>14, <2>1 DEF Go, Calm
  <2>2. CASE /\ published.columns = {} \/ 0 \in {work.benign, work.attack}
             /\ Raise(s)
    <3> SUFFICES ASSUME Meant, Reads[s] \subseteq fresh
                 PROVE  s \in Sampled /\ work # None /\ work.attack = 0
      BY <1>1, <2>2, Fails
    <3>1. OnKaggle \subseteq fresh
      <4>1. Reads["benchmark"] = OnKaggle /\ Reads["promotion"] = OnKaggle
        BY DEF Reads
      <4> QED BY <4>1
    <3>2. published.columns # {}
      BY <3>1, KaggleServes DEF Serving
    <3>3. Drawn(work)
      BY <1>14, <3>1 DEF CauseInv, SamplesReady
    <3> QED BY <2>2, <3>2, <3>3, DrawnFails DEF Sampled
  <2> QED BY <1>14, <2>1, <2>2 DEF Fit
<1>15. CASE FitSampled \/ FitFinalist
  BY <1>14, <1>15 DEF FitSampled, FitFinalist
<1>16. CASE EvaluateKernel \/ EvaluateFinalist
  <2>1. PICK s \in {"benchmark", "promotion"} : IF Served(Splits) THEN Complete(s) ELSE Raise(s)
    BY <1>16 DEF EvaluateKernel, EvaluateFinalist
  <2> QED BY <1>4, <1>5, <1>6, <2>1
<1> QED BY <1>7, <1>8, <1>9, <1>10, <1>11, <1>12, <1>13, <1>15, <1>16 DEF KaggleNext

-----------------------------------------------------------------------------
\* The released run: were the benign rows cut, no attack is left.
LEMMA TrainingDrawn ==
    ASSUME NEW n, n.Benign \in Nat, n.Benign # 0, n.Attack \in Nat, n.Attack # 0, NEW target,
           NEW draw \in Draws(n, TrainCaps(target, n.Benign).benign, TrainCaps(target, n.Benign).attack)
    PROVE  Drawn(draw)
<1> DEFINE caps == TrainCaps(target, n.Benign)
<1>1. CASE caps.benign = None
  BY <1>1, DrawsDrawn
<1>2. CASE caps.benign # None
  <2>1. caps.attack = 0
    <3>1. target # None
      BY <1>2 DEF TrainCaps
    <3>2. target <= n.Benign
      BY <1>2, <3>1 DEF TrainCaps
    <3> QED BY <3>1, <3>2 DEF TrainCaps
  <2>2. PICK b \in Kept(n.Benign, caps.benign), a \in Kept(n.Attack, 0) : draw = [benign |-> b, attack |-> a]
    BY <2>1 DEF Draws
  <2>3. a = 0
    <3>1. 0 # None /\ ~(0 >= n.Attack)
      BY NoneAssumption
    <3>2. a \in 0..0
      BY <3>1 DEF Kept
    <3> QED BY <3>2
  <2>4. b \in Nat
    <3>1. b = n.Benign \/ b \in 0..caps.benign
      BY DEF Kept
    <3> QED BY <3>1
  <2> QED BY <2>2, <2>3, <2>4 DEF Drawn
<1> QED BY <1>1, <1>2

LEMMA AttacksDrawn ==
    ASSUME NEW n, n.Benign \in Nat, n.Benign # 0, n.Attack \in Nat, NEW a \in AttackSample(n)
    PROVE  Drawn([benign |-> n.Benign, attack |-> a])
<1>1. a = n.Attack \/ a \in 0..SamplingTarget(n)
  BY DEF AttackSample, Kept
<1>2. a \in Nat
  BY <1>1
<1> QED BY <1>2 DEF Drawn

LEMMA SearchFails ==
    ASSUME NEW s \in {"tuning", "search"}, work = Search(s, 0) PROVE work # None
<1>1. Search(s, 0) \in [script : {"tuning", "search"}, attack : {0}, trials : {<<>>}, promoted : {None}]
  BY DEF Search
<1> QED BY <1>1, NoneAssumption

LEMMA TrainCause ==
    ASSUME ReleaseInv, SelectionInv, CauseInv, TrainNext, bundle' = bundle
    PROVE  CauseInv'
<1> USE DEF prepVars, viewVars, kaggleVars, trainVars
<1>1. UNCHANGED <<corpus, data, published, views, family, bundle>> /\ (Meant' <=> Meant)
  <2>1. UNCHANGED <<corpus, data, published, views, family>>
    BY DEF TrainNext, BeginRelease, FitRelease, WriteTraining, WriteSummary, BeginBaselines, FitBaseline,
           ScoreBaseline, BeginThresholds, WriteSelection, BeginTuning, BeginSearch, RunTrial,
           RunKernelTrial, FinishTuning
  <2> QED BY <2>1 DEF Meant
<1>2. \A at \in {"score baseline", "evaluate", "training", "idle"} :
          at \notin PrepSteps \cup FamilySteps \cup Sampling \cup {"summary", "raised"}
  BY DEF PrepSteps, FamilySteps, Sampling
<1>3. \A at \in {"fit", "baseline", "trials"} : at \notin PrepSteps \cup FamilySteps \cup {"summary", "raised"}
  BY DEF PrepSteps, FamilySteps
<1> DEFINE Calm == /\ step' \in {"score baseline", "evaluate", "training", "idle"}
                   /\ \A x \in {"preprocess", "views", "release", "family", "binary"} :
                          x \in fresh' => x \in fresh
<1>4. ASSUME Calm, release' = release PROVE CauseInv'
  BY <1>1, <1>2, <1>4, ProceedsAlone
<1>5. ASSUME NEW s, s \in {"baselines", "thresholds", "tuning", "search"}, Complete(s) PROVE Calm
  <2>1. step' = "idle" /\ fresh' \subseteq fresh \cup {Makes(s)}
    BY <1>5, AfterComplete
  <2>2. Makes(s) \in {"baselines", "thresholds", "tuning", "search"}
    BY <1>5 DEF Makes
  <2> QED BY <2>1, <2>2
<1> HIDE DEF Calm
\* A script that samples, and stops without what it needs or without an attack.
<1>6. ASSUME NEW s, s \in {"release", "search"}, Raise(s), release' = release,
             Meant /\ Serving(published, corpus) /\ Served(Splits) => work # None /\ work.attack = 0
      PROVE  CauseInv'
  <2> SUFFICES ASSUME Meant, Reads[s] \subseteq fresh
               PROVE  s \in Sampled /\ work # None /\ work.attack = 0
    BY <1>1, <1>6, Fails
  <2>1. OnKaggle \subseteq fresh
    BY <1>6 DEF Reads
  <2> QED BY <1>6, <2>1, KaggleServes DEF Sampled
<1>7. ASSUME NEW s, s \in {"baselines", "tuning"}, Raise(s), release' = release,
             Meant /\ "preprocess" \in fresh /\ Serving(data, corpus) => work # None /\ work.attack = 0
      PROVE  CauseInv'
  <2> SUFFICES ASSUME Meant, Reads[s] \subseteq fresh
               PROVE  s \in Sampled /\ work # None /\ work.attack = 0
    BY <1>1, <1>7, Fails
  <2>1. "preprocess" \in fresh
    BY <1>7 DEF Reads
  <2> QED BY <1>7, <2>1, HomeServes DEF Sampled
<1>8. ASSUME NEW s, s = "thresholds", Raise(s), release' = release,
             ~(Serving(data, corpus) /\ release.model = data.columns)
      PROVE  CauseInv'
  <2> SUFFICES ASSUME Meant, Reads[s] \subseteq fresh PROVE FALSE
    BY <1>1, <1>8, Fails
  <2>1. "preprocess" \in fresh /\ "release" \in fresh
    BY <1>8 DEF Reads
  <2>2. release.model = data.columns
    BY <2>1 DEF ReleaseInv, ColumnsAgree
  <2> QED BY <1>8, <2>1, <2>2, HomeServes
<1>9. ASSUME NEW w, work' = w, release' = release, fresh' \subseteq fresh,
             \/ step' = "fit" /\ (Meant /\ Serving(published, corpus) => Drawn(w))
             \/ step' = "baseline" /\ (Meant /\ Serving(data, corpus) => Drawn(w))
             \/ step' = "trials" /\ (w.attack = 0 => w = Search(w.script, 0))
      PROVE  CauseInv'
  <2>1. Drawn(work)' <=> Drawn(w)
    BY <1>9 DEF Drawn
  <2>2. (Meant /\ OnKaggle \subseteq fresh) => Serving(published, corpus)
    BY KaggleServes
  <2>3. (Meant /\ "preprocess" \in fresh) => Serving(data, corpus)
    BY HomeServes
  <2>4. (step' = "trials" /\ work'.attack = 0) => work' = Search(work'.script, 0)
    BY <1>9
  <2>5. SamplesReady'
    BY <1>1, <1>9, <2>1, <2>2, <2>3, <2>4 DEF SamplesReady, Search
  <2> QED BY <1>1, <1>3, <1>9, <2>5, Proceeds
\* The released run.
<1>10. CASE BeginRelease
  <2>1. CASE ~Served({"train", "val"})
    <3>1. Raise("release") /\ ~Served(Splits) /\ release' = release
      BY <1>10, <2>1, Names DEF BeginRelease, Served
    <3> QED BY <1>6, <3>1
  <2>2. CASE Served({"train", "val"})
    <3> DEFINE n == published.report["train"]
               caps(target) == TrainCaps(target, n.Benign)
    <3>1. PICK target \in TrainTargets :
              \E draw \in Draws(n, caps(target).benign, caps(target).attack) : Begin("release", "fit", draw)
      BY <1>10, <2>2 DEF BeginRelease
    <3>2. PICK draw \in Draws(n, caps(target).benign, caps(target).attack) : Begin("release", "fit", draw)
      BY <3>1
    <3>3. work' = draw /\ fresh' \subseteq fresh /\ step' = "fit" /\ release' = release
      BY <1>10, <3>2 DEF Begin, BeginRelease
    <3>4. ASSUME Serving(published, corpus) PROVE Drawn(draw)
      BY <3>4, TrainingDrawn DEF Serving
    <3> QED BY <1>9, <3>3, <3>4
  <2> QED BY <2>1, <2>2
<1>11. CASE FitRelease
  <2>1. CASE 0 \in {work.benign, work.attack} \/ published.columns = {} \/ ~Served(Splits)
    <3>1. Raise("release") /\ release' = release
      BY <1>11, <2>1 DEF FitRelease
    <3> SUFFICES ASSUME Meant, Reads["release"] \subseteq fresh
                 PROVE  work # None /\ work.attack = 0
      BY <1>1, <3>1, Fails DEF Sampled
    <3>2. OnKaggle \subseteq fresh
      BY DEF Reads
    <3>3. published.columns # {} /\ Served(Splits)
      BY <3>2, KaggleServes DEF Serving
    <3>4. Drawn(work)
      BY <1>11, <3>2 DEF CauseInv, SamplesReady, FitRelease
    <3> QED BY <2>1, <3>3, <3>4, DrawnFails
  <2>2. CASE ~(0 \in {work.benign, work.attack} \/ published.columns = {} \/ ~Served(Splits))
    <3>1. step = "fit" /\ step' = "training" /\ fresh' = fresh
      BY <1>11, <2>2 DEF FitRelease, Go
    <3>2. "release" \notin fresh'
      BY <3>1 DEF ReleaseInv, NothingStale, ReleaseSteps
    <3>3. step' \notin PrepSteps \cup FamilySteps \cup Sampling \cup {"summary", "raised", "oracle"}
      BY <3>1 DEF PrepSteps, FamilySteps, Sampling
    <3>4. ProductsReady'
      BY <1>1, <3>1, <3>2, <3>3 DEF CauseInv, ProductsReady
    <3>5. DataReady' /\ SamplesReady'
      BY <1>1, <3>1, <3>3, DataReadyFrame, SamplesFrame DEF CauseInv
    <3> QED BY <1>1, <3>3, <3>4, <3>5 DEF CauseInv, ScriptsFailForCause
  <2> QED BY <2>1, <2>2
<1>12. CASE WriteTraining
  <2>1. step = "training" /\ step' = "summary" /\ fresh' = fresh
    BY <1>12 DEF WriteTraining, Go
  <2>2. "release" \notin fresh'
    BY <2>1 DEF ReleaseInv, NothingStale, ReleaseSteps
  <2>3. release'.training = published'.columns
    BY <1>1, <1>12 DEF WriteTraining, ReleaseInv, LayoutsKept
  <2>4. step' \notin PrepSteps \cup FamilySteps \cup Sampling \cup {"raised", "oracle"}
    BY <2>1 DEF PrepSteps, FamilySteps, Sampling
  <2>5. ProductsReady'
    BY <1>1, <2>1, <2>2, <2>3, <2>4 DEF CauseInv, ProductsReady
  <2>6. DataReady' /\ SamplesReady'
    BY <1>1, <2>1, <2>4, DataReadyFrame, SamplesFrame DEF CauseInv
  <2> QED BY <1>1, <2>4, <2>5, <2>6 DEF CauseInv, ScriptsFailForCause
<1>13. CASE WriteSummary
  <2>1. step = "summary" /\ Complete("release")
    BY <1>13 DEF WriteSummary
  <2>2. step' = "idle" /\ fresh' \subseteq fresh \cup {"release"}
    BY <2>1, AfterComplete DEF Makes
  <2>3. "release" \notin fresh
    BY <2>1 DEF ReleaseInv, NothingStale, ReleaseSteps
  <2>4. ASSUME "release" \in fresh' PROVE published = data
    <3>1. Reads["release"] \subseteq fresh
      BY <2>1, <2>3, <2>4, AfterComplete
    <3>2. "publish" \in fresh
      BY <3>1 DEF Reads, OnKaggle
    <3> QED BY <3>2 DEF SelectionInv, SourcesKept
  <2>5. release'.summary = published.columns /\ release'.training = release.training
    BY <1>13 DEF WriteSummary, ReleaseInv, LayoutsKept
  <2>6. Meant => release.training = published.columns
    BY <2>1 DEF CauseInv, ProductsReady
  <2>7. step' \notin PrepSteps \cup FamilySteps \cup Sampling \cup {"raised", "oracle", "summary"}
    BY <2>2 DEF PrepSteps, FamilySteps, Sampling
  <2>8. ProductsReady'
    BY <1>1, <2>2, <2>4, <2>5, <2>6, <2>7 DEF CauseInv, ProductsReady
  <2>9. DataReady' /\ SamplesReady'
    BY <1>1, <2>2, <2>7, DataReadyFrame, SamplesFrame DEF CauseInv
  <2> QED BY <1>1, <2>7, <2>8, <2>9 DEF CauseInv, ScriptsFailForCause
\* The baselines.
<1>14. CASE BeginBaselines
  <2> DEFINE n == data.report["train"]
             lacking == \/ None \in {data.columns, data.report} \/ ~Have(Splits)
                        \/ 0 \in {n.Benign, n.Attack}
  <2>1. ~lacking \/ ~Serving(data, corpus)
    BY DEF Serving, Have
  <2>2. CASE lacking
    <3>1. Raise("baselines") /\ release' = release
      BY <1>14, <2>2 DEF BeginBaselines
    <3> QED BY <1>7, <2>1, <2>2, <3>1
  <2>3. CASE ~lacking
    <3>1. PICK a \in AttackSample(n) : Begin("baselines", "baseline", [benign |-> n.Benign, attack |-> a])
      BY <1>14, <2>3 DEF BeginBaselines
    <3>2. /\ work' = [benign |-> n.Benign, attack |-> a] /\ fresh' \subseteq fresh
          /\ step' = "baseline" /\ release' = release
      BY <1>14, <3>1 DEF Begin, BeginBaselines
    <3>3. Serving(data, corpus) => Drawn([benign |-> n.Benign, attack |-> a])
      BY AttacksDrawn DEF Serving
    <3> QED BY <1>9, <3>2, <3>3
  <2> QED BY <2>2, <2>3
<1>15. CASE FitBaseline
  <2>1. CASE work.attack = 0 \/ data.columns = {}
    <3>1. Raise("baselines") /\ release' = release /\ step = "baseline"
      BY <1>15, <2>1 DEF FitBaseline
    <3>2. ASSUME Meant, "preprocess" \in fresh, Serving(data, corpus)
          PROVE  work # None /\ work.attack = 0
      <4>1. Drawn(work)
        BY <3>1, <3>2 DEF CauseInv, SamplesReady
      <4>2. work.attack = 0
        BY <2>1, <3>2 DEF Serving
      <4> QED BY <4>1, <4>2, DrawnFails
    <3> QED BY <1>7, <3>1, <3>2
  <2>2. CASE ~(work.attack = 0 \/ data.columns = {})
    BY <1>4, <1>15, <2>2 DEF FitBaseline, Go, Calm
  <2> QED BY <2>1, <2>2
<1>16. CASE ScoreBaseline
  BY <1>4, <1>5, <1>16 DEF ScoreBaseline
\* The operating thresholds.
<1>17. CASE BeginThresholds
  <2>1. PICK scores \in Scores(release.model) :
            \/ /\ None \in {data.columns, release.model} \/ ~Have({"val"}) \/ ~scores
               /\ Raise("thresholds")
            \/ /\ ~(None \in {data.columns, release.model} \/ ~Have({"val"}) \/ ~scores)
               /\ \E w : Begin("thresholds", "evaluate", w)
    BY <1>17 DEF BeginThresholds
  <2>2. release' = release
    BY <1>17 DEF BeginThresholds
  <2>3. CASE /\ None \in {data.columns, release.model} \/ ~Have({"val"}) \/ ~scores
             /\ Raise("thresholds")
    <3>1. release.model = data.columns => scores
      BY DEF Scores
    <3>2. Serving(data, corpus) => data.columns # None /\ Have({"val"})
      BY Names DEF Serving, Have
    <3> QED BY <1>8, <2>2, <2>3, <3>1, <3>2
  <2>4. CASE \E w : Begin("thresholds", "evaluate", w)
    BY <1>4, <2>2, <2>4 DEF Begin, Calm
  <2> QED BY <2>1, <2>3, <2>4
<1>18. CASE WriteSelection
  <2>1. release' = release
    BY <1>18 DEF WriteSelection
  <2>2. CASE Complete("thresholds")
    BY <1>4, <1>5, <2>1, <2>2
  <2>3. CASE /\ \/ ~Have(Splits)
                \/ \E s \in {"val", "test"} : {} \in {Benign(data.rows[s]), Attacks(data.rows[s])}
             /\ Raise("thresholds")
    <3>1. Serving(data, corpus) =>
              /\ Have(Splits)
              /\ \A s \in {"val", "test"} : {} \notin {Benign(data.rows[s]), Attacks(data.rows[s])}
      BY DEF Serving, Have, Three
    <3> QED BY <1>8, <2>1, <2>3, <3>1
  <2> QED BY <1>18, <2>2, <2>3 DEF WriteSelection
\* The search.
<1>19. ASSUME NEW s \in {"tuning", "search"}, NEW a, Begin(s, "trials", Search(s, a)), release' = release
       PROVE  CauseInv'
  <2> DEFINE w == Search(s, a)
  <2>1. work' = w /\ fresh' \subseteq fresh /\ step' = "trials"
    BY <1>19 DEF Begin
  <2>2. w.attack = 0 => w = Search(w.script, 0)
    BY DEF Search
  <2> HIDE DEF w
  <2> QED BY <1>9, <1>19, <2>1, <2>2
<1>20. CASE BeginTuning
  <2> DEFINE n == data.report["train"]
             lacking == \/ None \in {data.columns, data.report} \/ ~Have({"train", "val", "ood"})
                        \/ 0 \in {n.Benign, n.Attack}
  <2>1. ~lacking \/ ~Serving(data, corpus)
    BY Names DEF Serving, Have
  <2>2. CASE lacking
    <3>1. Raise("tuning") /\ release' = release
      BY <1>20, <2>2 DEF BeginTuning
    <3> QED BY <1>7, <2>1, <2>2, <3>1
  <2>3. CASE ~lacking
    BY <1>19, <1>20, <2>3 DEF BeginTuning
  <2> QED BY <2>2, <2>3
<1>21. CASE BeginSearch
  <2>1. CASE ~Served({"train", "val", "ood"})
    <3>1. Raise("search") /\ ~Served(Splits) /\ release' = release
      BY <1>21, <2>1, Names DEF BeginSearch, Served
    <3> QED BY <1>6, <3>1
  <2>2. CASE Served({"train", "val", "ood"})
    BY <1>19, <1>21, <2>2 DEF BeginSearch
  <2> QED BY <2>1, <2>2
\* A trial: with an attack, and columns, it goes on.
<1>22. ASSUME step = "trials" PROVE
              /\ work.script \in {"tuning", "search"}
              /\ work = [script |-> work.script, attack |-> work.attack, trials |-> work.trials,
                         promoted |-> work.promoted]
  BY <1>22 DEF ReleaseInv, NothingStale
<1>23. ASSUME step = "trials", work.attack = 0, Meant PROVE work # None
  <2>1. work = Search(work.script, 0)
    BY <1>23 DEF CauseInv, SamplesReady
  <2> QED BY <1>22, <1>23, <2>1, SearchFails
<1>24. ASSUME NEW trials, step = "trials", Go("trials", Ranked(trials)), work.attack # 0, release' = release
       PROVE  CauseInv'
  <2>1. work' = Ranked(trials) /\ fresh' = fresh /\ step' = "trials"
    BY <1>24 DEF Go
  <2>2. Ranked(trials).attack = work.attack
    BY <1>22, <1>24 DEF Ranked
  <2> QED BY <1>9, <1>24, <2>1, <2>2
<1>25. CASE RunTrial
  <2>1. release' = release /\ step = "trials"
    BY <1>25 DEF RunTrial
  <2>2. CASE ~Fits(data.columns)
    <3>1. Raise("tuning")
      BY <1>25, <2>2 DEF RunTrial
    <3>2. Serving(data, corpus) => work.attack = 0
      BY <2>2 DEF Serving, Fits
    <3> QED BY <1>7, <1>23, <2>1, <3>1, <3>2
  <2>3. CASE Fits(data.columns)
    <3>1. PICK scores \in [{"benign", "attack"} -> Grid] :
              Go("trials", Ranked(Append(work.trials, Metrics(scores))))
      BY <1>25, <2>3 DEF RunTrial
    <3> QED BY <1>24, <2>1, <2>3, <3>1 DEF Fits
  <2> QED BY <2>2, <2>3
<1>26. CASE RunKernelTrial
  <2>1. release' = release /\ step = "trials"
    BY <1>26 DEF RunKernelTrial
  <2>2. CASE ~Fits(published.columns)
    <3>1. Raise("search")
      BY <1>26, <2>2 DEF RunKernelTrial
    <3>2. Serving(published, corpus) => work.attack = 0
      BY <2>2 DEF Serving, Fits
    <3> QED BY <1>6, <1>23, <2>1, <3>1, <3>2
  <2>3. CASE Fits(published.columns)
    <3>1. PICK scores \in [{"benign", "attack"} -> Grid] :
              Go("trials", Ranked(Append(work.trials, KernelMetrics(scores))))
      BY <1>26, <2>3 DEF RunKernelTrial
    <3> QED BY <1>24, <2>1, <2>3, <3>1 DEF Fits
  <2> QED BY <2>2, <2>3
<1>27. CASE FinishTuning
  BY <1>4, <1>5, <1>22, <1>27 DEF FinishTuning
<1> QED BY <1>10, <1>11, <1>12, <1>13, <1>14, <1>15, <1>16, <1>17, <1>18, <1>20, <1>21, <1>25, <1>26,
           <1>27 DEF TrainNext

-----------------------------------------------------------------------------
LEMMA SamplesAreRows ==
    ASSUME NEW rows, NEW limit, NEW sample \in Samples(rows, limit)
    PROVE  sample \subseteq rows
<1> DEFINE first == {CHOOSE r \in rows : r.family = l : l \in Labels(rows)}
           rest == rows \ first
           low == {r \in first : r.family \in Lowest(Labels(rows), limit)}
<1>1. first \subseteq rows
  BY DEF Labels
<1>2. sample = rows \/ sample = low \/ \E e \in SUBSET rest : sample = first \cup e
  BY DEF Samples
<1>3. low \subseteq first /\ rest \subseteq rows
  OBVIOUS
<1> HIDE DEF first, low, rest
<1> QED BY <1>1, <1>2, <1>3

\* The views, and what a kernel derives, have rows in every split, of known families
\* where only attacks are asked for.
LEMMA ViewsServe ==
    ASSUME ReleaseInv, SelectionInv, CauseInv, Meant, {"preprocess", "views"} \subseteq fresh,
           NEW v \in Range(ViewOrder)
    PROVE  /\ views.index
           /\ \A s \in Splits : Resolved(v, s) # {} /\ Resolved(v, s) = Filtered(v, s, data.rows[s])
<1>1. views.index /\ source = data /\ Serving(data, corpus)
  BY HomeServes DEF CauseInv, ProductsReady, SelectionInv, SourcesKept
<1>2. ASSUME NEW s \in Splits
      PROVE  Resolved(v, s) # {} /\ Resolved(v, s) = Filtered(v, s, data.rows[s])
  <2>1. views.files[v][s] = Filtered(v, s, data.rows[s])
    BY <1>1 DEF ReleaseInv, IndexMeansViews
  <2>2. Filtered(v, s, data.rows[s]) # {}
    BY <1>1 DEF Serving
  <2> QED BY <2>1, <2>2 DEF Resolved
<1> QED BY <1>1, <1>2

LEMMA KernelViewsServe ==
    ASSUME SelectionInv, CauseInv, Meant, OnKaggle \subseteq fresh, NEW v \in Range(ViewOrder)
    PROVE  /\ published # None
           /\ \A s \in Splits :
                  /\ KernelResolved(v, s) # {}
                  /\ KernelResolved(v, s) = Filtered(v, s, published.rows[s])
<1>1. Serving(published, corpus)
  BY KaggleServes
<1>2. ASSUME NEW s \in Splits
      PROVE  /\ KernelResolved(v, s) # {}
             /\ KernelResolved(v, s) = Filtered(v, s, published.rows[s])
  <2>1. Filtered(v, s, published.rows[s]) # {}
    BY <1>1 DEF Serving
  <2> QED BY <2>1 DEF KernelResolved, KernelFile
<1> QED BY <1>1, <1>2 DEF Serving

LEMMA OnlyKnownAttacks ==
    ASSUME NEW rows, NEW sample, sample \subseteq Filtered("attack_only", "train", rows)
    PROVE  Labels(sample) \subseteq KnownAttackFamilies
  BY Spaces DEF Filtered, Labels

LEMMA FamilyCause ==
    ASSUME ReleaseInv, SelectionInv, CauseInv,
           BeginFamily \/ BeginFamilyKernel \/ FitFamily \/ WriteOracle \/ FitMulticlass
    PROVE  CauseInv'
<1> USE DEF prepVars, viewVars, kaggleVars, trainVars
<1>1. UNCHANGED <<corpus, data, views, release, bundle>> /\ (Meant' <=> Meant)
  <2>1. UNCHANGED <<corpus, data, views, release, bundle>>
    BY DEF BeginFamily, BeginFamilyKernel, FitFamily, WriteOracle, FitMulticlass
  <2> QED BY <2>1 DEF Meant
<1>2. \A at \in {"family", "oracle", "idle"} :
          at \notin PrepSteps \cup Sampling \cup {"raised", "summary"}
  BY DEF PrepSteps, Sampling
<1>3. ASSUME step' \in {"family", "oracle", "idle"}, "preprocess" \in fresh' => "preprocess" \in fresh,
             ProductsReady'
      PROVE  CauseInv'
  <2>1. DataReady' /\ SamplesReady'
    BY <1>1, <1>2, <1>3, DataReadyFrame, SamplesFrame DEF CauseInv
  <2> QED BY <1>1, <1>3, <2>1 DEF CauseInv, ScriptsFailForCause
<1>4. Meant /\ "preprocess" \in fresh => Serving(data, corpus)
  BY HomeServes
\* Either begins.
<1>5. ASSUME NEW s, NEW columns, NEW sample, family' = family,
             Begin(s, "family", [script |-> s, columns |-> columns, labels |-> Labels(sample)]),
             (Meant /\ Makes(s) = "family" /\ Reads[s] \subseteq fresh)
                 => Labels(sample) \subseteq KnownAttackFamilies
      PROVE  CauseInv'
  <2>1. /\ fresh' \subseteq fresh /\ step' = "family"
        /\ work' = [script |-> s, columns |-> columns, labels |-> Labels(sample)]
    BY <1>5 DEF Begin
  <2>2. work'.script = s /\ work'.labels = Labels(sample)
    BY <2>1
  <2>3. Meant => ((Makes(work'.script) = "family" /\ Reads[work'.script] \subseteq fresh')
                      => work'.labels \subseteq KnownAttackFamilies)
    BY <1>5, <2>1, <2>2
  <2>4. ProductsReady'
    BY <1>1, <1>5, <2>1, <2>3 DEF CauseInv, ProductsReady, Makes
  <2> QED BY <1>3, <2>1, <2>4
<1>6. CASE BeginFamily
  <2>1. PICK v \in Range(ViewOrder) :
            \/ /\ ~views.index \/ \E s \in Splits : Resolved(v, s) = {}
               /\ Raise(ScriptOf[v])
            \/ \E sample \in Samples(Resolved(v, "train"), MaxTrainRows) :
                   Begin(ScriptOf[v], "family",
                         [script |-> ScriptOf[v], columns |-> views.columns, labels |-> Labels(sample)])
    BY <1>6 DEF BeginFamily
  <2>2. family' = family
    BY <1>6 DEF BeginFamily
  <2>3. v \in {"attack_only", "direct_multiclass"} /\ "train" \in Splits
    BY Names
  <2>4. /\ ScriptOf["attack_only"] = "family" /\ ScriptOf["direct_multiclass"] = "multiclass"
        /\ Reads["family"] = {"preprocess", "views"} /\ Reads["multiclass"] = {"preprocess", "views"}
        /\ Makes("multiclass") # "family"
    BY DEF ScriptOf, Reads, Makes
  <2>5. Reads[ScriptOf[v]] = {"preprocess", "views"} /\ (Makes(ScriptOf[v]) = "family" => v = "attack_only")
    BY <2>3, <2>4
  <2>6. CASE /\ ~views.index \/ \E s \in Splits : Resolved(v, s) = {}
             /\ Raise(ScriptOf[v])
    <3> SUFFICES ASSUME Meant, Reads[ScriptOf[v]] \subseteq fresh PROVE FALSE
      BY <1>1, <2>2, <2>6, Fails
    <3> QED BY <2>5, <2>6, ViewsServe
  <2>7. CASE \E sample \in Samples(Resolved(v, "train"), MaxTrainRows) :
                   Begin(ScriptOf[v], "family",
                         [script |-> ScriptOf[v], columns |-> views.columns, labels |-> Labels(sample)])
    <3>1. PICK sample \in Samples(Resolved(v, "train"), MaxTrainRows) :
                   Begin(ScriptOf[v], "family",
                         [script |-> ScriptOf[v], columns |-> views.columns, labels |-> Labels(sample)])
      BY <2>7
    <3>2. ASSUME Meant, Makes(ScriptOf[v]) = "family", Reads[ScriptOf[v]] \subseteq fresh
          PROVE  Labels(sample) \subseteq KnownAttackFamilies
      <4>1. Resolved(v, "train") = Filtered("attack_only", "train", data.rows["train"])
        BY <2>3, <2>5, <3>2, ViewsServe
      <4>2. sample \subseteq Resolved(v, "train")
        BY SamplesAreRows
      <4> QED BY <4>1, <4>2, OnlyKnownAttacks
    <3> QED BY <1>5, <2>2, <3>1, <3>2
  <2> QED BY <2>1, <2>6, <2>7
<1>7. CASE BeginFamilyKernel
  <2>1. PICK v \in Range(ViewOrder) :
            \/ /\ published = None \/ \E s \in Splits : KernelResolved(v, s) = {}
               /\ Raise(KernelOf[v])
            \/ \E sample \in Samples(KernelResolved(v, "train"), KernelTrainRows) :
                   Begin(KernelOf[v], "family",
                         [script |-> KernelOf[v], columns |-> published.columns, labels |-> Labels(sample)])
    BY <1>7 DEF BeginFamilyKernel
  <2>2. family' = family
    BY <1>7 DEF BeginFamilyKernel
  <2>3. v \in {"attack_only", "direct_multiclass"} /\ "train" \in Splits
    BY Names
  <2>4. /\ KernelOf["attack_only"] = "stage2" /\ KernelOf["direct_multiclass"] = "direct"
        /\ Reads["stage2"] = OnKaggle /\ Reads["direct"] = OnKaggle
        /\ Makes("direct") # "family"
    BY DEF KernelOf, Reads, Makes
  <2>5. Reads[KernelOf[v]] = OnKaggle /\ (Makes(KernelOf[v]) = "family" => v = "attack_only")
    BY <2>3, <2>4
  <2>6. CASE /\ published = None \/ \E s \in Splits : KernelResolved(v, s) = {}
             /\ Raise(KernelOf[v])
    <3> SUFFICES ASSUME Meant, Reads[KernelOf[v]] \subseteq fresh PROVE FALSE
      BY <1>1, <2>2, <2>6, Fails
    <3> QED BY <2>5, <2>6, KernelViewsServe
  <2>7. CASE \E sample \in Samples(KernelResolved(v, "train"), KernelTrainRows) :
                   Begin(KernelOf[v], "family",
                         [script |-> KernelOf[v], columns |-> published.columns, labels |-> Labels(sample)])
    <3>1. PICK sample \in Samples(KernelResolved(v, "train"), KernelTrainRows) :
                   Begin(KernelOf[v], "family",
                         [script |-> KernelOf[v], columns |-> published.columns, labels |-> Labels(sample)])
      BY <2>7
    <3>2. ASSUME Meant, Makes(KernelOf[v]) = "family", Reads[KernelOf[v]] \subseteq fresh
          PROVE  Labels(sample) \subseteq KnownAttackFamilies
      <4>1. KernelResolved(v, "train") = Filtered("attack_only", "train", published.rows["train"])
        BY <2>3, <2>5, <3>2, KernelViewsServe
      <4>2. sample \subseteq KernelResolved(v, "train")
        BY SamplesAreRows
      <4> QED BY <4>1, <4>2, OnlyKnownAttacks
    <3> QED BY <1>5, <2>2, <3>1, <3>2
  <2> QED BY <2>1, <2>6, <2>7
\* What is under way.
<1>8. ASSUME step \in FamilySteps
      PROVE  /\ work.script \in {"family", "multiclass", "stage2", "direct"}
             /\ Reads[work.script] \subseteq fresh => work.columns = data.columns /\ "preprocess" \in fresh
             /\ Makes(work.script) = "family" => "family" \notin fresh
  <2>1. /\ work.script \in {"family", "multiclass", "stage2", "direct"}
        /\ Reads[work.script] \subseteq fresh => work.columns = data.columns
        /\ Makes(work.script) = "family" => "family" \notin fresh
    BY <1>8 DEF ReleaseInv, ColumnsAgree, NothingStale
  <2>2. \A s \in {"family", "multiclass", "stage2", "direct"} : "preprocess" \in Reads[s]
    BY DEF Reads, OnKaggle
  <2> QED BY <2>1, <2>2
<1>9. ASSUME step \in FamilySteps, work.columns = {}, Raise(work.script), family' = family PROVE CauseInv'
  <2> SUFFICES ASSUME Meant, Reads[work.script] \subseteq fresh PROVE FALSE
    BY <1>1, <1>9, Fails
  <2> QED BY <1>4, <1>8, <1>9 DEF Serving
<1>10. CASE FitFamily
  <2>1. step = "family" /\ Makes(work.script) = "family" /\ step \in FamilySteps
    BY <1>10 DEF FitFamily, FamilySteps
  <2>2. CASE work.columns = {}
    BY <1>9, <1>10, <2>1, <2>2 DEF FitFamily
  <2>3. CASE work.columns # {}
    <3>1. /\ step' = "oracle" /\ work' = work /\ fresh' = fresh
          /\ family' = [family EXCEPT !.model = Fitted(work)]
      BY <1>10, <2>3 DEF FitFamily, Go
    <3>2. family'.model = Fitted(work)
      BY <3>1 DEF ReleaseInv, LayoutsKept
    <3>3. ASSUME Meant, Reads[work.script] \subseteq fresh PROVE Fitted(work) \in Classifiers(corpus)
      <4>1. work.labels \subseteq KnownAttackFamilies
        BY <2>1, <3>3 DEF CauseInv, ProductsReady
      <4>2. work.columns \in Columns(corpus)
        BY <1>4, <1>8, <2>1, <3>3 DEF Serving
      <4> QED BY <4>1, <4>2 DEF Fitted, Classifiers
    <3>4. "oracle" \in FamilySteps
      BY DEF FamilySteps
    <3>5. ProductsReady'
      <4> SUFFICES ASSUME Meant PROVE
              /\ "views" \in fresh' => views'.index
              /\ step' = "summary" => release'.training = published'.columns
              /\ "release" \in fresh' =>
                     release'.training = data'.columns /\ release'.summary = data'.columns
              /\ (step' \in FamilySteps /\ Makes(work'.script) = "family" /\ Reads[work'.script] \subseteq fresh')
                     => work'.labels \subseteq KnownAttackFamilies
              /\ (step' = "oracle" /\ Reads[work'.script] \subseteq fresh')
                     => family'.model \in Classifiers(corpus')
              /\ "family" \in fresh' =>
                     family'.model \in Classifiers(corpus') /\ family'.report \in Classifiers(corpus')
              /\ "binary" \in fresh' => bundle'["binary"]["columns"] = data'.columns
        BY <1>1 DEF ProductsReady, Makes
      <4>1. ProductsReady
        BY DEF CauseInv
      <4>2. "family" \notin fresh'
        BY <1>8, <2>1, <3>1
      <4>3. (Makes(work'.script) = "family" /\ Reads[work'.script] \subseteq fresh')
                => work'.labels \subseteq KnownAttackFamilies
        BY <2>1, <3>1, <4>1 DEF ProductsReady
      <4>4. Reads[work'.script] \subseteq fresh' => family'.model \in Classifiers(corpus')
        BY <1>1, <3>1, <3>2, <3>3
      <4> QED BY <1>1, <3>1, <4>1, <4>2, <4>3, <4>4 DEF ProductsReady
    <3> QED BY <1>3, <3>1, <3>5
  <2> QED BY <2>2, <2>3
<1>11. CASE WriteOracle
  <2>1. step = "oracle" /\ Complete(work.script) /\ step \in FamilySteps
    BY <1>11 DEF WriteOracle, FamilySteps
  <2>2. Makes(work.script) = "family"
    BY <2>1 DEF ReleaseInv, ColumnsAgree
  <2>3. /\ step' = "idle" /\ fresh' \subseteq fresh \cup {"family"}
        /\ "family" \in fresh' => Reads[work.script] \subseteq fresh
    BY <1>8, <2>1, <2>2, AfterComplete
  <2>4. family'.model = family.model /\ family'.report = OracleReport(work)
    BY <1>11 DEF WriteOracle, ReleaseInv, LayoutsKept
  <2>5. ASSUME Meant, "family" \in fresh'
        PROVE  family.model \in Classifiers(corpus) /\ OracleReport(work) \in Classifiers(corpus)
    <3>1. family.model \in Classifiers(corpus)
      BY <2>1, <2>3, <2>5 DEF CauseInv, ProductsReady
    <3>2. work.columns \in Columns(corpus)
      BY <1>4, <1>8, <2>1, <2>3, <2>5 DEF Serving
    <3>3. LabelSpace["attack_only"] \in SUBSET KnownAttackFamilies
      BY Spaces
    <3>4. OracleReport(work) \in Classifiers(corpus)
      BY <3>2, <3>3 DEF OracleReport, Classifiers
    <3> QED BY <3>1, <3>4
  <2>6. step' \notin FamilySteps \cup {"summary", "oracle"}
    BY <2>3 DEF FamilySteps
  <2>7. ProductsReady'
    BY <1>1, <2>3, <2>4, <2>5, <2>6 DEF CauseInv, ProductsReady
  <2> QED BY <1>3, <2>3, <2>7
<1>12. CASE FitMulticlass
  <2>1. /\ step \in FamilySteps /\ Makes(work.script) # "family" /\ family' = family
        /\ IF work.columns = {} THEN Raise(work.script) ELSE Complete(work.script)
    BY <1>12 DEF FitMulticlass, FamilySteps
  <2>2. CASE work.columns = {}
    BY <1>9, <2>1, <2>2
  <2>3. CASE work.columns # {}
    <3>1. step' = "idle" /\ fresh' \subseteq fresh \cup {Makes(work.script)}
      BY <2>1, <2>3, AfterComplete
    <3>2. Makes(work.script) \in {"multiclass", "direct"}
      BY <1>8, <2>1 DEF Makes
    <3>3. step' \notin PrepSteps \cup FamilySteps \cup Sampling \cup {"summary", "raised"}
      BY <3>1 DEF PrepSteps, FamilySteps, Sampling
    <3> QED BY <1>1, <2>1, <3>1, <3>2, <3>3, ProceedsAlone
  <2> QED BY <2>2, <2>3
<1> QED BY <1>6, <1>7, <1>10, <1>11, <1>12

-----------------------------------------------------------------------------
\* What a packaging finds, if all it reads is up to date.
LEMMA PackagingFinds ==
    ASSUME ReleaseInv, SelectionInv, CauseInv, Meant, NEW k \in Kinds, Reads[k] \subseteq fresh
    PROVE  /\ data.columns # None /\ data.columns \in Columns(corpus) /\ corpus \in Corpora \ {<<>>}
           /\ release.model = data.columns /\ release.training = data.columns
           /\ release.summary = data.columns /\ thresholds = data.columns
           /\ k = "composite" =>
                  /\ family.model # None /\ family.report # None /\ family.report.labels = ClosedSet
<1>1. {"preprocess", "release", "thresholds"} \subseteq fresh /\ (k = "composite" => "family" \in fresh)
  <2>1. /\ Reads["binary"] = {"preprocess", "release", "thresholds"}
        /\ Reads["composite"] = {"preprocess", "release", "thresholds", "family"}
    BY DEF Reads
  <2>2. k = "binary" \/ k = "composite"
    BY DEF Kinds
  <2> QED BY <2>1, <2>2
<1>2. Serving(data, corpus) /\ corpus \in Corpora \ {<<>>}
  BY <1>1, HomeServes DEF Meant, SoundCorpus
<1>3. /\ release.model = data.columns /\ release.training = data.columns
      /\ release.summary = data.columns /\ thresholds = data.columns
  BY <1>1 DEF ReleaseInv, ColumnsAgree, CauseInv, ProductsReady
<1>4. ASSUME k = "composite"
      PROVE  family.model # None /\ family.report # None /\ family.report.labels = ClosedSet
  <2>1. family.model \in Classifiers(corpus) /\ family.report \in Classifiers(corpus)
    BY <1>1, <1>4 DEF CauseInv, ProductsReady
  <2>2. family.report.labels = KnownAttackFamilies
    BY <1>1, <1>4, Spaces DEF ReleaseInv, ColumnsAgree
  <2>3. None \notin Classifiers(corpus)
    BY <1>2, NoneAssumption
  <2> QED BY <2>1, <2>2, <2>3, ClosedSetAssumption
<1> QED BY <1>2, <1>3, <1>4 DEF Serving

\* Whatever is to be written then, there is something to write.
LEMMA PackagingProceeds ==
    ASSUME ReleaseInv, SelectionInv, CauseInv, Meant, step = "package", Reads[work.kind] \subseteq fresh,
           work.at <= Len(Packaging[work.kind])
    PROVE  Content(work.kind, Packaging[work.kind][work.at]) # None
<1> DEFINE k == work.kind
           f == Packaging[k][work.at]
<1>1. /\ k \in Kinds /\ work.at \in 2..Len(Packaging[k])
      /\ \A i \in 1..(work.at - 1) :
             bundle[k][Packaging[k][i]] = Content(k, Packaging[k][i])
  BY DEF ReleaseInv, Packed
<1>2. /\ data.columns # None /\ data.columns \in Columns(corpus) /\ corpus \in Corpora \ {<<>>}
      /\ release.model = data.columns /\ release.training = data.columns
      /\ release.summary = data.columns /\ thresholds = data.columns
      /\ k = "composite" =>
             /\ family.model # None /\ family.report # None /\ family.report.labels = ClosedSet
  BY <1>1, PackagingFinds
<1>3. CASE k = "binary"
  <2>1. /\ Packaging[k][2] = "columns" /\ Packaging[k][3] = "metrics"
        /\ Packaging[k][4] = "training" /\ Packaging[k][5] = "manifest" /\ Packaging[k][6] = "card"
        /\ Len(Packaging[k]) = 6
    BY <1>3 DEF Packaging
  <2>2. work.at \in 2..6
    BY <1>1, <2>1
  <2>3. f \in {"columns", "metrics", "training", "card"} => Content(k, f) # None
    <3>1. k # None
      BY <1>1, NoneAssumption
    <3> HIDE DEF f, k
    <3> QED BY <1>2, <3>1 DEF Content
  <2>4. CASE work.at = 5
    <3>1. bundle[k]["columns"] = Content(k, "columns")
      BY <1>1, <2>1, <2>4
    <3>2. bundle[k]["columns"] = data.columns
      BY <3>1 DEF Content
    <3>3. Manifest(k) \in Contracts(corpus)
      BY <1>2, <1>3, <3>2 DEF Manifest, Contracts, Kinds
    <3>4. Manifest(k) # None
      BY <1>2, <3>3, NoneAssumption
    <3>5. Content(k, "manifest") = Manifest(k)
      BY DEF Content
    <3> QED BY <2>1, <2>4, <3>4, <3>5
  <2>5. CASE work.at # 5
    <3>1. f \in {"columns", "metrics", "training", "card"}
      BY <2>1, <2>2, <2>5
    <3> QED BY <2>3, <3>1
  <2> QED BY <2>4, <2>5
<1>4. CASE k = "composite"
  <2>1. /\ Packaging[k][2] = "columns" /\ Packaging[k][3] = "metrics"
        /\ Packaging[k][4] = "training" /\ Packaging[k][5] = "stage2_model"
        /\ Packaging[k][6] = "stage2_columns" /\ Packaging[k][7] = "stage2_report"
        /\ Packaging[k][8] = "manifest" /\ Packaging[k][9] = "card"
        /\ Len(Packaging[k]) = 9
    BY <1>4 DEF Packaging
  <2>2. work.at \in 2..9
    BY <1>1, <2>1
  <2> DEFINE Others == {"columns", "metrics", "training", "stage2_model", "stage2_columns", "stage2_report",
                        "card"}
  <2>3. f \in Others => Content(k, f) # None
    <3>1. k # None
      BY <1>1, NoneAssumption
    <3> HIDE DEF f, k
    <3> QED BY <1>2, <1>4, <3>1 DEF Content
  <2>4. CASE work.at = 8
    <3>1. /\ bundle[k]["columns"] = Content(k, "columns")
          /\ bundle[k]["stage2_columns"] = Content(k, "stage2_columns")
      BY <1>1, <2>1, <2>4
    <3>2. bundle[k]["columns"] = data.columns /\ bundle[k]["stage2_columns"] = data.columns
      BY <3>1 DEF Content
    <3>3. Manifest(k) \in Contracts(corpus)
      BY <1>2, <1>4, <3>2 DEF Manifest, Contracts, Kinds
    <3>4. Manifest(k) # None
      BY <1>2, <3>3, NoneAssumption
    <3>5. Content(k, "manifest") = Manifest(k)
      BY DEF Content
    <3> QED BY <2>1, <2>4, <3>4, <3>5
  <2>5. CASE work.at # 8
    <3>1. f \in Others
      BY <2>1, <2>2, <2>5
    <3> QED BY <2>3, <3>1
  <2> QED BY <2>4, <2>5
<1> QED BY <1>1, <1>3, <1>4 DEF Kinds

LEMMA PackagingCause ==
    ASSUME ReleaseInv, SelectionInv, CauseInv,
           BeginPackaging \/ Package \/ BeginGated \/ EvaluateGated
    PROVE  CauseInv'
<1> USE DEF prepVars, viewVars, kaggleVars, trainVars
<1>1. UNCHANGED <<corpus, data, views, release, family>> /\ (Meant' <=> Meant)
  <2>1. UNCHANGED <<corpus, data, views, release, family>>
    BY DEF BeginPackaging, Package, BeginGated, EvaluateGated
  <2> QED BY <2>1 DEF Meant
<1>2. \A at \in {"package", "gated", "idle"} :
          at \notin PrepSteps \cup FamilySteps \cup Sampling \cup {"summary", "oracle", "raised"}
  BY DEF PrepSteps, FamilySteps, Sampling
\* A bundle is added to, and only the columns in the binary one matter.
<1>3. ASSUME step' \in {"package", "idle"},
             \A x \in {"preprocess", "views", "release", "family"} : x \in fresh' => x \in fresh,
             "binary" \in fresh' => bundle'["binary"]["columns"] = data.columns \/ ~Meant
      PROVE  CauseInv'
  <2>1. step' \notin PrepSteps \cup FamilySteps \cup Sampling \cup {"summary", "oracle", "raised"}
    BY <1>2, <1>3
  <2>2. ProductsReady'
    BY <1>1, <1>3, <2>1 DEF CauseInv, ProductsReady
  <2>3. DataReady' /\ SamplesReady'
    BY <1>1, <1>3, <2>1, DataReadyFrame, SamplesFrame DEF CauseInv
  <2> QED BY <1>1, <2>1, <2>2, <2>3 DEF CauseInv, ScriptsFailForCause
<1>4. DOMAIN bundle = Kinds /\ \A k \in Kinds : DOMAIN bundle[k] = BundleFiles
  BY DEF ReleaseInv, LayoutsKept
<1>5. "binary" \in fresh /\ Meant => bundle["binary"]["columns"] = data.columns
  BY DEF CauseInv, ProductsReady
<1>6. "binary" \in Kinds /\ {"model", "columns", "card"} \subseteq BundleFiles
  BY DEF Kinds, BundleFiles
<1>7. CASE BeginPackaging
  <2>1. PICK k \in DOMAIN Packaging :
            IF release.model = None THEN Raise(k) /\ UNCHANGED bundle
            ELSE /\ Begin(k, "package", [kind |-> k, at |-> 2])
                 /\ bundle' = [bundle EXCEPT ![k]["model"] = release.model]
    BY <1>7 DEF BeginPackaging
  <2>2. k \in Kinds
    BY DEF Packaging, Kinds
  <2>3. CASE release.model = None
    <3>1. Raise(k) /\ bundle' = bundle
      BY <2>1, <2>3
    <3> SUFFICES ASSUME Meant, Reads[k] \subseteq fresh PROVE FALSE
      BY <1>1, <3>1, Fails
    <3> QED BY <2>2, <2>3, PackagingFinds
  <2>4. CASE release.model # None
    <3>1. /\ step' = "package" /\ fresh' \subseteq fresh
          /\ bundle' = [bundle EXCEPT ![k]["model"] = release.model]
      BY <2>1, <2>4 DEF Begin
    <3>2. bundle'["binary"]["columns"] = bundle["binary"]["columns"]
      BY <1>4, <1>6, <3>1
    <3> QED BY <1>3, <1>5, <3>1, <3>2
  <2> QED BY <2>3, <2>4
<1>8. CASE Package
  <2> DEFINE k == work.kind
             f == Packaging[k][work.at]
  <2>1. /\ step = "package" /\ work.at <= Len(Packaging[k])
        /\ IF Content(k, f) = None THEN Raise(k) /\ UNCHANGED bundle
           ELSE /\ IF f = "card" THEN Complete(k) ELSE Go("package", [work EXCEPT !.at = @ + 1])
                /\ bundle' = [bundle EXCEPT ![k][f] = Content(k, f)]
    BY <1>8 DEF Package
  <2>2. /\ k \in Kinds /\ k \notin fresh /\ work.at \in 2..Len(Packaging[k])
        /\ \A i \in 1..(work.at - 1) : bundle[k][Packaging[k][i]] = Content(k, Packaging[k][i])
    BY <2>1 DEF ReleaseInv, Packed, NothingStale
  <2>3. CASE Content(k, f) = None
    <3>1. Raise(k) /\ bundle' = bundle
      BY <2>1, <2>3
    <3> SUFFICES ASSUME Meant, Reads[k] \subseteq fresh PROVE FALSE
      BY <1>1, <3>1, Fails
    <3> QED BY <2>1, <2>3, PackagingProceeds
  <2>4. CASE Content(k, f) # None /\ f = "card"
    <3>1. Complete(k) /\ bundle' = [bundle EXCEPT ![k][f] = Content(k, f)]
      BY <2>1, <2>4
    <3>2. Makes(k) = k
      BY <2>2 DEF Makes, Kinds
    <3>3. step' = "idle" /\ fresh' \subseteq fresh \cup {k}
      BY <3>1, <3>2, AfterComplete
    <3>4. bundle'["binary"]["columns"] = bundle["binary"]["columns"]
      BY <1>4, <1>6, <2>2, <2>4, <3>1
    <3>5. CASE k = "binary"
      <4>1. Len(Packaging[k]) = 6 /\ Packaging[k][2] = "columns"
        BY <3>5 DEF Packaging
      <4>2. \A i \in 2..6 : Packaging[k][i] = "card" => i = 6
        BY <3>5 DEF Packaging
      <4>3. work.at = 6
        BY <2>2, <2>4, <4>1, <4>2
      <4>4. bundle[k]["columns"] = Content(k, "columns")
        BY <2>2, <4>1, <4>3
      <4>5. bundle["binary"]["columns"] = data.columns
        BY <3>5, <4>4 DEF Content
      <4> QED BY <1>3, <3>3, <3>4, <3>5, <4>5
    <3>6. CASE k # "binary"
      <4>1. k = "composite"
        BY <2>2, <3>6 DEF Kinds
      <4> QED BY <1>3, <1>5, <3>3, <3>4, <4>1
    <3> QED BY <3>5, <3>6
  <2>5. CASE Content(k, f) # None /\ f # "card"
    <3>1. /\ step' = "package" /\ fresh' = fresh /\ bundle' = [bundle EXCEPT ![k][f] = Content(k, f)]
      BY <2>1, <2>5 DEF Go
    <3>2. k # "binary" => bundle'["binary"]["columns"] = bundle["binary"]["columns"]
      BY <1>4, <1>6, <2>2, <3>1
    <3> QED BY <1>3, <1>5, <2>2, <3>1, <3>2
  <2> QED BY <2>3, <2>4, <2>5
\* The evaluation of both stages.
<1>9. ASSUME Meant, Reads["gated"] \subseteq fresh
      PROVE  /\ views.index /\ family.report # None /\ family.model # None
             /\ MeetsContract(bundle["binary"]) /\ \A s \in Splits : Resolved("attack_only", s) # {}
             /\ bundle["binary"]["columns"] = views.columns
  <2>1. {"preprocess", "views", "family", "binary"} \subseteq fresh
    BY <1>9 DEF Reads
  <2>2. "attack_only" \in Range(ViewOrder)
    BY Names
  <2>3. views.index /\ \A s \in Splits : Resolved("attack_only", s) # {}
    BY <1>9, <2>1, <2>2, ViewsServe
  <2>4. family.report # None /\ family.model # None
    <3>1. family.model \in Classifiers(corpus) /\ family.report \in Classifiers(corpus)
      BY <1>9, <2>1 DEF CauseInv, ProductsReady
    <3>2. corpus \in Corpora \ {<<>>}
      BY <1>9 DEF Meant, SoundCorpus
    <3> QED BY <3>1, <3>2, NoneAssumption
  <2>5. MeetsContract(bundle["binary"])
    BY <1>6, <2>1 DEF ReleaseInv, ReleaseIsWhole
  <2>6. views.columns = data.columns
    BY <2>1 DEF ReleaseInv, ViewsGrow
  <2> QED BY <1>5, <1>9, <2>1, <2>3, <2>4, <2>5, <2>6
<1>10. CASE BeginGated \/ EvaluateGated
  <2>1. bundle' = bundle
    BY <1>10 DEF BeginGated, EvaluateGated
  <2>2. CASE Raise("gated")
    <3> SUFFICES ASSUME Meant, Reads["gated"] \subseteq fresh PROVE FALSE
      BY <1>1, <2>1, <2>2, Fails
    <3>1. step' = "raised"
      BY <2>2 DEF Raise
    <3>2. CASE BeginGated
      <4>1. ~Begin("gated", "gated", None)
        BY <3>1 DEF Begin
      <4> QED BY <1>9, <3>2, <4>1 DEF BeginGated
    <3>3. CASE EvaluateGated
      <4>1. ~Complete("gated")
        BY <3>1 DEF Complete
      <4> QED BY <1>9, <3>3, <4>1 DEF EvaluateGated
    <3> QED BY <1>10, <3>2, <3>3
  <2>3. CASE ~Raise("gated")
    <3>1. Begin("gated", "gated", None) \/ Complete("gated")
      BY <1>10, <2>3 DEF BeginGated, EvaluateGated
    <3>2. step' \in {"gated", "idle"} /\ fresh' \subseteq fresh \cup {"gated"}
      BY <3>1, AfterComplete DEF Begin, Makes
    <3>3. step' \notin PrepSteps \cup FamilySteps \cup Sampling \cup {"summary", "raised"}
      BY <1>2, <3>2
    <3> QED BY <1>1, <2>1, <3>2, <3>3, ProceedsAlone
  <2> QED BY <2>2, <2>3
<1> QED BY <1>7, <1>8, <1>10

LEMMA CauseInit == Init => CauseInv
<1> SUFFICES ASSUME Init PROVE CauseInv
  OBVIOUS
<1>1. corpus = <<>> /\ step = "idle"
  BY DEF Init, PrepInit
<1>2. ~Meant
  BY <1>1 DEF Meant, SoundCorpus
<1> QED BY <1>1, <1>2 DEF CauseInv, DataReady, ProductsReady, SamplesReady, ScriptsFailForCause

LEMMA CauseStep ==
    ReleaseInv /\ SelectionInv /\ DatasetInv /\ CauseInv /\ [Next]_vars /\ ReleaseInv' => CauseInv'
<1> SUFFICES ASSUME ReleaseInv, SelectionInv, DatasetInv, CauseInv, [Next]_vars, ReleaseInv'
             PROVE  CauseInv'
  OBVIOUS
<1>1. CASE PreprocessNext /\ UNCHANGED <<viewVars, kaggleVars, trainVars, bundle>>
  BY <1>1, PreprocessCause
<1>2. CASE ViewNext /\ UNCHANGED <<kaggleVars, trainVars, bundle>>
  BY <1>2, ViewsCause
<1>3. CASE KaggleNext /\ UNCHANGED <<trainVars, bundle>>
  BY <1>3, KaggleCause
<1>4. CASE TrainNext /\ UNCHANGED bundle
  BY <1>4, TrainCause
<1>5. CASE BeginFamily \/ BeginFamilyKernel \/ FitFamily \/ WriteOracle \/ FitMulticlass
  BY <1>5, FamilyCause
<1>6. CASE BeginPackaging \/ Package \/ BeginGated \/ EvaluateGated
  BY <1>6, PackagingCause
<1>7. CASE (Exit \/ Kill) /\ UNCHANGED <<prepVars, viewVars, kaggleVars, trainVars, bundle>>
  <2>1. UNCHANGED <<corpus, data, views, release, family, bundle>> /\ fresh' = fresh /\ step' = "idle"
    BY <1>7 DEF Exit, Kill, prepVars, viewVars, trainVars
  <2>2. step' \notin PrepSteps \cup FamilySteps \cup Sampling \cup {"summary", "raised"}
    BY <2>1 DEF PrepSteps, FamilySteps, Sampling
  <2> QED BY <2>1, <2>2, ProceedsAlone
<1>8. CASE UNCHANGED vars
  <2>1. UNCHANGED <<corpus, data, step, work, fresh, views, release, published, family, bundle>>
    BY <1>8 DEF vars, prepVars, runVars, viewVars, kaggleVars, trainVars
  <2>2. Meant' <=> Meant
    BY <2>1 DEF Meant
  <2>3. DataReady'
    <3>1. DataReady
      BY DEF CauseInv
    <3>2. /\ ReadFrom(work.files, corpus)' <=> ReadFrom(work.files, corpus)
          /\ \A k : Opened(work.files, FamilyOrder[k])' <=> Opened(work.files, FamilyOrder[k])
      BY <2>1 DEF ReadFrom, Opened
    <3>3. /\ UsableRows(work.stage, corpus)' <=> UsableRows(work.stage, corpus)
          /\ UsableRows(data.rows, corpus)' <=> UsableRows(data.rows, corpus)
          /\ Usable(data, corpus)' <=> Usable(data, corpus)
      BY <2>1 DEF UsableRows, Usable
    <3> QED BY <2>1, <2>2, <3>1, <3>2, <3>3 DEF DataReady
  <2>4. ProductsReady'
    BY <2>1, <2>2 DEF CauseInv, ProductsReady
  <2>5. SamplesReady'
    BY <2>1, <2>2 DEF CauseInv, SamplesReady, Drawn
  <2>6. ScriptsFailForCause'
    BY <2>1 DEF CauseInv, ScriptsFailForCause
  <2> QED BY <2>1, <2>3, <2>4, <2>5, <2>6 DEF CauseInv
<1> QED BY <1>1, <1>2, <1>3, <1>4, <1>5, <1>6, <1>7, <1>8 DEF Next

\* Whatever the corpus, if it is one the scripts are meant for, a script fails only when
\* something it reads was not made, or not since what it was made from, or when chance or
\* the target left its sample without an attack.
THEOREM ScriptsFailOnlyForCause == Spec => []ScriptsFailForCause
<1>1. Init => SelectionInv /\ DatasetInv /\ CauseInv
  BY SelectionInit, DatasetInit, CauseInit
<1>2. ReleaseInv /\ ReleaseInv' /\ SelectionInv /\ DatasetInv /\ CauseInv /\ [Next]_vars
          => (SelectionInv /\ DatasetInv /\ CauseInv)'
  BY SelectionStep, DatasetStep, CauseStep DEF SelectionInv
<1>3. CauseInv => ScriptsFailForCause
  BY DEF CauseInv
<1> QED BY <1>1, <1>2, <1>3, ReleaseAlways, PTL DEF Spec
=============================================================================
