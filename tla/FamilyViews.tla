----------------------------- MODULE FamilyViews -----------------------------
(***************************************************************************)
(* The family views: two selections of the dataset's rows, for the          *)
(* classifier of attack families and for its one-stage rival.  The root is   *)
(* emptied first and its index is written last.                              *)
(***************************************************************************)
EXTENDS DatasetSplits

VARIABLES
    views,   \* the root of the views: columns, the rows of each file of each view, {} where
             \* there is none, as no file is empty; reports and the index
    source   \* history: the dataset they were derived from

viewVars == <<views, source>>

ViewOrder == <<"attack_only", "direct_multiclass">>
KnownAttackFamilies == Range(FamilyOrder) \ ({"Benign"} \cup OODFamilies)
LabelSpace == [attack_only       |-> KnownAttackFamilies,
               direct_multiclass |-> {"Benign"} \cup KnownAttackFamilies]

\* The list in preprocess_iot_diad.py names Benign and families that are kept.
ASSUME FamiliesAssumption ==
    "Benign" \in Range(FamilyOrder) \ OODFamilies /\ KnownAttackFamilies # {}

NoViews == [columns |-> None, index |-> FALSE,
            report |-> {},
            files |-> [v \in Range(ViewOrder) |-> [s \in Splits |-> {}]]]

ViewInit == views = NoViews /\ source = NoData

\* resolve_dataset_file: a file of that name anywhere below the root will do, so a
\* view without a file of a split is given the other view's.
Resolved(v, s) ==
    IF views.files[v][s] # {} \/ \A u \in Range(ViewOrder) : views.files[u][s] = {}
    THEN views.files[v][s]
    ELSE CHOOSE f \in {views.files[u][s] : u \in Range(ViewOrder)} : f # {}

Labels(rows) == {r.family : r \in rows}

\* SLIP: the held-out rows are filtered like the others.
Filtered_NoHeldOut(v, s, rows) == {r \in rows : r.family \in LabelSpace[v]}

\* attack_only_filter, direct_multiclass_filter
Filtered(v, s, rows) ==
    {r \in rows : r.family \in IF s = "ood" THEN OODFamilies ELSE LabelSpace[v]}

Unexpected(s, rows) ==
    Labels(rows) \ IF s = "ood" THEN OODFamilies ELSE LabelSpace["direct_multiclass"]

-----------------------------------------------------------------------------
\* The manifests are looked up before anything is removed.  Removing the old root,
\* and copying the columns into the new one, is one step: nothing reads the root
\* without its index.
BeginViews ==
    /\ step = "idle"
    /\ IF None \in {data.columns, data.manifest, data.report}
       THEN Raise("views") /\ UNCHANGED viewVars
       ELSE /\ Begin("views", "derive", [view |-> 1, at |-> 1])
            /\ views' = [NoViews EXCEPT !.columns = data.columns]
            /\ source' = data
    /\ UNCHANGED prepVars

\* One split of one view.  A split of known families must keep a row; a held-out
\* split may be left without a file.
DeriveSplit ==
    /\ step = "derive" /\ work.at <= Len(SplitNames)
    /\ LET v == ViewOrder[work.view]
           s == SplitNames[work.at]
           rows == Filtered(v, s, data.rows[s])
       IN  IF Unexpected(s, data.rows[s]) # {} \/ (s # "ood" /\ rows = {})
           THEN Raise("views") /\ UNCHANGED views
           ELSE /\ Go("derive", [work EXCEPT !.at = @ + 1])
                /\ views' = [views EXCEPT !.files[v][s] = rows]
    /\ UNCHANGED <<prepVars, source>>

\* The writers are closed and the report of the view is written; then the next view.
CloseView ==
    /\ step = "derive" /\ work.at > Len(SplitNames)
    /\ views' = [views EXCEPT !.report = @ \cup {ViewOrder[work.view]}]
    /\ IF work.view < Len(ViewOrder) THEN Go("derive", [view |-> work.view + 1, at |-> 1])
       ELSE Go("index", None)
    /\ UNCHANGED <<prepVars, source>>

WriteIndex ==
    /\ step = "index"
    /\ views' = [views EXCEPT !.index = TRUE]
    /\ Complete("views") /\ UNCHANGED <<prepVars, source>>

ViewNext == BeginViews \/ DeriveSplit \/ CloseView \/ WriteIndex

-----------------------------------------------------------------------------
\* The index stands only over a finished derivation: every view has the columns of
\* one finished dataset and, for each split, exactly its rows that belong to the
\* view, with every known split present, whatever was killed or rebuilt before.
IndexMeansViews ==
    views.index =>
        /\ source.report # None /\ views.columns = source.columns
        /\ \A v \in Range(ViewOrder), s \in Splits :
               LET rows == Filtered(v, s, source.rows[s])
               IN  views.files[v][s] = rows /\ (rows = {} => s = "ood")
=============================================================================
