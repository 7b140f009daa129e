---------------------------- MODULE DatasetSplits ----------------------------
(***************************************************************************)
(* The preprocessing script: capture CSVs, one directory per attack family, *)
(* become four parquet splits and their manifests.  Files, not rows, are    *)
(* split; rows are deduplicated in hash buckets; columns that are constant  *)
(* on the train split are dropped.  Everything is rebuilt in place, so a    *)
(* kill leaves part of a dataset.                                          *)
(*                                                                         *)
(* A row of a split is kept whole here; what its file holds of it are the   *)
(* columns in data.columns.                                                *)
(***************************************************************************)
EXTENDS Integers, SequencesExt

CONSTANTS
    FamilyOrder,  \* FAMILY_ORDER
    OODFamilies,  \* OOD_FAMILIES
    Bad,          \* a cell that is NaN, infinite or not a number
    None,
    Corpora,      \* BOUND: the input directories tried, sequences of files in path order
    Buckets,      \* --hash-buckets
    Plans,        \* BOUND: sets of scripts, those of one of them are run in a behaviour
    MaxScripts,   \* BOUND: scripts with a product that are begun; a killed one counts twice
    MaxKills      \* BOUND: scripts killed

\* A file has a list of rows, each with a cell for every column of its header.
ASSUME CorporaAssumption ==
    /\ FamilyOrder \in Seq(Range(FamilyOrder))
    /\ \A c \in Corpora :
           /\ c \in Seq(Range(c))
           /\ \A f \in Range(c) :
                  /\ f.columns # None /\ f.rows \in Seq(Range(f.rows))
                  /\ \A row \in Range(f.rows) : row = [col \in f.columns |-> row[col]]

InDistribution == <<"train", "val", "test">>
SplitNames == <<"train", "val", "test", "ood">>
Splits == Range(SplitNames)

VARIABLES
    corpus,   \* the files under --input-root
    data,     \* --output-root: its splits, None where there is no whole file, and its manifests
    step,     \* where the script that runs stands; "idle"; "raised", a traceback on the screen
    work,     \* what it holds in memory and in its temporary directories
    fresh,    \* history: the scripts with a product that completed after all they read
    begun,
    kills,
    plan

prepVars == <<corpus, data>>
runVars == <<step, work, fresh, begun, kills, plan>>

NoData == [rows |-> [s \in Splits |-> None], columns |-> None, manifest |-> None, report |-> None]

\* The scripts whose outputs each script reads; a kernel reads what was published.
OnKaggle == {"preprocess", "stage", "publish"}
Reads == [preprocess |-> {},
          views      |-> {"preprocess"},
          stage      |-> {"preprocess"},
          publish    |-> {"preprocess", "stage"},
          benchmark  |-> OnKaggle,
          promotion  |-> OnKaggle,
          search     |-> OnKaggle,
          release    |-> OnKaggle,
          baselines  |-> {"preprocess"},
          tuning     |-> {"preprocess"},
          thresholds |-> {"preprocess", "release"},
          family     |-> {"preprocess", "views"},
          multiclass |-> {"preprocess", "views"},
          stage2     |-> OnKaggle,
          direct     |-> OnKaggle,
          binary     |-> {"preprocess", "release", "thresholds"},
          composite  |-> {"preprocess", "release", "thresholds", "family"},
          gated      |-> {"preprocess", "release", "thresholds", "views", "family", "binary"}]

\* What the others leave is read by people only.  The family classifier is trained
\* at home or by a kernel.
Products == {"composite"} \cup UNION Range(Reads)
Makes(s) == IF s = "stage2" THEN "family" ELSE s
Outdated(s) ==
    {x \in fresh : x = Makes(s) \/ \E y \in DOMAIN Reads : Makes(y) = x /\ Makes(s) \in Reads[y]}

\* A script begins, goes on, completes, or raises; the author runs one at a time.
Begin(s, at, w) ==
    /\ s \in plan
    /\ begun' = IF Makes(s) \in Products THEN begun + 1 ELSE begun
    /\ begun' <= MaxScripts
    /\ step' = at /\ work' = w /\ UNCHANGED <<kills, plan>>
    /\ fresh' = fresh \ Outdated(s)
Go(at, w) == step' = at /\ work' = w /\ UNCHANGED <<fresh, begun, kills, plan>>
Complete(s) ==
    /\ step' = "idle" /\ work' = None /\ UNCHANGED <<begun, kills, plan>>
    /\ fresh' = IF Reads[s] \subseteq fresh THEN fresh \cup ({Makes(s)} \cap Products) ELSE fresh
Raise(s) ==
    /\ s \in plan /\ step' = "raised" /\ work' = [script |-> s, had |-> work]
    /\ UNCHANGED <<fresh, begun, kills, plan>>

Exit == step = "raised" /\ step' = "idle" /\ work' = None /\ UNCHANGED <<fresh, begun, kills, plan>>
Kill ==
    /\ step \notin {"idle", "raised"} /\ kills < MaxKills /\ begun < MaxScripts
    /\ step' = "idle" /\ work' = None /\ kills' = kills + 1 /\ begun' = begun + 1
    /\ UNCHANGED <<fresh, plan>>

PrepInit ==
    /\ corpus = <<>> /\ data = NoData
    /\ step = "idle" /\ work = None /\ fresh = {} /\ begun = 0 /\ kills = 0
    /\ plan \in Plans

-----------------------------------------------------------------------------
\* Discovery and cleaning, one file after another.
Discovered(f) == f.family \in Range(FamilyOrder)

Quarantined(f, schema) == f.header # "ok" \/ schema \notin {None, f.columns}

\* The rows that stay, under their places in the file.
Cleaned(f) ==
    LET numeric == {k \in DOMAIN f.rows : \A c \in f.columns : f.rows[k][c] # Bad}
    IN  [k \in numeric |-> f.rows[k]]

\* The first file that is sound sets the schema of the others.
CleanFile(so, f) ==
    IF ~Discovered(f) \/ Quarantined(f, so.schema) THEN so
    ELSE [schema |-> f.columns,
          files |-> Append(so.files, [family |-> f.family, scenario |-> f.scenario,
                                      rows |-> Cleaned(f), split |-> None])]

BeginPreprocess ==
    \E c \in Corpora :
        /\ step = "idle"
        /\ Begin("preprocess", "clean", None)
        /\ corpus' = c /\ data' = NoData

\* Nothing is left on the disk before all files are read, so the loop over them is
\* one step.
CleanFiles ==
    LET Done[n \in 0..Len(corpus)] ==
            IF n = 0 THEN [schema |-> None, files |-> <<>>] ELSE CleanFile(Done[n - 1], corpus[n])
        all == Done[Len(corpus)]
    IN  /\ step = "clean"
        /\ IF all.schema = None THEN Raise("preprocess")
           ELSE Go("assign", [schema |-> all.schema, files |-> all.files, at |-> 1])
        /\ UNCHANGED prepVars

-----------------------------------------------------------------------------
\* Splits by family: a family kept out, or of fewer than three files, is held
\* out; the three largest files of another one open the three splits and the
\* rest go, the larger first, where the share filled so far is the smallest.
Size(files, i) == Cardinality(DOMAIN files[i].rows)
RowsIn(files, S) == UNION {{i} \X DOMAIN files[i].rows : i \in S}
Total(files, S) == Cardinality(RowsIn(files, S))
Members(files, family) == {i \in DOMAIN files : files[i].family = family}
HeldOut(files, family) == family \in OODFamilies \/ Cardinality(Members(files, family)) < 3

\* int(round(0.15 * n)), halves to even.
Share(n) == LET q == (15 * n) \div 100
                r == (15 * n) % 100
            IN  IF r > 50 \/ (r = 50 /\ q % 2 = 1) THEN q + 1 ELSE q

Target(files, family, s) ==
    LET n == Total(files, Members(files, family))
    IN  IF s = "train" THEN n - 2 * Share(n) ELSE Share(n)

\* Sorted by rows, the larger first; the generator's draw orders equals.
Orders(files, S) == {o \in SetToSeqs(S) : \A i, j \in DOMAIN o :
                        i < j => Size(files, o[i]) >= Size(files, o[j])}

ByName == [test |-> 1, train |-> 2, val |-> 3]

\* SLIP: the gap that would be left decides alone.
Before_GapOnly(now, aim, rows, s, t) ==
    LET Gap(u) == aim[u] - now[u] IN Gap(s) < Gap(t) \/ (Gap(s) = Gap(t) /\ ByName[s] < ByName[t])

\* Of two splits, the one filled the less in proportion; an aim of no rows counts
\* as infinitely full.  Then the smaller gap, then the name.
Fuller(now, aim, s, t) == aim[t] # 0 /\ (aim[s] = 0 \/ now[s] * aim[t] > now[t] * aim[s])
Before(now, aim, rows, s, t) ==
    LET Gap(u) == IF now[u] + rows > aim[u] THEN now[u] + rows - aim[u] ELSE aim[u] - now[u] - rows
    IN  \/ Fuller(now, aim, t, s)
        \/ ~Fuller(now, aim, s, t)
           /\ (Gap(s) < Gap(t) \/ (Gap(s) = Gap(t) /\ ByName[s] < ByName[t]))

Greedy(files, family, o) ==
    LET aim == [s \in Range(InDistribution) |-> Target(files, family, s)]
        G[n \in 0..Len(o)] ==
            IF n = 0 THEN <<>>
            ELSE LET so == G[n - 1]
                     now == [s \in DOMAIN aim |->
                                Total(files, {o[k] : k \in {j \in DOMAIN so : so[j] = s}})]
                 IN  Append(so, IF n <= 3 THEN InDistribution[n]
                                ELSE CHOOSE s \in DOMAIN aim : \A t \in DOMAIN aim \ {s} :
                                         Before(now, aim, Size(files, o[n]), s, t))
    IN  G[Len(o)]

AssignFamily ==
    LET family == FamilyOrder[work.at]
        S == Members(work.files, family)
        Put(split) == Go("assign", [work EXCEPT !.at = @ + 1, !.files =
                          [i \in DOMAIN @ |-> IF i \in S THEN [@[i] EXCEPT !.split = split[i]]
                                              ELSE @[i]]])
    IN  /\ step = "assign" /\ work.at <= Len(FamilyOrder)
        /\ IF HeldOut(work.files, family) THEN Put([i \in S |-> "ood"])
           ELSE \E o \in Orders(work.files, S) :
                    LET g == Greedy(work.files, family, o)
                    IN  Put([i \in S |-> g[CHOOSE k \in DOMAIN o : o[k] = i]])
        /\ UNCHANGED prepVars

-----------------------------------------------------------------------------
\* A row with what travels with it.  Its bucket is a hash of this and of its
\* split, so equal rows of one split meet in a bucket; those of two splits meet
\* by chance.  Of equal rows in a bucket the first stays.
Row(f, k) == [family |-> f.family, scenario |-> f.scenario, cells |-> f.rows[k]]
RowsOf(f) == {Row(f, k) : k \in DOMAIN f.rows}
In(files, s) == {i \in DOMAIN files : files[i].split = s}
Contents(files, s) == UNION {RowsOf(files[i]) : i \in In(files, s)}
FirstFile(files, row, s) ==
    CHOOSE i \in In(files, s) : row \in RowsOf(files[i])
        /\ \A j \in In(files, s) : j < i => row \notin RowsOf(files[j])

Dedupe ==
    LET in == [s \in Splits |-> Contents(work.files, s)]
        Both == {r \in UNION Range(in) : Cardinality({s \in DOMAIN in : r \in in[s]}) > 1}
        Copies == {p \in Both \X DOMAIN in : p[1] \in in[p[2]]}
        Stays(r, s, bucket) == \A t \in DOMAIN in \ {s} :
            (r \in in[t] /\ bucket[<<r, s>>] = bucket[<<r, t>>])
                => FirstFile(work.files, r, s) < FirstFile(work.files, r, t)
    IN  /\ step = "assign" /\ work.at > Len(FamilyOrder)
        /\ \E bucket \in [Copies -> Buckets] :
               Go("trim", [schema |-> work.schema, files |-> work.files,
                           stage |-> [s \in DOMAIN in |-> {r \in in[s] : Stays(r, s, bucket)}]])
        /\ UNCHANGED prepVars

\* Columns with one value on the train split.  A split without rows has no file.
Constant(schema, rows) ==
    {c \in schema : \A r, q \in rows : r.cells[c] = q.cells[c]}

Trim ==
    /\ step = "trim"
    /\ IF work.stage["train"] = {} THEN Raise("preprocess")
       ELSE Go("write", [columns |-> work.schema \ Constant(work.schema, work.stage["train"]),
                         files |-> work.files, stage |-> work.stage, at |-> 1])
    /\ UNCHANGED prepVars

WriteSplit ==
    LET s == SplitNames[work.at]
    IN  /\ step = "write" /\ work.at <= Len(SplitNames)
        /\ IF work.stage[s] = {} THEN Raise("preprocess") /\ UNCHANGED prepVars
           ELSE /\ Go("write", [work EXCEPT !.at = @ + 1])
                /\ data' = [data EXCEPT !.rows[s] = work.stage[s]]
                /\ UNCHANGED corpus

\* The manifests come when every split is there, the report last.
WriteManifests ==
    /\ step = "write" /\ work.at > Len(SplitNames)
    /\ data' = [data EXCEPT !.manifest = work.files, !.columns = work.columns]
    /\ Go("report", None) /\ UNCHANGED corpus

LabelCount(rows, benign) == Cardinality({r \in rows : (r.family = "Benign") = benign})

Counts(rows) ==
    [s \in Splits |-> [Benign |-> LabelCount(rows[s], TRUE), Attack |-> LabelCount(rows[s], FALSE)]]

WriteReport ==
    /\ step = "report"
    /\ data' = [data EXCEPT !.report = Counts(data.rows)]
    /\ Complete("preprocess") /\ UNCHANGED corpus

PreprocessNext ==
    \/ BeginPreprocess \/ CleanFiles \/ AssignFamily \/ Dedupe \/ Trim
    \/ WriteSplit \/ WriteManifests \/ WriteReport

-----------------------------------------------------------------------------
\* A finished dataset, between scripts: no two rows of train agree in every column
\* that is left; every clean row is in some split, and in the split of a file that
\* held it; a family is held out as a whole or present in train, val and test, and a
\* split with rows from several of its files had not its share before the last of them.
DatasetSound ==
    (step = "idle" /\ data.report # None) =>
        LET files == data.manifest
            Kept(r) == <<r.family, r.scenario, [c \in data.columns |-> r.cells[c]]>>
            Smallest(S) == CHOOSE n \in {Size(files, i) : i \in S} : \A i \in S : n <= Size(files, i)
            Fair(family, s) ==
                LET own == Members(files, family) \cap In(files, s)
                    S == {i \in own : Size(files, i) > 0}
                IN  /\ own # {}
                    /\ Cardinality(S) > 1 => Total(files, S) - Smallest(S) < Target(files, family, s)
        IN  /\ Cardinality({Kept(r) : r \in data.rows["train"]}) = Cardinality(data.rows["train"])
            /\ \A s \in Splits : data.rows[s] \subseteq Contents(files, s)
            /\ \A i \in DOMAIN files :
                   /\ RowsOf(files[i]) \subseteq UNION Range(data.rows)
                   /\ IF HeldOut(files, files[i].family) THEN files[i].split = "ood"
                      ELSE \A s \in Range(InDistribution) : Fair(files[i].family, s)
=============================================================================
