---------------------------- MODULE MCModelRelease ----------------------------
(* The training and packaging scripts on a small instance: two columns, three   *)
(* families and a held-out one, and five corpora.                               *)
EXTENDS BundlePackaging

MCFamilies == <<"Benign", "DDoS", "DoS", "Recon">>
MCColumns == {"c1", "c2"}

Cells(a, b) == [c \in MCColumns |-> IF c = "c1" THEN a ELSE b]
File(name, rows) ==
    [family |-> name, scenario |-> "all", header |-> "ok", columns |-> MCColumns, rows |-> rows]
Times(row, n) == [k \in 1..n |-> row]

\* Three files of a family; the largest varies in both columns, in one of them for
\* the second corpus.
Family(name, wide) ==
    <<File(name, <<Cells(0, 0), Cells(IF wide THEN 1 ELSE 0, 1), Cells(Bad, 1), Cells(0, 1)>>),
      File(name, Times(Cells(1, 0), 2)),
      File(name, <<Cells(2, 1)>>)>>
\* Shares filled to the row, and a file without a clean row.
Exact(name) ==
    <<File(name, Times(Cells(0, 1), 4)), File(name, <<Cells(1, 0)>>), File(name, <<Cells(2, 1)>>),
      File(name, <<Cells(Bad, 0)>>)>>
Held == <<File("Recon", <<Cells(0, 1), Cells(1, 0)>>)>>

\* Four files: the last goes to train, where its row may be in the bucket of an
\* equal one of test.
Four(last) == <<File("DDoS", Times(Cells(0, 0), 2) \o Times(Cells(1, 1), 2)), File("DDoS", Times(Cells(1, 0), 3)),
                File("DDoS", Times(Cells(2, 1), 2)), File("DDoS", <<last>>)>>

MCWide == Family("Benign", TRUE) \o Four(Cells(0, 0)) \o Family("DoS", TRUE) \o Held
MCNarrow == Family("Benign", FALSE) \o Family("DDoS", FALSE) \o Family("DoS", FALSE) \o Held
MCSound == {MCWide, MCNarrow}

MCCorpora == MCSound \cup {
    \* Benign in two files only; a file without a clean row
    SubSeq(MCWide, 1, 2) \o Family("DDoS", FALSE) \o Exact("DoS") \o Held,
    \* nothing held out; one header with a column too many, one with another schema
    SubSeq(MCNarrow, 1, 9) \o <<[File("DoS", <<Cells(0, 0)>>) EXCEPT !.header = "count"],
                               [File("DoS", <<[c1 |-> 0]>>) EXCEPT !.columns = {"c1"}]>>,
    \* nothing but a file of a family nobody knows
    <<File("Notes", <<Cells(0, 0)>>)>> }

MCTargets == {None, 3}
\* A bundle with the family classifier of a kernel or of home; what people read.
MCKaggle == {"preprocess", "stage", "publish"}
MCBundled == MCKaggle \cup {"release", "thresholds", "composite"}
MCPlans == {MCBundled \cup {"stage2"},
            MCBundled \cup {"views", "family", "binary", "gated"},
            MCKaggle \cup {"benchmark", "promotion", "search", "direct"},
            {"preprocess", "views", "baselines", "tuning", "multiclass"}}
MCCaps == {2, 60}
MCPromotionCaps == {[attack |-> 2, benign |-> None]}
=============================================================================
