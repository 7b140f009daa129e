------------------------- MODULE RecordPipelineProofs -------------------------
(***************************************************************************)
(* Proofs about RecordPipeline, for any columns, aliases and profiles that   *)
(* pass the checks of the code, any streams and captures, any batch size     *)
(* and whatever the models answer.                                          *)
(***************************************************************************)
EXTENDS RecordPipeline, FiniteSetTheorems, SequenceTheorems, WellFoundedInduction, TLAPS

-----------------------------------------------------------------------------
(* The contract and the adapter, record by record.                         *)

\* A function over 1..n is a sequence of that length.
LEMMA Listed ==
    ASSUME NEW n \in Nat, NEW S, NEW f \in [1..n -> S]
    PROVE  f \in Seq(S) /\ Len(f) = n /\ DOMAIN f = 1..n
<1>1. f \in Seq(S)
  BY SeqDef
<1> QED
  BY <1>1, LenProperties

LEMMA Appended ==
    ASSUME NEW S, NEW seq \in Seq(S), NEW x \in S
    PROVE  /\ Append(seq, x) \in Seq(S)
           /\ Len(Append(seq, x)) = Len(seq) + 1
           /\ DOMAIN Append(seq, x) = 1..Len(seq) + 1
           /\ \A i \in 1..Len(seq) : Append(seq, x)[i] = seq[i]
           /\ Append(seq, x)[Len(seq) + 1] = x
<1>1. Append(seq, x) \in Seq(S) /\ Len(Append(seq, x)) = Len(seq) + 1
  BY AppendProperties
<1>2. DOMAIN Append(seq, x) = 1..Len(seq) + 1
  BY <1>1, LenProperties
<1> QED
  BY <1>1, <1>2, AppendProperties, LenProperties

\* Records are sequences of fields; their keys come from upstream or from a
\* profile.
SourceKeys == DOMAIN Strip \cup UNION {Accepted(p) : p \in Profiles}
SourceFields ==
    {f \in [key : SourceKeys, origin : SourceKeys, numeric : BOOLEAN] : f.origin = f.key}
Records == Seq(SourceFields)

LEMMA FieldShape ==
    ASSUME NEW record \in Records, NEW i \in DOMAIN record
    PROVE  /\ record[i] \in [key : SourceKeys, origin : SourceKeys, numeric : BOOLEAN]
           /\ record[i].origin = record[i].key
<1>1. record[i] \in SourceFields
  BY DEF Records
<1> QED
  BY <1>1 DEF SourceFields

\* What the contract makes of a valid record: in every column the value of the one
\* field that goes by its name, and that is a number.
LEMMA ValidRecord ==
    ASSUME NEW record, Validate(record).verdict = "valid", NEW c \in Columns
    PROVE  \E i \in DOMAIN record :
              /\ Name(Aliases, record[i].key) = c
              /\ \A j \in DOMAIN record : Name(Aliases, record[j].key) = c => j = i
              /\ record[i].numeric
              /\ Validate(record).aligned[c] = record[i].origin
<1> DEFINE names == [i \in DOMAIN record |-> Name(Aliases, record[i].key)]
           source(d) == record[CHOOSE i \in DOMAIN record : names[i] = d]
           missing == \E d \in Columns : \A i \in DOMAIN record : names[i] # d
           textual == \E d \in Columns : ~source(d).numeric
<1>1. ~Clash(names) /\ Validate(record) = Align(record, names)
  BY DEF Validate
<1>2. Align(record, names) =
        IF missing THEN [verdict |-> "missing_required_features"]
        ELSE IF textual THEN [verdict |-> "non_numeric_required_features"]
        ELSE [verdict |-> "valid", aligned |-> [d \in Columns |-> source(d).origin]]
  BY DEF Align
<1>3. ~missing /\ ~textual /\ Validate(record).aligned = [d \in Columns |-> source(d).origin]
  <2> HIDE DEF missing, textual, source, names
  <2> QED
    BY <1>1, <1>2
<1>4. PICK i \in DOMAIN record : names[i] = c
  BY <1>3
<1>5. \A j \in DOMAIN record : names[j] = c => j = i
  BY <1>1, <1>4 DEF Clash
<1>6. source(c) = record[i]
  <2>1. (CHOOSE j \in DOMAIN record : names[j] = c) = i
    BY <1>4, <1>5
  <2> QED
    BY <2>1
<1>7. source(c).numeric /\ Validate(record).aligned[c] = source(c).origin
  BY ZenonT(60), <1>3
<1> HIDE DEF source
<1>8. record[i].numeric /\ Validate(record).aligned[c] = record[i].origin
  BY <1>6, <1>7
<1> QED
  BY <1>4, <1>5, <1>8

\* The adapter renames fields and adds one of its own, which is text.
LEMMA AdapterInputFields ==
    ASSUME NEW p, NEW record \in Records
    PROVE  /\ DOMAIN AdapterInput(p, record) = 1..Len(record) + 1
           /\ \A i \in 1..Len(record) :
                /\ AdapterInput(p, record)[i].key = Renamed(p, Strip[record[i].key])
                /\ AdapterInput(p, record)[i].origin = record[i].key
                /\ AdapterInput(p, record)[i].numeric = record[i].numeric
           /\ ~AdapterInput(p, record)[Len(record) + 1].numeric
           /\ AdapterInput(p, record)[Len(record) + 1].key = ProfileKey
<1> DEFINE renamed == [i \in DOMAIN record |->
                         [record[i] EXCEPT !.key = Renamed(p, Strip[record[i].key])]]
<1>1. DOMAIN record = 1..Len(record) /\ Len(record) \in Nat
  BY DEF Records
<1>2. \A i \in DOMAIN record :
        /\ renamed[i].key = Renamed(p, Strip[record[i].key])
        /\ renamed[i].origin = record[i].key
        /\ renamed[i].numeric = record[i].numeric
  BY FieldShape
<1>3. renamed \in Seq({renamed[i] : i \in DOMAIN record}) /\ Len(renamed) = Len(record)
  <2>1. renamed \in [1..Len(record) -> {renamed[i] : i \in DOMAIN record}]
    BY <1>1
  <2> HIDE DEF renamed
  <2> QED
    BY <1>1, <2>1, Listed
<1>4. AdapterInput(p, record) = Append(renamed, Field(ProfileKey, FALSE))
  BY DEF AdapterInput
<1> DEFINE own == Field(ProfileKey, FALSE)
           S == {renamed[i] : i \in DOMAIN record} \cup {own}
<1>5. renamed \in Seq(S) /\ own \in S
  BY <1>3, SeqMonotonic
<1> HIDE DEF renamed, own, S
<1>6. /\ DOMAIN Append(renamed, own) = 1..Len(renamed) + 1
      /\ \A i \in 1..Len(renamed) : Append(renamed, own)[i] = renamed[i]
      /\ Append(renamed, own)[Len(renamed) + 1] = own
  BY <1>5, Appended
<1>7. ~own.numeric /\ own.key = ProfileKey
  BY DEF own, Field
<1> QED
  BY <1>1, <1>2, <1>3, <1>4, <1>6, <1>7 DEF own

\* A record that the adapter lets through: every key is the profile's, and the
\* contract will find nothing wrong with it when it looks again.
LEMMA AdaptedRecord ==
    ASSUME NEW p, NEW record, Adapt(p, record).verdict = "valid"
    PROVE  /\ \A i \in DOMAIN record : Strip[record[i].key] \in Accepted(p)
           /\ Validate(AdapterInput(p, record)).verdict = "valid"
<1> DEFINE keys == [i \in DOMAIN record |-> Strip[record[i].key]]
           mapped == {i \in DOMAIN record : keys[i] \in Accepted(p)}
           blank == \E i \in DOMAIN keys : keys[i] = ""
           clash == Clash([i \in mapped |-> AdapterInput(p, record)[i].key])
<1>1. Adapt(p, record) =
        IF blank THEN [verdict |-> "blank_source_keys"]
        ELSE IF Clash(keys) THEN [verdict |-> "normalized_key_collision"]
        ELSE IF clash THEN [verdict |-> "alias_collision"]
        ELSE IF mapped # DOMAIN record THEN [verdict |-> "unmapped_source_fields"]
        ELSE Validate(AdapterInput(p, record))
  BY DEF Adapt
<1>2. mapped = DOMAIN record /\ Adapt(p, record) = Validate(AdapterInput(p, record))
  <2> HIDE DEF keys, mapped, blank, clash
  <2> QED
    BY <1>1
<1> QED
  BY <1>2

LEMMA DisjointPair == ASSUME NEW A, NEW B, Disjoint(<<A, B>>) PROVE A \cap B = {}
  BY DEF Disjoint

LEMMA DisjointThree ==
    ASSUME NEW A, NEW B, NEW C, Disjoint(<<A, B, C>>)
    PROVE  A \cap B = {} /\ A \cap C = {} /\ B \cap C = {}
  BY DEF Disjoint

\* Under a profile that passed the checks, a field is scored in the column that
\* the profile names for its key and in no other: metadata and extras cannot be
\* taken for a column, and no column is renamed again.
LEMMA RenamedOnce ==
    ASSUME NEW p, IsProfile(p), IsClosed(p), NEW key \in Accepted(p), NEW c \in Columns
    PROVE  Name(Aliases, Renamed(p, key)) = c
             <=> key \in DOMAIN p.features /\ p.features[key] = c
<1>1. /\ DOMAIN Aliases \cap Columns = {}
      /\ DOMAIN Aliases \cap (MetadataKeys \cup {ProfileKey}) = {}
      /\ Columns \cap (MetadataKeys \cup {ProfileKey}) = {}
      /\ Targets(Aliases) \subseteq Columns
  BY ContractAssumption, DisjointThree DEF ContractAssumption
<1>2. p.extras \cap (Columns \cup DOMAIN Aliases \cup {ProfileKey}) = {}
  BY DisjointPair DEF IsClosed
<1>3. /\ DOMAIN p.features \cap DOMAIN p.metadata = {}
      /\ DOMAIN p.features \cap p.extras = {} /\ DOMAIN p.metadata \cap p.extras = {}
  BY DisjointThree DEF IsProfile, FillsContract
<1>4. CASE key \in DOMAIN p.features
  <2>1. p.features[key] \in Columns
    BY <1>4 DEF IsProfile, FillsContract, Targets
  <2> QED
    BY <1>1, <1>4, <2>1 DEF Renamed, Name
<1>5. CASE key \in DOMAIN p.metadata
  <2>1. p.metadata[key] \in MetadataKeys
    BY <1>5 DEF IsProfile, FillsContract, Targets
  <2> QED
    BY <1>1, <1>3, <1>5, <2>1 DEF Renamed, Name
<1>6. CASE key \in p.extras
  BY <1>2, <1>3, <1>6 DEF Renamed, Name
<1> QED
  BY <1>4, <1>5, <1>6 DEF Accepted
\* Upstream's fields that the profile, or for a record nobody adapted the contract,
\* takes for column c.
Sources(p, record, c) ==
    {i \in DOMAIN record : /\ Strip[record[i].key] \in DOMAIN p.features
                           /\ p.features[Strip[record[i].key]] = c}
Named(record, c) == {i \in DOMAIN record : Name(Aliases, record[i].key) = c}

\* A record that goes through the adapter and the contract has one source for each
\* column, the field under the key that the profile names.
LEMMA AdaptedOneSource ==
    ASSUME NEW p, IsProfile(p), IsClosed(p), NEW record \in Records,
           Adapt(p, record).verdict = "valid", NEW c \in Columns
    PROVE  \E i \in DOMAIN record :
              /\ Sources(p, record, c) = {i}
              /\ Validate(AdapterInput(p, record)).aligned[c] = record[i].origin
<1> DEFINE input == AdapterInput(p, record)
<1>1. Validate(input).verdict = "valid"
      /\ \A i \in DOMAIN record : Strip[record[i].key] \in Accepted(p)
  BY AdaptedRecord
<1>2. PICK i \in DOMAIN input :
         /\ Name(Aliases, input[i].key) = c
         /\ \A j \in DOMAIN input : Name(Aliases, input[j].key) = c => j = i
         /\ input[i].numeric
         /\ Validate(input).aligned[c] = input[i].origin
  <2> HIDE DEF input
  <2> QED
    BY <1>1, ValidRecord
<1>3. /\ DOMAIN input = 1..Len(record) + 1
      /\ \A j \in 1..Len(record) : /\ input[j].key = Renamed(p, Strip[record[j].key])
                                   /\ input[j].origin = record[j].key
      /\ ~input[Len(record) + 1].numeric
      /\ DOMAIN record = 1..Len(record) /\ Len(record) \in Nat
  BY AdapterInputFields DEF Records
<1> HIDE DEF input
<1>4. i \in DOMAIN record
  <2>1. i # Len(record) + 1
    BY <1>2, <1>3
  <2> QED
    BY <1>2, <1>3, <2>1
<1>5. \A j \in DOMAIN record : Name(Aliases, input[j].key) = c <=> j \in Sources(p, record, c)
  BY <1>1, <1>3, RenamedOnce DEF Sources
<1>6. Sources(p, record, c) = {i}
  <2>1. Sources(p, record, c) \subseteq DOMAIN record /\ DOMAIN record \subseteq DOMAIN input
    BY <1>3 DEF Sources
  <2> QED
    BY <1>2, <1>4, <1>5, <2>1
<1>7. Validate(input).aligned[c] = record[i].origin
  BY <1>2, <1>3, <1>4, FieldShape
<1> QED
  BY <1>4, <1>6, <1>7 DEF input

\* The same for a record that upstream gives to the scorer directly.
LEMMA DirectOneSource ==
    ASSUME NEW record, Validate(record).verdict = "valid", NEW c \in Columns
    PROVE  \E i \in DOMAIN record :
              Named(record, c) = {i} /\ Validate(record).aligned[c] = record[i].origin
<1>1. PICK i \in DOMAIN record :
         /\ Name(Aliases, record[i].key) = c
         /\ \A j \in DOMAIN record : Name(Aliases, record[j].key) = c => j = i
         /\ Validate(record).aligned[c] = record[i].origin
  BY ValidRecord
<1> QED
  BY <1>1 DEF Named
-----------------------------------------------------------------------------
(* The invariant.                                                          *)

IsSeq(s) == Len(s) \in Nat /\ s = [k \in 1..Len(s) |-> s[k]]

\* What the scorer reads for line n.
InputOf(n) == IF mode = "none" THEN raw[n].record ELSE AdapterInput(profile, raw[n].record)

StreamTyped ==
    /\ profile \in Profiles /\ setup.profile \in Profiles
    /\ mode \in {"file", "stdin", "bridge", "none"}
    /\ IsSeq(raw) /\ \A n \in 1..Len(raw) : raw[n].record \in Records
    /\ taken \in 0..Len(raw) /\ written \in Nat

\* The adapted lines are lines that upstream wrote, in order, and what stands there
\* is what the adapter made of them.
AdaptedSound ==
    /\ IsSeq(adapted)
    /\ \A k \in 1..Len(adapted) :
         /\ adapted[k].line \in 1..Len(raw)
         /\ mode # "none" =>
              /\ adapted[k].line <= taken
              /\ adapted[k].record = AdapterInput(profile, raw[adapted[k].line].record)
              /\ Adapt(profile, raw[adapted[k].line].record).verdict = "valid"
    /\ \A j, k \in 1..Len(adapted) : j < k => adapted[j].line < adapted[k].line

Untouched ==
    /\ adapted = <<>> /\ handed = 0 /\ queued = 0 /\ consumed = 0
    /\ buffer = <<>> /\ alerts = <<>> /\ anomalies = <<>> /\ ppc = "running"

PhaseInv ==
    /\ mode = "none" => apc = "done"
    /\ mode = "bridge" => apc \in {"bridging", "done"} /\ feed = "file"
    /\ apc = "bridging" => mode = "bridge" /\ Untouched

QueueInv ==
    /\ feed \in {"file", "stdin"}
    /\ handed \in 0..Len(adapted) /\ queued \in 0..handed /\ consumed \in 0..Len(adapted)

\* A record that is buffered or scored carries what the contract made of its line.
Carried(entries) ==
    \A k \in 1..Len(entries) :
        /\ entries[k].line \in 1..Len(raw)
        /\ Validate(InputOf(entries[k].line)).verdict = "valid"
        /\ entries[k].from = Validate(InputOf(entries[k].line)).aligned

ScorerInv ==
    /\ IsSeq(buffer) /\ IsSeq(alerts) /\ IsSeq(anomalies)
    /\ Carried(buffer) /\ Carried(alerts)
    /\ ppc \in {"running", "done", "raised"}

PipelineInv ==
    /\ StreamTyped /\ AdaptedSound /\ PhaseInv /\ QueueInv /\ ScorerInv
    /\ BatchingIsInvisible

-----------------------------------------------------------------------------
(* Sequences, whatever they hold.                                          *)

LEMMA OfAnything ==
    ASSUME NEW s, IsSeq(s)
    PROVE  s \in Seq({s[k] : k \in 1..Len(s)}) /\ DOMAIN s = 1..Len(s)
<1>1. s \in [1..Len(s) -> {s[k] : k \in 1..Len(s)}] /\ Len(s) \in Nat
  BY DEF IsSeq
<1> QED
  BY <1>1, SeqDef

LEMMA Within ==
    ASSUME NEW s, IsSeq(s), NEW S, \A k \in 1..Len(s) : s[k] \in S
    PROVE  s \in Seq(S)
<1>1. s \in [1..Len(s) -> S] /\ Len(s) \in Nat
  BY DEF IsSeq
<1> QED
  BY <1>1, SeqDef

LEMMA SeqIsSeq == ASSUME NEW S, NEW s \in Seq(S) PROVE IsSeq(s)
<1>1. Len(s) \in Nat /\ s \in [1..Len(s) -> S]
  BY LenProperties
<1> QED
  BY <1>1 DEF IsSeq

LEMMA ListedIsSeq ==
    ASSUME NEW n \in Nat, NEW f, f = [k \in 1..n |-> f[k]]
    PROVE  IsSeq(f) /\ Len(f) = n
<1>1. f \in [1..n -> {f[k] : k \in 1..n}]
  OBVIOUS
<1> QED
  BY <1>1, Listed DEF IsSeq

LEMMA SameSeq ==
    ASSUME NEW s, NEW t, IsSeq(s), IsSeq(t), Len(s) = Len(t), \A k \in 1..Len(s) : s[k] = t[k]
    PROVE  s = t
  BY DEF IsSeq

LEMMA AppendSeq ==
    ASSUME NEW s, IsSeq(s), NEW x
    PROVE  /\ IsSeq(Append(s, x)) /\ Len(Append(s, x)) = Len(s) + 1
           /\ \A k \in 1..Len(s) : Append(s, x)[k] = s[k]
           /\ Append(s, x)[Len(s) + 1] = x
<1> DEFINE S == {s[k] : k \in 1..Len(s)} \cup {x}
<1>1. s \in Seq(S)
  BY Within
<1>2. x \in S
  OBVIOUS
<1> HIDE DEF S
<1>3. /\ Append(s, x) \in Seq(S) /\ Len(Append(s, x)) = Len(s) + 1
      /\ \A k \in 1..Len(s) : Append(s, x)[k] = s[k]
      /\ Append(s, x)[Len(s) + 1] = x
  BY <1>1, <1>2, Appended
<1> QED
  BY <1>3, SeqIsSeq

LEMMA ConcatSeq ==
    ASSUME NEW s, NEW t, IsSeq(s), IsSeq(t)
    PROVE  /\ IsSeq(s \o t) /\ Len(s \o t) = Len(s) + Len(t)
           /\ \A k \in 1..Len(s) : (s \o t)[k] = s[k]
           /\ \A k \in 1..Len(t) : (s \o t)[Len(s) + k] = t[k]
           /\ \A k \in 1..Len(s) + Len(t) :
                (s \o t)[k] = IF k <= Len(s) THEN s[k] ELSE t[k - Len(s)]
<1> DEFINE S == {s[k] : k \in 1..Len(s)} \cup {t[k] : k \in 1..Len(t)}
<1>1. s \in Seq(S) /\ t \in Seq(S) /\ Len(s) \in Nat /\ Len(t) \in Nat
  BY Within DEF IsSeq
<1> HIDE DEF S
<1>2. /\ IsSeq(s \o t) /\ Len(s \o t) = Len(s) + Len(t)
      /\ \A k \in 1..Len(s) + Len(t) :
                (s \o t)[k] = IF k <= Len(s) THEN s[k] ELSE t[k - Len(s)]
  BY <1>1, ConcatProperties, SeqIsSeq
<1> QED
  BY <1>1, <1>2

LEMMA ShortSeqs ==
    /\ IsSeq(<<>>) /\ Len(<<>>) = 0
    /\ \A x : IsSeq(<<x>>) /\ Len(<<x>>) = 1 /\ <<x>>[1] = x
<1>1. \A x : <<x>> \in Seq({x})
  OBVIOUS
<1> QED
  BY <1>1, EmptySeq, SeqIsSeq

LEMMA EmptyUnit ==
    ASSUME NEW s, IsSeq(s)
    PROVE  s \o <<>> = s /\ <<>> \o s = s /\ (s # <<>> <=> Len(s) # 0)
  BY OfAnything, ConcatEmptySeq, EmptySeq DEF IsSeq

LEMMA ConcatThree ==
    ASSUME NEW s, NEW t, NEW u, IsSeq(s), IsSeq(t), IsSeq(u)
    PROVE  (s \o t) \o u = s \o (t \o u)
<1> DEFINE S == {s[k] : k \in 1..Len(s)} \cup {t[k] : k \in 1..Len(t)}
                  \cup {u[k] : k \in 1..Len(u)}
<1>1. s \in Seq(S) /\ t \in Seq(S) /\ u \in Seq(S)
  BY Within
<1> HIDE DEF S
<1> QED
  BY <1>1, ConcatAssociative

LEMMA LinesSeq ==
    ASSUME NEW s, IsSeq(s)
    PROVE  /\ IsSeq(Lines(s)) /\ Len(Lines(s)) = Len(s)
           /\ \A k \in 1..Len(s) : Lines(s)[k] = s[k].line
<1>1. DOMAIN s = 1..Len(s) /\ Len(s) \in Nat
  BY OfAnything DEF IsSeq
<1>2. Lines(s) = [k \in 1..Len(s) |-> s[k].line]
  BY <1>1 DEF Lines
<1>3. IsSeq(Lines(s)) /\ Len(Lines(s)) = Len(s)
  BY <1>1, <1>2, ListedIsSeq
<1> QED
  BY <1>2, <1>3

LEMMA LinesConcat ==
    ASSUME NEW s, NEW t, IsSeq(s), IsSeq(t)
    PROVE  Lines(s \o t) = Lines(s) \o Lines(t)
<1> DEFINE st == s \o t
           ls == Lines(s)
           lt == Lines(t)
           lst == ls \o lt
<1>1. /\ IsSeq(ls) /\ Len(ls) = Len(s) /\ \A k \in 1..Len(s) : ls[k] = s[k].line
      /\ IsSeq(lt) /\ Len(lt) = Len(t) /\ \A k \in 1..Len(t) : lt[k] = t[k].line
      /\ Len(s) \in Nat /\ Len(t) \in Nat
  BY LinesSeq DEF IsSeq
<1>2. /\ IsSeq(st) /\ Len(st) = Len(s) + Len(t)
      /\ \A k \in 1..Len(s) + Len(t) : st[k] = IF k <= Len(s) THEN s[k] ELSE t[k - Len(s)]
  BY ConcatSeq
<1> HIDE DEF ls, lt, st
<1>3. /\ IsSeq(lst) /\ Len(lst) = Len(s) + Len(t)
      /\ \A k \in 1..Len(s) + Len(t) : lst[k] = IF k <= Len(s) THEN ls[k] ELSE lt[k - Len(s)]
  <2>1. /\ IsSeq(lst) /\ Len(lst) = Len(ls) + Len(lt)
        /\ \A k \in 1..Len(ls) + Len(lt) :
             lst[k] = IF k <= Len(ls) THEN ls[k] ELSE lt[k - Len(ls)]
    BY <1>1, ConcatSeq
  <2> HIDE DEF lst
  <2> QED
    BY <1>1, <2>1
<1> HIDE DEF lst
<1>4. IsSeq(Lines(st)) /\ Len(Lines(st)) = Len(s) + Len(t)
      /\ \A k \in 1..Len(s) + Len(t) : Lines(st)[k] = st[k].line
  BY <1>2, LinesSeq
<1>5. ASSUME NEW k \in 1..Len(s) + Len(t)
      PROVE  Lines(st)[k] = lst[k]
  <2>1. CASE k <= Len(s)
    BY <1>1, <1>2, <1>3, <1>4, <2>1
  <2>2. CASE ~(k <= Len(s))
    <3>1. k - Len(s) \in 1..Len(t)
      BY <1>1, <2>2
    <3> QED
      BY <1>1, <1>2, <1>3, <1>4, <2>2, <3>1
  <2> QED
    BY <2>1, <2>2
<1>6. Lines(st) = lst
  BY <1>3, <1>4, <1>5, SameSeq
<1> QED
  BY <1>6 DEF st, lst, ls, lt

\* A list in order goes on with a number above all it holds.
LEMMA ListsAppend ==
    ASSUME NEW ns, IsSeq(ns), NEW S \in SUBSET Nat, Lists(ns, S),
           NEW n \in Nat, \A m \in S : m < n
    PROVE  Lists(Append(ns, n), S \cup {n})
<1> DEFINE more == Append(ns, n)
<1>1. /\ IsSeq(more) /\ Len(more) = Len(ns) + 1 /\ Len(ns) \in Nat
      /\ \A k \in 1..Len(ns) : more[k] = ns[k] /\ more[Len(ns) + 1] = n
      /\ more[Len(ns) + 1] = n
      /\ DOMAIN ns = 1..Len(ns)
  BY AppendSeq, OfAnything DEF IsSeq
<1> HIDE DEF more
<1>2. DOMAIN more = 1..Len(ns) + 1
  BY <1>1, OfAnything
<1>3. Range(ns) = S /\ \A i, j \in 1..Len(ns) : i < j => ns[i] < ns[j]
  BY <1>1 DEF Lists
<1>4. \A k \in 1..Len(ns) : ns[k] \in S
  BY <1>1, <1>3 DEF Range
<1>5. Range(more) = S \cup {n}
  <2>1. Range(more) \subseteq S \cup {n}
    BY <1>1, <1>2, <1>4 DEF Range
  <2>2. S \cup {n} \subseteq Range(more)
    BY <1>1, <1>2, <1>3 DEF Range
  <2> QED
    BY <2>1, <2>2
<1>6. \A i, j \in DOMAIN more : i < j => more[i] < more[j]
  <2> SUFFICES ASSUME NEW i \in 1..Len(ns) + 1, NEW j \in 1..Len(ns) + 1, i < j
               PROVE  more[i] < more[j]
    BY <1>2
  <2>1. i \in 1..Len(ns)
    BY <1>1
  <2>2. CASE j \in 1..Len(ns)
    BY <1>1, <1>3, <2>1, <2>2
  <2>3. CASE j = Len(ns) + 1
    BY <1>1, <1>4, <2>1, <2>3
  <2> QED
    BY <1>1, <2>2, <2>3
<1> QED
  BY <1>5, <1>6 DEF Lists, more

-----------------------------------------------------------------------------
(* What the steps are made of.                                             *)

\* The rows of a window have one field for every key of the extractor's profile.
LEMMA RowFields ==
    ASSUME NEW p \in Profiles
    PROVE  /\ Row(p).record \in Records
           /\ \A key \in Accepted(p) : \E k \in DOMAIN Row(p).record : Row(p).record[k].key = key
           /\ \A k \in DOMAIN Row(p).record :
                /\ Row(p).record[k].key \in Accepted(p)
                /\ Row(p).record[k].numeric = (Row(p).record[k].key \in DOMAIN p.features)
                /\ \A j \in DOMAIN Row(p).record :
                     Row(p).record[j].key = Row(p).record[k].key => j = k
<1> DEFINE S == Accepted(p)
           n == Cardinality(S)
           keys == SetToSeq(S)
           fields == [k \in DOMAIN keys |-> Field(keys[k], keys[k] \in DOMAIN p.features)]
<1>1. IsFiniteSet(S)
  BY ProfilesAssumption
<1> HIDE DEF S
<1>2. n \in Nat /\ ExistsBijection(1..n, S)
  BY <1>1, FS_CardinalityType
<1>3. \E f \in [1..n -> S] : IsInjective(f)
  BY <1>2 DEF ExistsBijection, Bijection, Injection
<1>4. keys \in [1..n -> S] /\ IsInjective(keys)
  BY <1>3 DEF SetToSeq
<1>5. keys \in Surjection(1..n, S)
  <2>1. keys \in Injection(1..n, S)
    BY <1>4 DEF Injection
  <2>2. IsFiniteSet(1..n) /\ Cardinality(1..n) = n
    BY <1>2, FS_Interval
  <2> HIDE DEF keys
  <2> QED
    BY <1>1, <2>1, <2>2, FS_Injection
<1> HIDE DEF keys, n
<1>6. Row(p).record = fields
  BY DEF Row, Measured, keys, S
<1>7. DOMAIN fields = 1..n /\ DOMAIN keys = 1..n
  BY <1>4
<1>8. \A k \in 1..n : /\ fields[k] \in SourceFields /\ fields[k].key = keys[k]
                      /\ fields[k].numeric = (fields[k].key \in DOMAIN p.features)
  <2> SUFFICES ASSUME NEW k \in 1..n
               PROVE  /\ fields[k] \in SourceFields /\ fields[k].key = keys[k]
                      /\ fields[k].numeric = (fields[k].key \in DOMAIN p.features)
    OBVIOUS
  <2>1. keys[k] \in SourceKeys
    BY <1>4 DEF SourceKeys, S
  <2>2. fields[k] = Field(keys[k], keys[k] \in DOMAIN p.features)
    BY <1>7
  <2>3. (keys[k] \in DOMAIN p.features) \in BOOLEAN
    OBVIOUS
  <2> HIDE DEF fields
  <2>4. fields[k] \in SourceFields
    BY <2>1, <2>2, <2>3 DEF SourceFields, Field
  <2> QED
    BY <2>2, <2>4 DEF Field
<1> HIDE DEF fields
<1>9. fields \in Records
  <2>1. fields = [k \in 1..n |-> fields[k]]
    BY <1>6, <1>7 DEF fields
  <2> QED
    BY <1>2, <1>8, <2>1, Listed DEF Records
<1> QED
  BY <1>4, <1>5, <1>6, <1>7, <1>8, <1>9 DEF Surjection, IsInjective, S

LEMMA CarriedConcat ==
    ASSUME NEW s, NEW t, IsSeq(s), IsSeq(t), Carried(s), Carried(t)
    PROVE  Carried(s \o t)
<1> DEFINE st == s \o t
<1>1. /\ Len(st) = Len(s) + Len(t) /\ Len(s) \in Nat /\ Len(t) \in Nat
      /\ \A k \in 1..Len(s) + Len(t) : st[k] = IF k <= Len(s) THEN s[k] ELSE t[k - Len(s)]
  BY ConcatSeq DEF IsSeq
<1> HIDE DEF st
<1>2. \A k \in 1..Len(st) : (\E j \in 1..Len(s) : st[k] = s[j])
                            \/ (\E j \in 1..Len(t) : st[k] = t[j])
  <2> SUFFICES ASSUME NEW k \in 1..Len(st)
               PROVE  (\E j \in 1..Len(s) : st[k] = s[j])
                            \/ (\E j \in 1..Len(t) : st[k] = t[j])
    OBVIOUS
  <2>1. CASE k <= Len(s)
    BY <1>1, <2>1
  <2>2. CASE ~(k <= Len(s))
    <3>1. k - Len(s) \in 1..Len(t)
      BY <1>1, <2>2
    <3> QED
      BY <1>1, <2>2, <3>1
  <2> QED
    BY <2>1, <2>2
<1>3. Carried(st)
  <2> SUFFICES ASSUME NEW k \in 1..Len(st)
               PROVE  /\ st[k].line \in 1..Len(raw)
                      /\ Validate(InputOf(st[k].line)).verdict = "valid"
                      /\ st[k].from = Validate(InputOf(st[k].line)).aligned
    BY DEF Carried
  <2> QED
    BY <1>2 DEF Carried
<1> QED
  BY <1>3 DEF st

\* A scored batch: the same lines and the same values.
LEMMA ScoredBatch ==
    ASSUME NEW batch, IsSeq(batch)
    PROVE  /\ IsSeq(Scored(batch)) /\ Lines(Scored(batch)) = Lines(batch)
           /\ Carried(batch) => Carried(Scored(batch))
<1> DEFINE scored == Scored(batch)
<1>1. DOMAIN batch = 1..Len(batch) /\ Len(batch) \in Nat
  BY OfAnything DEF IsSeq
<1>2. scored = [k \in 1..Len(batch) |->
                  [line |-> batch[k].line, from |-> batch[k].from,
                   alert |-> batch[k].line \in attacks]]
  BY <1>1 DEF Scored
<1>3. \A k \in 1..Len(batch) : scored[k].line = batch[k].line /\ scored[k].from = batch[k].from
  BY <1>2
<1>4. scored = [k \in 1..Len(batch) |-> scored[k]]
  BY <1>2
<1> HIDE DEF scored
<1>5. IsSeq(scored) /\ Len(scored) = Len(batch)
  BY <1>1, <1>4, ListedIsSeq
<1>6. Lines(scored) = Lines(batch)
  BY <1>1, <1>3, <1>5, LinesSeq, SameSeq
<1>7. Carried(batch) => Carried(scored)
  BY <1>1, <1>3, <1>5 DEF Carried
<1> QED
  BY <1>5, <1>6, <1>7 DEF scored

\* A flush takes the batch over into the output, in its order, or raises and leaves
\* it where it is.
LEMMA FlushMoves ==
    ASSUME ScorerInv, NEW batch, IsSeq(batch), Carried(batch),
           NEW rest, IsSeq(rest), Carried(rest), Flush(batch, rest)
    PROVE  /\ IsSeq(alerts') /\ IsSeq(buffer') /\ Carried(alerts') /\ Carried(buffer')
           /\ \/ /\ Raises(batch) /\ ppc' = "raised"
                 /\ Lines(alerts') \o Lines(buffer') = Lines(alerts) \o Lines(batch)
                 /\ buffer' = batch
              \/ /\ ~Raises(batch) /\ ppc' = ppc /\ buffer' = rest
                 /\ Lines(alerts') \o Lines(buffer')
                      = (Lines(alerts) \o Lines(batch)) \o Lines(rest)
<1>1. IsSeq(alerts) /\ Carried(alerts)
  BY DEF ScorerInv
<1>2. CASE Raises(batch)
  <2>1. ppc' = "raised" /\ buffer' = batch /\ alerts' = alerts
    BY <1>2 DEF Flush
  <2> QED
    BY <1>1, <1>2, <2>1
<1>3. CASE ~Raises(batch)
  <2>1. ppc' = ppc /\ buffer' = rest /\ alerts' = alerts \o Scored(batch)
    BY <1>3 DEF Flush
  <2>2. IsSeq(Scored(batch)) /\ Lines(Scored(batch)) = Lines(batch) /\ Carried(Scored(batch))
    BY ScoredBatch
  <2>3. Lines(alerts \o Scored(batch)) = Lines(alerts) \o Lines(batch)
    BY <1>1, <2>2, LinesConcat
  <2>4. IsSeq(alerts \o Scored(batch))
    BY <1>1, <2>2, ConcatSeq
  <2>5. Carried(alerts \o Scored(batch))
    BY <1>1, <2>2, CarriedConcat
  <2> QED
    BY <1>3, <2>1, <2>3, <2>4, <2>5
<1> QED
  BY <1>2, <1>3

\* The first `count` lines of the input that can be scored, and the odd ones.
Scorable(count) == {n \in {adapted[k].line : k \in 1..count} : Valid(n)}
Oddities(count) == {n \in {adapted[k].line : k \in 1..count} : Odd(n)}

\* The next line is above all the scorer has taken, and what it reads for it is
\* scorable or odd as the line is.
LEMMA NextLine ==
    ASSUME PipelineInv, Taking,
           NEW n, n = adapted[consumed + 1].line
    PROVE  /\ n \in 1..Len(raw)
           /\ Scorable(consumed) \in SUBSET Nat /\ Oddities(consumed) \in SUBSET Nat
           /\ \A m \in Scorable(consumed) \cup Oddities(consumed) : m < n
           /\ Scorable(consumed + 1) = IF Valid(n) THEN Scorable(consumed) \cup {n}
                                       ELSE Scorable(consumed)
           /\ Oddities(consumed + 1) = IF Odd(n) THEN Oddities(consumed) \cup {n}
                                       ELSE Oddities(consumed)
           /\ Incoming.form = Form(n)
           /\ Form(n) = "record" =>
                /\ Incoming.record = InputOf(n)
                /\ Validate(Incoming.record).verdict = "valid" <=> Valid(n)
<1>1. /\ consumed \in Nat /\ consumed + 1 \in 1..Len(adapted) /\ Len(adapted) \in Nat
      /\ ppc = "running"
  <2>1. consumed < Readable /\ Readable \in 0..Len(adapted)
    BY DEF Taking, PipelineInv, QueueInv, Readable, AdaptedSound, IsSeq
  <2> QED
    BY <2>1 DEF Taking, PipelineInv, QueueInv, AdaptedSound, IsSeq
<1>2. n \in 1..Len(raw) /\ \A k \in 1..consumed : adapted[k].line \in Nat /\ adapted[k].line < n
  <2>1. \A k \in 1..Len(adapted) : adapted[k].line \in 1..Len(raw)
    BY DEF PipelineInv, AdaptedSound
  <2>2. Len(raw) \in Nat
    BY DEF PipelineInv, StreamTyped, IsSeq
  <2>3. \A k \in 1..consumed : k \in 1..Len(adapted) /\ k < consumed + 1
    BY <1>1
  <2>4. \A j, k \in 1..Len(adapted) : j < k => adapted[j].line < adapted[k].line
    BY DEF PipelineInv, AdaptedSound
  <2> QED
    BY <1>1, <2>1, <2>2, <2>3, <2>4
<1>3. 1..consumed + 1 = 1..consumed \cup {consumed + 1}
  BY <1>1
<1>4. {adapted[k].line : k \in 1..consumed + 1} = {adapted[k].line : k \in 1..consumed} \cup {n}
  BY <1>3
<1>5. /\ Scorable(consumed + 1) = IF Valid(n) THEN Scorable(consumed) \cup {n}
                                  ELSE Scorable(consumed)
      /\ Oddities(consumed + 1) = IF Odd(n) THEN Oddities(consumed) \cup {n}
                                  ELSE Oddities(consumed)
  BY <1>4 DEF Scorable, Oddities
<1>6. /\ Scorable(consumed) \in SUBSET Nat /\ Oddities(consumed) \in SUBSET Nat
      /\ \A m \in Scorable(consumed) \cup Oddities(consumed) : m < n
  BY <1>2 DEF Scorable, Oddities
<1>7. /\ Incoming.form = Form(n)
      /\ Form(n) = "record" =>
           /\ Incoming.record = InputOf(n)
           /\ Validate(Incoming.record).verdict = "valid" <=> Valid(n)
  <2>1. CASE mode = "none"
    BY <2>1 DEF Incoming, Form, InputOf, Valid
  <2>2. CASE mode # "none"
    <3>1. /\ adapted[consumed + 1].record = AdapterInput(profile, raw[n].record)
          /\ Adapt(profile, raw[n].record).verdict = "valid"
      BY <1>1, <2>2 DEF PipelineInv, AdaptedSound
    <3>2. Validate(AdapterInput(profile, raw[n].record)).verdict = "valid"
      BY <3>1, AdaptedRecord
    <3> QED
      BY <2>2, <3>1, <3>2 DEF Incoming, Form, InputOf, Valid
  <2> QED
    BY <2>1, <2>2
<1> QED
  BY <1>2, <1>5, <1>6, <1>7

-----------------------------------------------------------------------------
(* The steps of the scorer.                                                *)

\* The outputs account for the first `count` records.
Accounts(out, odd, count) == Lists(out, Scorable(count)) /\ Lists(odd, Oddities(count))

LEMMA OutputsNow ==
    BatchingIsInvisible <=>
        /\ ppc # "raised" => Accounts(Lines(alerts) \o Lines(buffer), anomalies, consumed)
        /\ ppc = "raised" =>
             /\ Raises(buffer)
             /\ \/ Accounts(Lines(alerts) \o Lines(buffer), anomalies, consumed)
                \/ Accounts(Lines(alerts) \o Lines(buffer), anomalies, consumed - 1)
        /\ ppc = "done" => buffer = <<>>
  BY DEF BatchingIsInvisible, Complete, Accounts, Scorable, Oddities

LEMMA OutputsNext ==
    ASSUME UNCHANGED <<mode, raw, adapted, attacks, lacking>>
    PROVE  BatchingIsInvisible' <=>
             /\ ppc' # "raised" => Accounts(Lines(alerts') \o Lines(buffer'), anomalies', consumed')
             /\ ppc' = "raised" =>
                  /\ Raises(buffer')
                  /\ \/ Accounts(Lines(alerts') \o Lines(buffer'), anomalies', consumed')
                     \/ Accounts(Lines(alerts') \o Lines(buffer'), anomalies', consumed' - 1)
             /\ ppc' = "done" => buffer' = <<>>
<1>1. \A n : (Valid(n)' <=> Valid(n)) /\ (Odd(n)' <=> Odd(n))
  BY DEF Valid, Odd, Form
<1> QED
  BY <1>1 DEF BatchingIsInvisible, Complete, Accounts, Scorable, Oddities, Raises

\* What is left to show of a step of the scorer: it starts when the window is
\* through, keeps its place in the stream, and its outputs stay in order.
LEMMA ScorerKeeps ==
    ASSUME PipelineInv, UNCHANGED <<upstreamVars, feed, attacks, lacking>>, apc # "bridging",
           handed' \in 0..Len(adapted), queued' \in 0..handed', consumed' \in 0..Len(adapted),
           IsSeq(buffer'), IsSeq(alerts'), IsSeq(anomalies'), Carried(buffer'), Carried(alerts'),
           ppc' \in {"running", "done", "raised"}, BatchingIsInvisible'
    PROVE  PipelineInv'
<1>1. UNCHANGED <<profile, mode, raw, taken, adapted, apc, setup, written>>
  BY DEF upstreamVars, adapterVars, streamVars, windowVars
<1>2. StreamTyped'
  BY <1>1 DEF PipelineInv, StreamTyped
<1>3. AdaptedSound'
  BY <1>1 DEF PipelineInv, AdaptedSound
<1>4. PhaseInv'
  BY <1>1 DEF PipelineInv, PhaseInv
<1>5. QueueInv'
  BY <1>1 DEF PipelineInv, QueueInv
<1>6. ScorerInv'
  BY <1>1 DEF ScorerInv, Carried, InputOf
<1> QED
  BY <1>2, <1>3, <1>4, <1>5, <1>6 DEF PipelineInv

\* Nothing is there to take while the bridge is waiting for its window.
LEMMA ScorerWaits ==
    ASSUME PipelineInv, \/ consumed < Readable \/ handed < Len(adapted) \/ buffer # <<>>
                        \/ AtEnd \/ feed = "stdin"
    PROVE  apc # "bridging"
<1> SUFFICES ASSUME apc = "bridging" PROVE FALSE
  OBVIOUS
<1>1. mode = "bridge" /\ feed = "file" /\ Untouched
  BY DEF PipelineInv, PhaseInv
<1> QED
  BY <1>1, EmptySeq DEF Untouched, Readable, AtEnd

LEMMA HandKeeps == ASSUME PipelineInv, Hand PROVE PipelineInv'
<1>1. apc # "bridging"
  BY ScorerWaits DEF Hand
<1>2. /\ UNCHANGED <<upstreamVars, feed, attacks, lacking, queued, consumed, buffer, alerts,
                     anomalies, ppc>>
      /\ UNCHANGED <<mode, raw, adapted>>
  BY DEF Hand, batchVars, upstreamVars, adapterVars, streamVars
<1>3. handed' \in 0..Len(adapted) /\ queued' \in 0..handed' /\ consumed' \in 0..Len(adapted)
  <2>1. Len(adapted) \in Nat /\ handed \in 0..Len(adapted) /\ queued \in 0..handed
        /\ consumed \in 0..Len(adapted)
    BY DEF PipelineInv, AdaptedSound, IsSeq, QueueInv
  <2>2. \E n \in handed + 1..Len(adapted) : handed' = n
    BY DEF Hand
  <2> QED
    BY <1>2, <2>1, <2>2
<1>4. /\ IsSeq(buffer') /\ IsSeq(alerts') /\ IsSeq(anomalies') /\ Carried(buffer')
      /\ Carried(alerts') /\ ppc' \in {"running", "done", "raised"}
  BY <1>2 DEF PipelineInv, ScorerInv
<1>5. BatchingIsInvisible'
  BY <1>2, OutputsNow, OutputsNext DEF PipelineInv
<1> QED
  BY <1>1, <1>2, <1>3, <1>4, <1>5, ScorerKeeps

LEMMA ReaderKeeps == ASSUME PipelineInv, Reader \/ ReaderEnds PROVE PipelineInv'
<1>1. apc # "bridging"
  BY ScorerWaits DEF Reader, ReaderEnds
<1>2. /\ UNCHANGED <<upstreamVars, feed, attacks, lacking, handed, consumed, buffer, alerts,
                     anomalies, ppc>>
      /\ UNCHANGED <<mode, raw, adapted>>
      /\ queued' = queued \/ (queued < handed /\ queued' = queued + 1)
  BY DEF Reader, ReaderEnds, batchVars, upstreamVars, adapterVars, streamVars
<1>3. handed' \in 0..Len(adapted) /\ queued' \in 0..handed' /\ consumed' \in 0..Len(adapted)
  BY <1>2 DEF PipelineInv, AdaptedSound, IsSeq, QueueInv
<1>4. /\ IsSeq(buffer') /\ IsSeq(alerts') /\ IsSeq(anomalies') /\ Carried(buffer')
      /\ Carried(alerts') /\ ppc' \in {"running", "done", "raised"}
  BY <1>2 DEF PipelineInv, ScorerInv
<1>5. BatchingIsInvisible'
  BY <1>2, OutputsNow, OutputsNext DEF PipelineInv
<1> QED
  BY <1>1, <1>2, <1>3, <1>4, <1>5, ScorerKeeps

LEMMA TickKeeps == ASSUME PipelineInv, Tick PROVE PipelineInv'
<1>1. apc # "bridging"
  BY ScorerWaits DEF Tick
<1>2. /\ UNCHANGED <<upstreamVars, feed, attacks, lacking, handed, queued, consumed, buffer, alerts,
                     anomalies, ppc>>
      /\ UNCHANGED <<mode, raw, adapted>>
  BY DEF Tick, pipeVars, upstreamVars, adapterVars, streamVars
<1>3. handed' \in 0..Len(adapted) /\ queued' \in 0..handed' /\ consumed' \in 0..Len(adapted)
  BY <1>2 DEF PipelineInv, QueueInv
<1>4. /\ IsSeq(buffer') /\ IsSeq(alerts') /\ IsSeq(anomalies') /\ Carried(buffer')
      /\ Carried(alerts') /\ ppc' \in {"running", "done", "raised"}
  BY <1>2 DEF PipelineInv, ScorerInv
<1>5. BatchingIsInvisible'
  BY <1>2, OutputsNow, OutputsNext DEF PipelineInv
<1> QED
  BY <1>1, <1>2, <1>3, <1>4, <1>5, ScorerKeeps

\* Taking a line, then: what the outputs have to hold after it.
LEMMA TakeKeeps ==
    ASSUME PipelineInv, Taking, UNCHANGED ppc \/ ppc' = "raised",
           IsSeq(buffer'), IsSeq(alerts'), IsSeq(anomalies'), Carried(buffer'), Carried(alerts'),
           ppc' # "raised" =>
             Accounts(Lines(alerts') \o Lines(buffer'), anomalies', consumed + 1),
           ppc' = "raised" =>
             /\ Raises(buffer')
             /\ \/ Accounts(Lines(alerts') \o Lines(buffer'), anomalies', consumed + 1)
                \/ Accounts(Lines(alerts') \o Lines(buffer'), anomalies', consumed)
    PROVE  PipelineInv'
<1>1. apc # "bridging"
  BY ScorerWaits DEF Taking
<1>2. /\ UNCHANGED <<upstreamVars, feed, attacks, lacking, handed, queued>>
      /\ UNCHANGED <<mode, raw, adapted>> /\ ppc = "running" /\ consumed' = consumed + 1
  BY DEF Taking, pipeVars, upstreamVars, adapterVars, streamVars
<1>3. consumed \in Nat /\ consumed < Len(adapted) /\ Len(adapted) \in Nat
  <2>1. consumed < Readable /\ Readable \in 0..Len(adapted)
    BY DEF Taking, PipelineInv, QueueInv, Readable, AdaptedSound, IsSeq
  <2> QED
    BY <2>1 DEF PipelineInv, QueueInv, AdaptedSound, IsSeq
<1>4. handed' \in 0..Len(adapted) /\ queued' \in 0..handed' /\ consumed' \in 0..Len(adapted)
  BY <1>2, <1>3 DEF PipelineInv, QueueInv
<1>5. BatchingIsInvisible'
  <2>1. consumed' - 1 = consumed
    BY <1>2, <1>3
  <2>2. ppc' # "done"
    BY <1>2
  <2> QED
    BY <1>2, <2>1, <2>2, OutputsNext
<1>6. ppc' \in {"running", "done", "raised"}
  BY <1>2
<1> QED
  BY <1>1, <1>2, <1>4, <1>5, <1>6, ScorerKeeps

LEMMA TakeUnparsedKeeps == ASSUME PipelineInv, TakeUnparsed PROVE PipelineInv'
<1> DEFINE n == adapted[consumed + 1].line
<1>1. /\ n \in 1..Len(raw)
      /\ Oddities(consumed) \in SUBSET Nat /\ \A m \in Oddities(consumed) : m < n
      /\ Scorable(consumed + 1) = IF Valid(n) THEN Scorable(consumed) \cup {n}
                                  ELSE Scorable(consumed)
      /\ Oddities(consumed + 1) = IF Odd(n) THEN Oddities(consumed) \cup {n}
                                  ELSE Oddities(consumed)
      /\ Incoming.form = Form(n)
  <2> HIDE DEF n
  <2> QED
    BY NextLine DEF TakeUnparsed, n
<1>2. /\ UNCHANGED <<buffer, alerts, ppc>> /\ ppc = "running" /\ Incoming.form # "record"
      /\ anomalies' = IF Incoming.form = "blank" THEN anomalies ELSE Append(anomalies, n)
  BY DEF TakeUnparsed, Taking, batchVars
<1> HIDE DEF n
<1>3. ~Valid(n) /\ (Odd(n) <=> Form(n) # "blank")
  BY <1>1, <1>2 DEF Valid, Odd
<1>4. Accounts(Lines(alerts) \o Lines(buffer), anomalies, consumed)
  BY <1>2, OutputsNow DEF PipelineInv
<1>5. IsSeq(buffer) /\ IsSeq(alerts) /\ IsSeq(anomalies) /\ Carried(buffer) /\ Carried(alerts)
  BY DEF PipelineInv, ScorerInv
<1>6. n \in Nat
  BY <1>1 DEF PipelineInv, StreamTyped, IsSeq
<1>7. IsSeq(anomalies') /\ Accounts(Lines(alerts') \o Lines(buffer'), anomalies', consumed + 1)
  <2>1. CASE Form(n) = "blank"
    BY <1>1, <1>2, <1>3, <1>4, <1>5, <2>1 DEF Accounts
  <2>2. CASE Form(n) # "blank"
    <3>1. anomalies' = Append(anomalies, n) /\ Oddities(consumed + 1) = Oddities(consumed) \cup {n}
      BY <1>1, <1>2, <1>3, <2>2
    <3>2. Lists(anomalies', Oddities(consumed + 1))
      BY <1>1, <1>4, <1>5, <1>6, <3>1, ListsAppend DEF Accounts
    <3> QED
      BY <1>1, <1>2, <1>3, <1>4, <1>5, <3>1, <3>2, AppendSeq DEF Accounts
  <2> QED
    BY <2>1, <2>2
<1> QED
  BY <1>2, <1>5, <1>7, TakeKeeps DEF TakeUnparsed

LEMMA OneMore ==
    ASSUME NEW out, IsSeq(out), NEW n, NEW e, e.line = n
    PROVE  out \o Lines(<<e>>) = Append(out, n)
<1>1. IsSeq(<<e>>) /\ Len(<<e>>) = 1 /\ <<e>>[1] = e
      /\ IsSeq(<<n>>) /\ Len(<<n>>) = 1 /\ <<n>>[1] = n
  BY ShortSeqs
<1>2. Lines(<<e>>) = <<n>>
  <2> DEFINE one == Lines(<<e>>)
  <2>1. IsSeq(one) /\ Len(one) = 1 /\ one[1] = n
    BY <1>1, LinesSeq
  <2> HIDE DEF one
  <2>2. one = <<n>>
    BY <1>1, <2>1, SameSeq
  <2> QED
    BY <2>2 DEF one
<1> DEFINE S == {out[k] : k \in 1..Len(out)} \cup {n}
<1>3. out \in Seq(S) /\ n \in S
  BY Within
<1> HIDE DEF S
<1>4. Append(out, n) = out \o <<n>>
  BY <1>3, AppendIsConcat
<1> QED
  BY <1>2, <1>4

LEMMA TakeRecordKeeps == ASSUME PipelineInv, TakeRecord PROVE PipelineInv'
<1> DEFINE n == adapted[consumed + 1].line
           result == Validate(Incoming.record)
           entry == [line |-> n, from |-> result.aligned]
           entries == IF result.verdict = "valid" THEN <<entry>> ELSE <<>>
           grown == buffer \o entries
           out == Lines(alerts) \o Lines(buffer)
           out1 == Lines(alerts') \o Lines(buffer')
           small == Len(grown) < BatchSize
           lost == entries = <<>> /\ ppc' = "running"
<1>1. /\ Taking /\ Incoming.form = "record" /\ ppc = "running"
      /\ CASE due -> Flush(buffer, entries)
           [] ~due /\ small -> buffer' = grown /\ UNCHANGED <<due, alerts, ppc>>
           [] OTHER -> Flush(grown, <<>>)
      /\ anomalies' = IF lost THEN Append(anomalies, n) ELSE anomalies
  BY DEF TakeRecord, Taking
<1>2. /\ n \in 1..Len(raw)
      /\ Scorable(consumed) \in SUBSET Nat /\ Oddities(consumed) \in SUBSET Nat
      /\ \A m \in Scorable(consumed) \cup Oddities(consumed) : m < n
      /\ Scorable(consumed + 1) = IF Valid(n) THEN Scorable(consumed) \cup {n}
                                  ELSE Scorable(consumed)
      /\ Oddities(consumed + 1) = IF Odd(n) THEN Oddities(consumed) \cup {n}
                                  ELSE Oddities(consumed)
      /\ Incoming.form = Form(n)
      /\ Form(n) = "record" =>
           /\ Incoming.record = InputOf(n)
           /\ Validate(Incoming.record).verdict = "valid" <=> Valid(n)
  <2> HIDE DEF n
  <2> QED
    BY <1>1, NextLine DEF n
<1> HIDE DEF n
<1>3. /\ result.verdict = "valid" <=> Valid(n)
      /\ Incoming.record = InputOf(n) /\ (Odd(n) <=> ~Valid(n))
  BY <1>1, <1>2 DEF Odd
<1>4. IsSeq(buffer) /\ IsSeq(alerts) /\ IsSeq(anomalies) /\ Carried(buffer) /\ Carried(alerts)
      /\ ScorerInv
  BY DEF PipelineInv, ScorerInv
<1>5. Accounts(out, anomalies, consumed)
  BY <1>1, OutputsNow DEF PipelineInv
<1>6. n \in Nat
  BY <1>2 DEF PipelineInv, StreamTyped, IsSeq
<1>7. IsSeq(Lines(alerts)) /\ IsSeq(Lines(buffer)) /\ IsSeq(out)
  BY <1>4, LinesSeq, ConcatSeq
<1>8. IsSeq(entries) /\ Carried(entries) /\ (entries = <<>> <=> ~Valid(n))
  <2>1. CASE Valid(n)
    <3>1. entries = <<entry>> /\ IsSeq(entries) /\ Len(entries) = 1 /\ entries[1] = entry
      BY <1>3, <2>1, ShortSeqs
    <3>2. entry.line = n /\ entry.from = Validate(InputOf(n)).aligned
          /\ Validate(InputOf(n)).verdict = "valid"
      BY <1>3, <2>1
    <3> HIDE DEF entry, entries
    <3>3. Carried(entries)
      BY <1>2, <3>1, <3>2 DEF Carried
    <3> QED
      BY <2>1, <3>1, <3>3, EmptyUnit
  <2>2. CASE ~Valid(n)
    BY <1>3, <2>2, ShortSeqs DEF Carried
  <2> QED
    BY <2>1, <2>2
<1>9. out \o Lines(entries) = IF Valid(n) THEN Append(out, n) ELSE out
  <2>1. CASE Valid(n)
    <3>1. entries = <<entry>> /\ entry.line = n
      BY <1>3, <2>1
    <3> HIDE DEF entry, entries, out
    <3> QED
      BY <1>7, <2>1, <3>1, OneMore
  <2>2. CASE ~Valid(n)
    <3>1. entries = <<>> /\ Lines(<<>>) = <<>>
      <4>1. IsSeq(Lines(<<>>)) /\ Len(Lines(<<>>)) = 0
        BY ShortSeqs, LinesSeq
      <4> QED
        BY <1>3, <2>2, <4>1, EmptyUnit
    <3> HIDE DEF out, entries
    <3> QED
      BY <1>7, <2>2, <3>1, EmptyUnit
  <2> QED
    BY <2>1, <2>2
<1> HIDE DEF entries, result, entry
<1>10. IsSeq(grown) /\ Carried(grown) /\ Lines(alerts) \o Lines(grown) = out \o Lines(entries)
  <2>1. Lines(grown) = Lines(buffer) \o Lines(entries) /\ IsSeq(grown)
    BY <1>4, <1>8, LinesConcat, ConcatSeq
  <2>2. IsSeq(Lines(entries))
    BY <1>8, LinesSeq
  <2>3. Carried(grown)
    BY <1>4, <1>8, CarriedConcat
  <2> HIDE DEF grown
  <2>4. (Lines(alerts) \o Lines(buffer)) \o Lines(entries)
          = Lines(alerts) \o (Lines(buffer) \o Lines(entries))
    BY <1>7, <2>2, ConcatThree
  <2> QED
    BY <2>1, <2>3, <2>4
<1> HIDE DEF grown, out, out1, lost
<1>11. /\ IsSeq(alerts') /\ IsSeq(buffer') /\ Carried(alerts') /\ Carried(buffer')
       /\ \/ ppc' = ppc /\ out1 = out \o Lines(entries)
          \/ ppc' = "raised" /\ Raises(buffer') /\ out1 = out
          \/ ppc' = "raised" /\ Raises(buffer') /\ out1 = out \o Lines(entries)
  <2>1. CASE due
    <3>1. Flush(buffer, entries)
      BY <1>1, <2>1
    <3> QED
      BY <1>4, <1>8, <3>1, FlushMoves DEF out, out1
  <2>2. CASE ~due /\ small
    <3>1. buffer' = grown /\ UNCHANGED <<due, alerts, ppc>>
      BY <1>1, <2>2
    <3> QED
      BY <1>4, <1>10, <3>1 DEF out1
  <2>3. CASE ~due /\ ~small
    <3>1. Flush(grown, <<>>)
      BY <1>1, <2>3
    <3>2. IsSeq(<<>>) /\ Carried(<<>>) /\ Lines(<<>>) = <<>>
      <4>1. IsSeq(<<>>) /\ Len(<<>>) = 0
        BY ShortSeqs
      <4>2. IsSeq(Lines(<<>>)) /\ Len(Lines(<<>>)) = 0
        BY <4>1, LinesSeq
      <4> QED
        BY <4>1, <4>2, EmptyUnit DEF Carried
    <3>3. /\ IsSeq(alerts') /\ IsSeq(buffer') /\ Carried(alerts') /\ Carried(buffer')
          /\ \/ /\ Raises(grown) /\ ppc' = "raised" /\ buffer' = grown
                /\ out1 = Lines(alerts) \o Lines(grown)
             \/ /\ ppc' = ppc
                /\ out1 = (Lines(alerts) \o Lines(grown)) \o <<>>
      BY <1>4, <1>10, <3>1, <3>2, FlushMoves DEF out1
    <3>4. IsSeq(out \o Lines(entries))
      BY <1>7, <1>8, LinesSeq, ConcatSeq
    <3>5. (out \o Lines(entries)) \o <<>> = out \o Lines(entries)
      BY <3>4, EmptyUnit
    <3> QED
      BY <1>10, <3>3, <3>5
  <2> QED
    BY <2>1, <2>2, <2>3
<1>12. CASE Valid(n)
  <2>1. anomalies' = anomalies /\ Oddities(consumed + 1) = Oddities(consumed)
        /\ Scorable(consumed + 1) = Scorable(consumed) \cup {n}
    BY <1>1, <1>2, <1>3, <1>8, <1>12 DEF lost
  <2>2. Lists(Append(out, n), Scorable(consumed + 1))
    BY <1>2, <1>5, <1>6, <1>7, <2>1, ListsAppend DEF Accounts
  <2>3. Accounts(Append(out, n), anomalies', consumed + 1)
    BY <1>5, <2>1, <2>2 DEF Accounts
  <2>4. out \o Lines(entries) = Append(out, n)
    BY <1>9, <1>12
  <2> QED
    BY <1>1, <1>4, <1>5, <1>11, <2>1, <2>3, <2>4, TakeKeeps DEF out1
<1>13. CASE ~Valid(n)
  <2>1. /\ Scorable(consumed + 1) = Scorable(consumed)
        /\ Oddities(consumed + 1) = Oddities(consumed) \cup {n}
        /\ out \o Lines(entries) = out
    BY <1>2, <1>3, <1>9, <1>13
  <2>2. CASE ppc' = "raised"
    <3>1. anomalies' = anomalies
      BY <1>1, <2>2 DEF lost
    <3> QED
      BY <1>1, <1>4, <1>5, <1>11, <2>1, <2>2, <3>1, TakeKeeps DEF out1
  <2>3. CASE ppc' = ppc
    <3>1. anomalies' = Append(anomalies, n)
      BY <1>1, <1>8, <1>13, <2>3 DEF lost
    <3>2. Lists(anomalies', Oddities(consumed + 1)) /\ IsSeq(anomalies')
      BY <1>2, <1>4, <1>5, <1>6, <2>1, <3>1, ListsAppend, AppendSeq DEF Accounts
    <3>3. out1 = out
      BY <1>1, <1>11, <2>1, <2>3
    <3>4. Accounts(out1, anomalies', consumed + 1)
      BY <1>5, <2>1, <3>2, <3>3 DEF Accounts
    <3> QED
      BY <1>1, <1>11, <2>3, <3>2, <3>4, TakeKeeps DEF out1
  <2> QED
    BY <1>11, <2>2, <2>3
<1> QED
  BY <1>12, <1>13

LEMMA PollKeeps == ASSUME PipelineInv, Poll PROVE PipelineInv'
<1>1. apc # "bridging"
  <2>1. feed = "stdin" \/ apc = "done"
    BY DEF Poll, Quiet
  <2> QED
    BY <2>1, ScorerWaits
<1>2. /\ UNCHANGED <<upstreamVars, feed, attacks, lacking, handed, queued, consumed, anomalies>>
      /\ UNCHANGED <<mode, raw, adapted>> /\ ppc = "running" /\ Flush(buffer, <<>>)
  BY DEF Poll, Quiet, pipeVars, upstreamVars, adapterVars, streamVars
<1>3. handed' \in 0..Len(adapted) /\ queued' \in 0..handed' /\ consumed' \in 0..Len(adapted)
  BY <1>2 DEF PipelineInv, QueueInv
<1>4. IsSeq(buffer) /\ IsSeq(alerts) /\ IsSeq(anomalies) /\ Carried(buffer) /\ ScorerInv
  BY DEF PipelineInv, ScorerInv
<1>5. IsSeq(<<>>) /\ Carried(<<>>) /\ Lines(<<>>) = <<>>
  <2>1. IsSeq(<<>>) /\ Len(<<>>) = 0
    BY ShortSeqs
  <2>2. IsSeq(Lines(<<>>)) /\ Len(Lines(<<>>)) = 0
    BY <2>1, LinesSeq
  <2> QED
    BY <2>1, <2>2, EmptyUnit DEF Carried
<1>6. IsSeq(Lines(alerts) \o Lines(buffer))
  BY <1>4, LinesSeq, ConcatSeq
<1>7. /\ IsSeq(alerts') /\ IsSeq(buffer') /\ Carried(alerts') /\ Carried(buffer')
      /\ Lines(alerts') \o Lines(buffer') = Lines(alerts) \o Lines(buffer)
      /\ ppc' = ppc \/ (ppc' = "raised" /\ Raises(buffer'))
  BY SMTT(30), <1>2, <1>4, <1>5, <1>6, FlushMoves, EmptyUnit
<1>8. BatchingIsInvisible'
  BY <1>2, <1>7, OutputsNow, OutputsNext DEF PipelineInv
<1>9. ppc' \in {"running", "done", "raised"} /\ IsSeq(anomalies')
  BY <1>2, <1>4, <1>7
<1> QED
  BY <1>1, <1>2, <1>3, <1>7, <1>8, <1>9, ScorerKeeps

LEMMA FinalizeKeeps == ASSUME PipelineInv, Finalize PROVE PipelineInv'
<1>1. apc # "bridging"
  BY ScorerWaits DEF Finalize, Ending
<1>2. /\ UNCHANGED <<upstreamVars, feed, attacks, lacking, handed, queued, consumed, anomalies>>
      /\ UNCHANGED <<mode, raw, adapted>> /\ ppc = "running"
  BY DEF Finalize, Ending, pipeVars, upstreamVars, adapterVars, streamVars
<1>3. handed' \in 0..Len(adapted) /\ queued' \in 0..handed' /\ consumed' \in 0..Len(adapted)
  BY <1>2 DEF PipelineInv, QueueInv
<1>4. IsSeq(buffer) /\ IsSeq(alerts) /\ IsSeq(anomalies) /\ Carried(buffer) /\ Carried(alerts)
  BY DEF PipelineInv, ScorerInv
<1>5. Accounts(Lines(alerts) \o Lines(buffer), anomalies, consumed)
  BY <1>2, OutputsNow DEF PipelineInv
<1>6. CASE Raises(buffer)
  <2>1. ppc' = "raised" /\ UNCHANGED <<buffer, alerts>>
    BY <1>6 DEF Finalize, batchVars
  <2>2. BatchingIsInvisible'
    BY <1>2, <1>5, <1>6, <2>1, OutputsNext
  <2> QED
    BY <1>1, <1>2, <1>3, <1>4, <2>1, <2>2, ScorerKeeps
<1>7. CASE ~Raises(buffer)
  <2>1. ppc' = "done" /\ buffer' = <<>> /\ alerts' = alerts \o Scored(buffer)
    BY <1>7 DEF Finalize
  <2>2. IsSeq(Scored(buffer)) /\ Lines(Scored(buffer)) = Lines(buffer) /\ Carried(Scored(buffer))
    BY <1>4, ScoredBatch
  <2>3. IsSeq(alerts') /\ Carried(alerts') /\ Lines(alerts') = Lines(alerts) \o Lines(buffer)
    BY <1>4, <2>1, <2>2, ConcatSeq, CarriedConcat, LinesConcat
  <2>4. IsSeq(<<>>) /\ Len(<<>>) = 0 /\ Carried(<<>>)
    BY ShortSeqs DEF Carried
  <2>5. Lines(<<>>) = <<>>
    <3>1. IsSeq(Lines(<<>>)) /\ Len(Lines(<<>>)) = 0
      BY <2>4, LinesSeq
    <3> QED
      BY <3>1, EmptyUnit
  <2>6. Lines(alerts') \o Lines(buffer') = Lines(alerts) \o Lines(buffer)
    <3>1. IsSeq(Lines(alerts'))
      BY <2>3, LinesSeq
    <3> QED
      BY <2>1, <2>3, <2>5, <3>1, EmptyUnit
  <2>7. BatchingIsInvisible'
    BY <1>2, <1>5, <2>1, <2>6, OutputsNext
  <2>8. IsSeq(buffer') /\ Carried(buffer') /\ IsSeq(anomalies')
        /\ ppc' \in {"running", "done", "raised"}
    BY <1>2, <1>4, <2>1, <2>4
  <2> QED
    BY <1>1, <1>2, <1>3, <2>3, <2>7, <2>8, ScorerKeeps
<1> QED
  BY <1>6, <1>7

-----------------------------------------------------------------------------
(* The steps upstream.                                                     *)

\* A step that leaves the stream as it is, or goes on with it: whatever the scorer
\* has taken stays as it was.
LEMMA UpstreamKeeps ==
    ASSUME PipelineInv, UNCHANGED <<profile, mode, raw, scorerVars>>,
           setup'.profile = setup.profile, written' \in Nat,
           apc' = apc \/ (apc' # "bridging" /\ mode \in {"file", "stdin"}),
           taken' \in 0..Len(raw), AdaptedSound', Len(adapted) <= Len(adapted'),
           \A k \in 1..Len(adapted) : adapted'[k] = adapted[k],
           apc = "bridging" => adapted' = adapted
    PROVE  PipelineInv'
<1>1. UNCHANGED <<feed, attacks, lacking, handed, queued, consumed, buffer, alerts, anomalies, ppc>>
  BY DEF scorerVars, pipeVars, batchVars
<1>2. Len(adapted) \in Nat /\ Len(adapted') \in Nat
  BY DEF PipelineInv, AdaptedSound, IsSeq
<1>3. StreamTyped'
  BY DEF PipelineInv, StreamTyped
<1>4. PhaseInv'
  BY <1>1 DEF PipelineInv, PhaseInv, Untouched
<1>5. QueueInv'
  BY <1>1, <1>2 DEF PipelineInv, QueueInv
<1>6. ScorerInv'
  BY <1>1 DEF PipelineInv, ScorerInv, Carried, InputOf
<1>7. BatchingIsInvisible'
  <2>1. \A n : (Valid(n)' <=> Valid(n)) /\ (Odd(n)' <=> Odd(n))
    BY DEF Valid, Odd, Form
  <2>2. consumed \in 0..Len(adapted)
    BY DEF PipelineInv, QueueInv
  <2>3. /\ {adapted'[k].line : k \in 1..consumed} = {adapted[k].line : k \in 1..consumed}
        /\ {adapted'[k].line : k \in 1..consumed - 1} = {adapted[k].line : k \in 1..consumed - 1}
    <3>1. /\ \A k \in 1..consumed : adapted'[k].line = adapted[k].line
          /\ \A k \in 1..consumed - 1 : adapted'[k].line = adapted[k].line
      BY SMTT(30), <1>2, <2>2
    <3> QED
      BY <3>1
  <2> QED
    BY <1>1, <2>1, <2>3 DEF PipelineInv, BatchingIsInvisible, Complete, Raises
<1> QED
  BY <1>3, <1>4, <1>5, <1>6, <1>7 DEF PipelineInv

LEMMA QuietUpstream ==
    ASSUME PipelineInv, UNCHANGED <<profile, mode, raw, taken, adapted, scorerVars>>,
           setup'.profile = setup.profile, written' \in Nat,
           apc' = apc \/ (apc' # "bridging" /\ mode \in {"file", "stdin"})
    PROVE  PipelineInv'
<1>1. taken' \in 0..Len(raw) /\ Len(adapted) \in Nat
  BY DEF PipelineInv, StreamTyped, AdaptedSound, IsSeq
<1>2. AdaptedSound'
  BY DEF PipelineInv, AdaptedSound
<1> QED
  BY <1>1, <1>2, UpstreamKeeps

LEMMA ReadLineKeeps ==
    ASSUME PipelineInv, ReadLine, UNCHANGED <<windowVars, scorerVars>> PROVE PipelineInv'
<1> DEFINE n == taken + 1
           input == AdapterInput(profile, raw[n].record)
           good == /\ ~raw[n].long /\ raw[n].form = "record"
                   /\ Adapt(profile, raw[n].record).verdict = "valid"
           entry == [line |-> n, record |-> input]
<1>1. /\ UNCHANGED <<profile, mode, raw, apc, setup, written>> /\ apc = "reading"
      /\ taken < Len(raw) /\ taken' = taken + 1
      /\ adapted' = IF ~good THEN adapted ELSE Append(adapted, entry)
  BY DEF ReadLine, windowVars
<1>2. taken \in Nat /\ Len(raw) \in Nat /\ n \in 1..Len(raw) /\ taken' \in 0..Len(raw)
      /\ written' \in Nat /\ IsSeq(adapted) /\ Len(adapted) \in Nat /\ mode # "none"
  BY <1>1 DEF PipelineInv, StreamTyped, IsSeq, AdaptedSound, PhaseInv
<1>3. \A k \in 1..Len(adapted) :
         /\ adapted[k].line \in 1..Len(raw) /\ adapted[k].line <= taken
         /\ adapted[k].record = AdapterInput(profile, raw[adapted[k].line].record)
         /\ Adapt(profile, raw[adapted[k].line].record).verdict = "valid"
  BY <1>2 DEF PipelineInv, AdaptedSound
<1>4. CASE ~good
  <2>1. adapted' = adapted
    BY <1>1, <1>4
  <2>2. AdaptedSound'
    <3>1. \A k \in 1..Len(adapted) : adapted[k].line <= taken + 1
      BY <1>2, <1>3
    <3> QED
      BY <1>1, <1>2, <1>3, <2>1, <3>1 DEF PipelineInv, AdaptedSound
  <2> QED
    BY <1>1, <1>2, <2>1, <2>2, UpstreamKeeps
<1>5. CASE good
  <2>1. /\ IsSeq(adapted') /\ Len(adapted') = Len(adapted) + 1
        /\ \A k \in 1..Len(adapted) : adapted'[k] = adapted[k]
        /\ adapted'[Len(adapted) + 1] = entry
    <3> HIDE DEF entry
    <3> QED
      BY <1>1, <1>2, <1>5, AppendSeq
  <2>2. entry.line = n /\ entry.record = input /\ Adapt(profile, raw[n].record).verdict = "valid"
    BY <1>5
  <2> HIDE DEF entry, input
  <2>3. ASSUME NEW k \in 1..Len(adapted')
        PROVE  /\ adapted'[k].line \in 1..Len(raw) /\ adapted'[k].line <= taken + 1
               /\ adapted'[k].record = AdapterInput(profile, raw[adapted'[k].line].record)
               /\ Adapt(profile, raw[adapted'[k].line].record).verdict = "valid"
    <3>1. CASE k \in 1..Len(adapted)
      BY <1>2, <1>3, <2>1, <3>1
    <3>2. CASE k = Len(adapted) + 1
      BY <1>2, <2>1, <2>2, <3>2 DEF input
    <3> QED
      BY <1>2, <2>1, <3>1, <3>2
  <2>4. ASSUME NEW j \in 1..Len(adapted'), NEW k \in 1..Len(adapted'), j < k
        PROVE  adapted'[j].line < adapted'[k].line
    <3>1. j \in 1..Len(adapted)
      BY <1>2, <2>1, <2>4
    <3>2. CASE k \in 1..Len(adapted)
      BY <2>1, <2>4, <3>1, <3>2 DEF PipelineInv, AdaptedSound
    <3>3. CASE k = Len(adapted) + 1
      BY <1>2, <1>3, <2>1, <2>2, <3>1, <3>3
    <3> QED
      BY <1>2, <2>1, <3>2, <3>3
  <2>5. AdaptedSound'
    BY <1>1, <2>1, <2>3, <2>4 DEF AdaptedSound
  <2>6. Len(adapted) <= Len(adapted')
    BY <1>2, <2>1
  <2> QED
    BY <1>1, <1>2, <2>1, <2>5, <2>6, UpstreamKeeps
<1> QED
  BY <1>4, <1>5

LEMMA BridgeKeeps ==
    ASSUME PipelineInv, BridgeWindow, UNCHANGED scorerVars PROVE PipelineInv'
<1> DEFINE row == Row(setup.profile)
           input == AdapterInput(profile, row.record)
           good == Adapt(profile, row.record).verdict = "valid"
           count == IF epc = "exited" /\ setup.suffix /\ setup.known THEN written ELSE 0
<1>1. /\ apc = "bridging" /\ apc' = "done" /\ UNCHANGED <<profile, mode, setup, written>>
      /\ raw' = [n \in 1..count |-> row] /\ taken' = count
      /\ adapted' = IF good THEN [n \in 1..count |-> [line |-> n, record |-> input]] ELSE <<>>
  BY DEF BridgeWindow, Bridging, AdaptRows
<1>2. UNCHANGED <<feed, handed, queued, consumed, buffer, alerts, anomalies, ppc>>
  BY DEF scorerVars, pipeVars, batchVars
<1>3. /\ mode = "bridge" /\ Untouched /\ feed = "file" /\ setup.profile \in Profiles
      /\ count \in Nat
  BY <1>1 DEF PipelineInv, PhaseInv, StreamTyped
<1>4. row.record \in Records
  BY <1>3, RowFields
<1> HIDE DEF count, row, input, good
<1>5. IsSeq(raw') /\ Len(raw') = count /\ \A n \in 1..count : raw'[n].record = row.record
  <2>1. raw' = [n \in 1..count |-> raw'[n]]
    BY <1>1
  <2> QED
    BY <1>1, <1>3, <2>1, ListedIsSeq
<1>6. StreamTyped'
  BY <1>1, <1>3, <1>4, <1>5 DEF PipelineInv, StreamTyped
<1>7. AdaptedSound'
  <2>1. CASE good
    <3>1. adapted' = [n \in 1..count |-> adapted'[n]]
          /\ \A n \in 1..count : adapted'[n].line = n /\ adapted'[n].record = input
      BY <1>1, <2>1
    <3>2. IsSeq(adapted') /\ Len(adapted') = count
      BY <1>3, <3>1, ListedIsSeq
    <3>3. input = AdapterInput(profile, row.record)
          /\ Adapt(profile, row.record).verdict = "valid"
      BY <2>1 DEF input, good
    <3> QED
      BY <1>1, <1>3, <1>5, <3>1, <3>2, <3>3 DEF AdaptedSound
  <2>2. CASE ~good
    <3>1. adapted' = <<>> /\ IsSeq(adapted') /\ Len(adapted') = 0
      BY <1>1, <2>2, ShortSeqs
    <3> QED
      BY <3>1 DEF AdaptedSound
  <2> QED
    BY <2>1, <2>2
<1>8. PhaseInv'
  BY <1>1, <1>2, <1>3 DEF PhaseInv
<1>9. QueueInv'
  BY <1>2, <1>3, <1>7 DEF Untouched, QueueInv, AdaptedSound, IsSeq
<1>10. ScorerInv'
  <2>1. IsSeq(<<>>) /\ Len(<<>>) = 0
    BY ShortSeqs
  <2> QED
    BY <1>2, <1>3, <2>1 DEF Untouched, ScorerInv, Carried
<1>11. BatchingIsInvisible'
  <2>1. Lines(alerts') \o Lines(buffer') = <<>> /\ anomalies' = <<>>
    <3>1. IsSeq(<<>>) /\ Len(<<>>) = 0
      BY ShortSeqs
    <3>2. IsSeq(Lines(<<>>)) /\ Len(Lines(<<>>)) = 0
      BY <3>1, LinesSeq
    <3> QED
      BY <1>2, <1>3, <3>1, <3>2, EmptyUnit DEF Untouched
  <2>2. {adapted'[k].line : k \in 1..consumed'} = {}
    BY <1>2, <1>3 DEF Untouched
  <2>3. Lists(<<>>, {})
    BY DEF Lists, Range
  <2>4. Complete(consumed)'
    BY <2>1, <2>2, <2>3 DEF Complete
  <2> QED
    BY <1>2, <1>3, <2>4 DEF Untouched, BatchingIsInvisible
<1> QED
  BY <1>6, <1>7, <1>8, <1>9, <1>10, <1>11 DEF PipelineInv

LEMMA AdaptingKeeps == ASSUME PipelineInv, Adapting PROVE PipelineInv'
<1>1. UNCHANGED <<windowVars, scorerVars, setup, written>> /\ AdapterNext
  BY DEF Adapting, windowVars
<1>2. mode \in {"file", "stdin", "bridge", "none"} /\ written \in Nat
      /\ (mode = "none" => apc = "done") /\ (mode = "bridge" => apc \in {"bridging", "done"})
  BY DEF PipelineInv, StreamTyped, PhaseInv
<1>3. CASE ReadLine
  BY <1>1, <1>3, ReadLineKeeps
<1>4. CASE Open
  BY <1>1, <1>2, <1>4, QuietUpstream DEF Open, streamVars
<1>5. CASE OpenFails
  BY <1>1, <1>2, <1>5, QuietUpstream DEF OpenFails, streamVars
<1>6. CASE EndOfInput
  BY <1>1, <1>2, <1>6, QuietUpstream DEF EndOfInput, streamVars
<1>7. CASE FileStep
  <2>1. apc' = apc \/ apc' \in {"cleaning", "done", "failed"}
    BY <1>7 DEF FileStep, After
  <2> QED
    BY <1>1, <1>2, <1>7, <2>1, QuietUpstream DEF FileStep, streamVars
<1>8. CASE Raise
  <2>1. apc' \in {"failed", "recovering"} \/ apc' = apc
    BY <1>8 DEF Raise
  <2> QED
    BY <1>1, <1>2, <1>8, <2>1, QuietUpstream DEF Raise, streamVars
<1>9. CASE Kill
  BY <1>1, <1>2, <1>9, QuietUpstream DEF Kill, streamVars
<1> QED
  BY <1>1, <1>3, <1>4, <1>5, <1>6, <1>7, <1>8, <1>9 DEF AdapterNext

LEMMA WindowingKeeps == ASSUME PipelineInv, Windowing PROVE PipelineInv'
<1>1. UNCHANGED scorerVars /\ WindowNext /\ written \in Nat
  BY DEF Windowing, PipelineInv, StreamTyped
<1>2. CASE BridgeWindow
  BY <1>1, <1>2, BridgeKeeps
<1>3. CASE ReadPacket
  BY <1>1, <1>3, QuietUpstream DEF ReadPacket, adapterVars, streamVars
<1>4. CASE EndOfCapture
  BY <1>1, <1>4, QuietUpstream DEF EndOfCapture, adapterVars, streamVars
<1>5. CASE WriteRow
  BY <1>1, <1>5, QuietUpstream DEF WriteRow, adapterVars, streamVars
<1>6. CASE Exit
  BY <1>1, <1>6, QuietUpstream DEF Exit, adapterVars, streamVars
<1>7. CASE ExtractorDies
  BY <1>1, <1>7, QuietUpstream DEF ExtractorDies, adapterVars, streamVars
<1> QED
  BY <1>1, <1>2, <1>3, <1>4, <1>5, <1>6, <1>7 DEF WindowNext

-----------------------------------------------------------------------------
(* The theorems.                                                           *)

LEMMA UpstreamFields == Seq(Fields) \subseteq Records
<1>1. Fields \subseteq SourceFields
  BY DEF Fields, Field, SourceFields, SourceKeys
<1> QED
  BY <1>1, SeqMonotonic DEF Records

LEMMA InitHolds == Init => PipelineInv
<1> SUFFICES ASSUME Init PROVE PipelineInv
  OBVIOUS
<1>1. /\ profile \in Profiles /\ mode \in {"file", "stdin", "bridge", "none"}
      /\ IF mode = "bridge" THEN raw = <<>> ELSE raw \in Inputs
      /\ taken = 0 /\ apc = CASE mode = "none" -> "done" [] mode = "bridge" -> "bridging"
                                [] OTHER -> "opening"
      /\ adapted = IF mode # "none" THEN <<>> ELSE [n \in DOMAIN raw |-> [line |-> n]]
  BY DEF Init, AdapterInit
<1>2. /\ feed \in {"file", "stdin"} /\ (mode = "bridge" => feed = "file")
      /\ handed = 0 /\ queued = 0 /\ consumed = 0
      /\ buffer = <<>> /\ alerts = <<>> /\ anomalies = <<>> /\ ppc = "running"
  BY DEF Init
<1>3. setup.profile \in Profiles /\ written \in Nat
  <2>1. CASE mode = "bridge"
    BY <2>1 DEF Init, WindowInit
  <2>2. CASE mode # "bridge"
    BY <1>1, <2>2 DEF Init, WindowInit, NoSetup
  <2> QED
    BY <2>1, <2>2
<1>4. IsSeq(<<>>) /\ Len(<<>>) = 0
  BY ShortSeqs
<1>5. IsSeq(raw) /\ \A n \in 1..Len(raw) : raw[n].record \in Records
  <2>1. CASE mode = "bridge"
    BY <1>1, <1>4, <2>1
  <2>2. CASE mode # "bridge"
    <3>1. raw \in Seq(LineType)
      BY <1>1, <2>2, InputsAssumption DEF InputsAssumption
    <3>2. \A n \in 1..Len(raw) : raw[n] \in LineType
      BY <3>1
    <3>3. \A n \in 1..Len(raw) : raw[n].record \in Seq(Fields)
      BY <3>2 DEF LineType
    <3> QED
      BY <3>1, <3>3, SeqIsSeq, UpstreamFields
  <2> QED
    BY <2>1, <2>2
<1>6. StreamTyped
  BY <1>1, <1>3, <1>5 DEF StreamTyped, IsSeq
<1>7. AdaptedSound
  <2>1. CASE mode # "none"
    BY <1>1, <1>4, <2>1 DEF AdaptedSound
  <2>2. CASE mode = "none"
    <3>1. DOMAIN raw = 1..Len(raw) /\ Len(raw) \in Nat
      BY <1>5, OfAnything DEF IsSeq
    <3>2. adapted = [n \in 1..Len(raw) |-> adapted[n]] /\ \A n \in 1..Len(raw) : adapted[n].line = n
      BY <1>1, <2>2, <3>1
    <3>3. IsSeq(adapted) /\ Len(adapted) = Len(raw)
      BY <3>1, <3>2, ListedIsSeq
    <3> QED
      BY <2>2, <3>1, <3>2, <3>3 DEF AdaptedSound
  <2> QED
    BY <2>1, <2>2
<1>8. PhaseInv
  BY <1>1, <1>2 DEF PhaseInv, Untouched
<1>9. QueueInv
  BY <1>2, <1>7 DEF QueueInv, AdaptedSound, IsSeq
<1>10. ScorerInv
  BY <1>2, <1>4 DEF ScorerInv, Carried
<1>11. BatchingIsInvisible
  <2>1. Lines(alerts) \o Lines(buffer) = <<>> /\ anomalies = <<>>
    <3>1. IsSeq(Lines(<<>>)) /\ Len(Lines(<<>>)) = 0
      BY <1>4, LinesSeq
    <3> QED
      BY <1>2, <1>4, <3>1, EmptyUnit
  <2>2. {adapted[k].line : k \in 1..consumed} = {}
    BY <1>2
  <2>3. Lists(<<>>, {})
    BY DEF Lists, Range
  <2>4. Complete(consumed)
    BY <2>1, <2>2, <2>3 DEF Complete
  <2> QED
    BY <1>2, <2>4 DEF BatchingIsInvisible
<1> QED
  BY <1>6, <1>7, <1>8, <1>9, <1>10, <1>11 DEF PipelineInv

LEMMA StepKeeps == PipelineInv /\ [Next]_vars => PipelineInv'
<1> SUFFICES ASSUME PipelineInv, [Next]_vars PROVE PipelineInv'
  OBVIOUS
<1>1. CASE UNCHANGED vars
  BY <1>1, QuietUpstream DEF vars, upstreamVars, adapterVars, streamVars, windowVars,
     PipelineInv, StreamTyped
<1>2. CASE Next
  BY <1>2, AdaptingKeeps, WindowingKeeps, HandKeeps, ReaderKeeps, TakeUnparsedKeeps,
     TakeRecordKeeps, TickKeeps, PollKeeps, FinalizeKeeps DEF Next
<1> QED
  BY <1>1, <1>2

\* Streams, queues and buffers keep their types; every field of an adapted record
\* came under the one key its profile takes for it; a pipe's reader and the scorer
\* agree about the lines between them; and what was scored, quarantined or is still
\* buffered accounts for the lines the scorer took.
THEOREM PipelineSound == FairSpec => []PipelineInv
  BY InitHolds, StepKeeps, PTL DEF FairSpec

\* Micro-batching and its timer cannot be seen in the output (ingest_record,
\* flush_buffer, flush_if_due and finalize of the pipeline): whatever the batch size,
\* the stream and the answers of the models, every valid line taken is scored or
\* buffered once and in order, every other one is quarantined, and a run that
\* raises loses the batch it raised on and the line in hand.
THEOREM BatchesLeaveNoTrace == FairSpec => []BatchingIsInvisible
<1>1. PipelineInv => BatchingIsInvisible
  BY DEF PipelineInv
<1> QED
  BY <1>1, PipelineSound, PTL

\* Only lines that have come through are in the output.
LEMMA AlertsComeThrough ==
    ASSUME PipelineInv, NEW k \in 1..Len(alerts)
    PROVE  \E j \in 1..Len(adapted) : adapted[j].line = alerts[k].line
<1> DEFINE la == Lines(alerts)
           lb == Lines(buffer)
           out == la \o lb
<1>1. IsSeq(la) /\ IsSeq(lb) /\ Len(la) = Len(alerts) /\ la[k] = alerts[k].line
  BY LinesSeq DEF PipelineInv, ScorerInv
<1> HIDE DEF la, lb
<1>2. IsSeq(out) /\ Len(out) = Len(la) + Len(lb) /\ out[k] = la[k]
  BY <1>1, ConcatSeq
<1> HIDE DEF out
<1>3. k \in DOMAIN out
  BY <1>1, <1>2, OfAnything DEF IsSeq
<1>4. out[k] \in Scorable(consumed) \cup Scorable(consumed - 1)
  <2>1. Lists(out, Scorable(consumed)) \/ Lists(out, Scorable(consumed - 1))
    BY OutputsNow DEF PipelineInv, Accounts, out, la, lb
  <2> QED
    BY <1>3, <2>1 DEF Lists, Range
<1>5. PICK j \in 1..consumed : adapted[j].line = out[k]
  <2>1. consumed \in Nat
    BY DEF PipelineInv, QueueInv, AdaptedSound, IsSeq
  <2> QED
    BY <1>4, <2>1 DEF Scorable
<1>6. j \in 1..Len(adapted)
  BY DEF PipelineInv, QueueInv, AdaptedSound, IsSeq
<1> QED
  BY <1>1, <1>2, <1>5, <1>6

\* What is scored in a column is the value upstream gave under the one key that the
\* profile (or, without the adapter, the contract) takes for it: the renaming of
\* partition_source_record and the alias resolution of validate_record never let
\* another field stand in, under any profile that passes the registry's checks and
\* is closed.
THEOREM EveryFeatureHasOneSource == FairSpec => []FeaturesHaveOneSource
<1>1. PipelineInv => FeaturesHaveOneSource
  <2> SUFFICES ASSUME PipelineInv, NEW k \in DOMAIN alerts, NEW c \in Columns
               PROVE  LET record == raw[alerts[k].line].record
                          Names == IF mode = "none"
                                   THEN {key \in {c} \cup DOMAIN Aliases : Name(Aliases, key) = c}
                                   ELSE {key \in DOMAIN profile.features : profile.features[key] = c}
                          Under(keys) ==
                              {i \in DOMAIN record :
                                 (IF mode = "none" THEN record[i].key ELSE Strip[record[i].key])
                                   \in keys}
                      IN  \E i \in DOMAIN record :
                            Under(Names) = {i} /\ alerts[k].from[c] = record[i].origin
    BY DEF FeaturesHaveOneSource
  <2> DEFINE n == alerts[k].line
             record == raw[n].record
  <2>1. /\ n \in 1..Len(raw) /\ Validate(InputOf(n)).verdict = "valid"
        /\ alerts[k].from = Validate(InputOf(n)).aligned
    <3>1. k \in 1..Len(alerts)
      BY OfAnything DEF PipelineInv, ScorerInv
    <3> QED
      BY <3>1 DEF PipelineInv, ScorerInv, Carried
  <2>2. CASE mode = "none"
    <3>1. InputOf(n) = record
      BY <2>2 DEF InputOf
    <3>2. PICK i \in DOMAIN record :
             Named(record, c) = {i} /\ Validate(record).aligned[c] = record[i].origin
      <4> HIDE DEF record
      <4> QED
        BY <2>1, <3>1, DirectOneSource
    <3>3. Named(record, c) =
            {j \in DOMAIN record :
               record[j].key \in {key \in {c} \cup DOMAIN Aliases : Name(Aliases, key) = c}}
      BY DEF Named, Name
    <3> QED
      BY <2>1, <2>2, <3>1, <3>2, <3>3
  <2>3. CASE mode # "none"
    <3>1. InputOf(n) = AdapterInput(profile, record)
      BY <2>3 DEF InputOf
    <3>2. k \in 1..Len(alerts) /\ profile \in Profiles
      BY OfAnything DEF PipelineInv, ScorerInv, StreamTyped
    <3>3. PICK j \in 1..Len(adapted) : adapted[j].line = n
      BY <3>2, AlertsComeThrough
    <3>4. Adapt(profile, record).verdict = "valid" /\ record \in Records
      BY <2>1, <2>3, <3>3 DEF PipelineInv, AdaptedSound, StreamTyped
    <3>5. IsProfile(profile) /\ IsClosed(profile)
      BY <3>2, ProfilesAssumption DEF ProfilesAssumption
    <3>6. PICK i \in DOMAIN record :
             /\ Sources(profile, record, c) = {i}
             /\ Validate(AdapterInput(profile, record)).aligned[c] = record[i].origin
      <4> HIDE DEF record
      <4> QED
        BY <3>4, <3>5, AdaptedOneSource
    <3>7. Sources(profile, record, c) =
            {m \in DOMAIN record :
               Strip[record[m].key] \in {key \in DOMAIN profile.features : profile.features[key] = c}}
      BY DEF Sources
    <3> QED
      BY <2>1, <2>3, <3>1, <3>6, <3>7
  <2> QED
    BY <2>2, <2>3
<1> QED
  BY <1>1, PipelineSound, PTL

-----------------------------------------------------------------------------
(* The window behind the bridge.                                           *)

Frames == [src : Nat, dst : Nat, proto : Nat, time : Int]
FlowRecords == [src : Nat, dst : Nat, proto : Nat, packets : Seq(Nat)]

\* Who talks in a packet or a flow.
Between(x) == <<{x.src, x.dst}, x.proto>>

\* A flow of the first `count` packets: some of them, in order, between the same
\* two, and the first one gives the direction.
FlowSound(f, count) ==
    /\ f \in FlowRecords /\ Len(f.packets) >= 1
    /\ \A i \in 1..Len(f.packets) :
         /\ f.packets[i] \in 1..count /\ Packet(f.packets[i]).proto # 0
         /\ Between(Packet(f.packets[i])) = Between(f)
    /\ \A i, j \in 1..Len(f.packets) : i < j => f.packets[i] < f.packets[j]
    /\ Packet(f.packets[1]).src = f.src /\ Packet(f.packets[1]).dst = f.dst

\* One flow for every two that talk, and every decoded packet is in one.
FlowsSound(fs, count) ==
    /\ IsSeq(fs) /\ \A k \in 1..Len(fs) : FlowSound(fs[k], count)
    /\ \A j, k \in 1..Len(fs) : Between(fs[j]) = Between(fs[k]) => j = k
    /\ \A n \in 1..count : Packet(n).proto # 0 =>
         \E k \in 1..Len(fs) : \E i \in 1..Len(fs[k].packets) : fs[k].packets[i] = n

WindowInv ==
    /\ setup.packets \in Seq(Frames) /\ read \in 0..Len(setup.packets)
    /\ FlowsSound(flows, read) /\ written \in 0..Len(flows)
    /\ epc \in {"writing", "exited"} => read = Len(setup.packets) /\ ~setup.torn
    /\ epc = "exited" => written = Len(flows)
    /\ AllOrNothing

\* The flow that a packet belongs to, if there is one.
LEMMA PlaceFinds ==
    ASSUME NEW fs, IsSeq(fs), NEW p, NEW k, k = Place(fs, p)
    PROVE  \/ k = 0 /\ \A j \in 1..Len(fs) : Between(fs[j]) # Between(p)
           \/ k \in 1..Len(fs) /\ Between(fs[k]) = Between(p)
<1> DEFINE With(src, dst) == {j \in DOMAIN fs : fs[j].src = src /\ fs[j].dst = dst
                                                /\ fs[j].proto = p.proto}
           forward == With(p.src, p.dst)
           back == With(p.dst, p.src)
           found == IF forward # {} THEN forward ELSE back
<1>1. k = IF found = {} THEN 0 ELSE CHOOSE j \in found : TRUE
  BY DEF Place
<1>2. DOMAIN fs = 1..Len(fs)
  BY OfAnything
<1>3. \A j \in forward \cup back : j \in 1..Len(fs) /\ Between(fs[j]) = Between(p)
  <2> SUFFICES ASSUME NEW j \in forward \cup back
               PROVE  j \in 1..Len(fs) /\ Between(fs[j]) = Between(p)
    OBVIOUS
  <2>1. j \in 1..Len(fs) /\ fs[j].proto = p.proto
        /\ {fs[j].src, fs[j].dst} = {p.src, p.dst}
    BY <1>2
  <2> QED
    BY <2>1 DEF Between
<1>4. \A j \in 1..Len(fs) : Between(fs[j]) = Between(p) => j \in forward \cup back
  <2> SUFFICES ASSUME NEW j \in 1..Len(fs), Between(fs[j]) = Between(p)
               PROVE  j \in forward \cup back
    OBVIOUS
  <2>1. {fs[j].src, fs[j].dst} = {p.src, p.dst} /\ fs[j].proto = p.proto
    BY DEF Between
  <2>2. \/ fs[j].src = p.src /\ fs[j].dst = p.dst
        \/ fs[j].src = p.dst /\ fs[j].dst = p.src
    BY <2>1
  <2> QED
    BY <1>2, <2>1, <2>2
<1> HIDE DEF forward, back
<1>5. found = {} => forward \cup back = {}
  OBVIOUS
<1>6. found # {} => (CHOOSE j \in found : TRUE) \in forward \cup back
  OBVIOUS
<1> HIDE DEF found
<1> QED
  BY <1>1, <1>3, <1>4, <1>5, <1>6

\* What is sound of the first `count` packets stays so when there are more.
LEMMA FlowGoesOn ==
    ASSUME NEW f, NEW count \in Nat, FlowSound(f, count) PROVE FlowSound(f, count + 1)
<1>1. \A n \in 1..count : n \in 1..count + 1
  OBVIOUS
<1> QED
  BY <1>1 DEF FlowSound

\* A packet that joins its flow.
LEMMA FlowJoined ==
    ASSUME NEW f, NEW count \in Nat, FlowSound(f, count),
           Packet(count + 1).proto # 0, Between(Packet(count + 1)) = Between(f),
           NEW g, g = [f EXCEPT !.packets = Append(@, count + 1)]
    PROVE  /\ FlowSound(g, count + 1) /\ Between(g) = Between(f)
           /\ Len(g.packets) = Len(f.packets) + 1 /\ g.packets[Len(f.packets) + 1] = count + 1
           /\ \A i \in 1..Len(f.packets) : g.packets[i] = f.packets[i]
<1> DEFINE n == count + 1
           ps == Append(f.packets, n)
<1>1. f.packets \in Seq(Nat) /\ Len(f.packets) \in Nat /\ n \in Nat /\ Len(f.packets) >= 1
  BY LenProperties DEF FlowSound, FlowRecords
<1>8. /\ \A i \in 1..Len(f.packets) :
           /\ f.packets[i] \in 1..count /\ f.packets[i] \in 1..n
           /\ Packet(f.packets[i]).proto # 0 /\ Between(Packet(f.packets[i])) = Between(f)
      /\ \A i, j \in 1..Len(f.packets) : i < j => f.packets[i] < f.packets[j]
      /\ Packet(f.packets[1]).src = f.src /\ Packet(f.packets[1]).dst = f.dst
  BY FlowGoesOn DEF FlowSound
<1>2. /\ ps \in Seq(Nat) /\ Len(ps) = Len(f.packets) + 1
      /\ \A i \in 1..Len(f.packets) : ps[i] = f.packets[i]
      /\ ps[Len(f.packets) + 1] = n
  BY <1>1, AppendProperties
<1> HIDE DEF ps
<1>3. /\ g.packets = ps /\ g.src = f.src /\ g.dst = f.dst /\ g.proto = f.proto
      /\ g \in FlowRecords
  BY <1>2 DEF FlowSound, FlowRecords, ps
<1>4. Between(g) = Between(f)
  BY <1>3 DEF Between
<1>5. ASSUME NEW i \in 1..Len(ps)
      PROVE  /\ ps[i] \in 1..count + 1 /\ Packet(ps[i]).proto # 0
             /\ Between(Packet(ps[i])) = Between(f)
  <2>1. CASE i \in 1..Len(f.packets)
    BY <1>2, <1>8, <2>1
  <2>2. CASE i = Len(f.packets) + 1
    BY <1>2, <2>2
  <2> QED
    BY <1>1, <1>2, <2>1, <2>2
<1>6. ASSUME NEW i \in 1..Len(ps), NEW j \in 1..Len(ps), i < j PROVE ps[i] < ps[j]
  <2>1. i \in 1..Len(f.packets)
    BY <1>1, <1>2, <1>6
  <2>2. CASE j \in 1..Len(f.packets)
    BY <1>2, <1>6, <1>8, <2>1, <2>2
  <2>3. CASE j = Len(f.packets) + 1
    <3>1. f.packets[i] \in 1..count
      BY <1>8, <2>1
    <3> QED
      BY <1>2, <2>1, <2>3, <3>1
  <2> QED
    BY <1>1, <1>2, <2>2, <2>3
<1>7. Packet(ps[1]).src = f.src /\ Packet(ps[1]).dst = f.dst
  <2>1. 1 \in 1..Len(f.packets)
    BY <1>1
  <2>2. ps[1] = f.packets[1]
    BY <1>2, <2>1
  <2> QED
    BY <1>8, <2>2
<1>9. Len(ps) >= 1
  BY <1>1, <1>2
<1>10. FlowSound(g, count + 1)
  BY <1>3, <1>4, <1>5, <1>6, <1>7, <1>9 DEF FlowSound
<1> QED
  BY <1>2, <1>3, <1>4, <1>10

\* A packet that starts one.
LEMMA FlowStarted ==
    ASSUME NEW count \in Nat, NEW p, p = Packet(count + 1), p \in Frames, p.proto # 0,
           NEW g, g = [src |-> p.src, dst |-> p.dst, proto |-> p.proto, packets |-> <<count + 1>>]
    PROVE  /\ FlowSound(g, count + 1) /\ Between(g) = Between(p)
           /\ Len(g.packets) = 1 /\ g.packets[1] = count + 1
<1>1. /\ g.src = p.src /\ g.dst = p.dst /\ g.proto = p.proto /\ g.packets = <<count + 1>>
      /\ g \in FlowRecords
  BY DEF Frames, FlowRecords
<1>2. Len(<<count + 1>>) = 1 /\ <<count + 1>>[1] = count + 1
  OBVIOUS
<1>3. Between(g) = Between(p)
  BY <1>1 DEF Between
<1> QED
  BY <1>1, <1>2, <1>3 DEF FlowSound

LEMMA Growing ==
    ASSUME NEW fs, NEW count \in Nat, FlowsSound(fs, count), Packet(count + 1) \in Frames,
           Packet(count + 1).proto # 0, NEW gs, gs = Grown(fs, count + 1)
    PROVE  FlowsSound(gs, count + 1) /\ Len(fs) <= Len(gs)
<1> DEFINE n == count + 1
           p == Packet(n)
           k == Place(fs, p)
           started == [src |-> p.src, dst |-> p.dst, proto |-> p.proto, packets |-> <<n>>]
<1>1. gs = IF k = 0 THEN Append(fs, started) ELSE [fs EXCEPT ![k].packets = Append(@, n)]
  BY DEF Grown
<1>2. \/ k = 0 /\ \A j \in 1..Len(fs) : Between(fs[j]) # Between(p)
      \/ k \in 1..Len(fs) /\ Between(fs[k]) = Between(p)
  BY PlaceFinds DEF FlowsSound
<1>3. /\ IsSeq(fs) /\ Len(fs) \in Nat /\ DOMAIN fs = 1..Len(fs)
      /\ \A j \in 1..Len(fs) : FlowSound(fs[j], count) /\ FlowSound(fs[j], n)
  BY FlowGoesOn, OfAnything DEF FlowsSound, IsSeq
<1>4. \A m \in 1..n : m \in 1..count \/ m = n
  OBVIOUS
<1> HIDE DEF k
<1>5. CASE k = 0
  <2>1. /\ IsSeq(gs) /\ Len(gs) = Len(fs) + 1 /\ gs[Len(fs) + 1] = started
        /\ \A j \in 1..Len(fs) : gs[j] = fs[j]
    <3>1. gs = Append(fs, started)
      BY <1>1, <1>5
    <3> HIDE DEF started
    <3>2. /\ IsSeq(Append(fs, started)) /\ Len(Append(fs, started)) = Len(fs) + 1
          /\ \A j \in 1..Len(fs) : Append(fs, started)[j] = fs[j]
          /\ Append(fs, started)[Len(fs) + 1] = started
      BY <1>3, AppendSeq
    <3> QED
      BY <1>3, <3>1, <3>2
  <2>2. /\ FlowSound(started, n) /\ Between(started) = Between(p)
        /\ Len(started.packets) = 1 /\ started.packets[1] = n
    BY FlowStarted
  <2> HIDE DEF started, p
  <2>3. \A j \in 1..Len(gs) : FlowSound(gs[j], n)
    BY <1>3, <2>1, <2>2
  <2>4. \A j \in 1..Len(fs) : Between(gs[j]) # Between(gs[Len(fs) + 1])
    BY <1>2, <1>3, <1>5, <2>1, <2>2
  <2>5. ASSUME NEW i \in 1..Len(gs), NEW j \in 1..Len(gs), Between(gs[i]) = Between(gs[j])
        PROVE  i = j
    <3>1. CASE i \in 1..Len(fs) /\ j \in 1..Len(fs)
      BY <2>1, <2>5, <3>1 DEF FlowsSound
    <3> QED
      BY <1>3, <2>1, <2>4, <2>5, <3>1
  <2>6. ASSUME NEW m \in 1..n, Packet(m).proto # 0
        PROVE  \E j \in 1..Len(gs) : \E i \in 1..Len(gs[j].packets) : gs[j].packets[i] = m
    <3>1. CASE m \in 1..count
      <4>1. PICK j \in 1..Len(fs) : \E i \in 1..Len(fs[j].packets) : fs[j].packets[i] = m
        BY <2>6, <3>1 DEF FlowsSound
      <4> QED
        BY SMTT(30), <1>3, <2>1, <4>1
    <3>2. CASE m = n
      <4>1. Len(fs) + 1 \in 1..Len(gs) /\ 1 \in 1..Len(gs[Len(fs) + 1].packets)
            /\ gs[Len(fs) + 1].packets[1] = m
        BY <1>3, <2>1, <2>2, <3>2
      <4> QED
        BY <4>1
    <3> QED
      BY <1>4, <3>1, <3>2
  <2>7. Len(fs) <= Len(gs)
    BY <1>3, <2>1
  <2> HIDE DEF n
  <2> QED
    BY <2>1, <2>3, <2>5, <2>6, <2>7 DEF FlowsSound, n
<1>6. CASE k \in 1..Len(fs) /\ Between(fs[k]) = Between(p)
  <2> DEFINE joined == [fs[k] EXCEPT !.packets = Append(@, n)]
  <2>1. gs = [fs EXCEPT ![k] = joined]
    <3>1. k # 0
      BY <1>3, <1>6
    <3>2. gs = [fs EXCEPT ![k].packets = Append(@, n)]
      BY <1>1, <3>1
    <3> QED
      BY <3>2
  <2>2. /\ FlowSound(joined, n) /\ Between(joined) = Between(fs[k])
        /\ Len(joined.packets) = Len(fs[k].packets) + 1
        /\ joined.packets[Len(fs[k].packets) + 1] = n
        /\ \A i \in 1..Len(fs[k].packets) : joined.packets[i] = fs[k].packets[i]
        /\ Len(fs[k].packets) \in Nat
    <3>1. FlowSound(fs[k], count)
      BY <1>3, <1>6
    <3>2. Len(fs[k].packets) \in Nat
      BY <3>1, LenProperties DEF FlowSound, FlowRecords
    <3> QED
      BY SMTT(30), <1>6, <3>1, <3>2, FlowJoined
  <2> HIDE DEF joined, p
  <2>3. /\ IsSeq(gs) /\ Len(gs) = Len(fs) /\ gs[k] = joined
        /\ \A j \in 1..Len(fs) : j # k => gs[j] = fs[j]
    <3>1. gs = [j \in 1..Len(fs) |-> gs[j]] /\ gs[k] = joined
          /\ \A j \in 1..Len(fs) : j # k => gs[j] = fs[j]
      BY <1>3, <1>6, <2>1
    <3> QED
      BY <1>3, <3>1, ListedIsSeq
  <2>4. \A j \in 1..Len(gs) : FlowSound(gs[j], n) /\ Between(gs[j]) = Between(fs[j])
    BY <1>3, <2>2, <2>3
  <2>5. \A i, j \in 1..Len(gs) : Between(gs[i]) = Between(gs[j]) => i = j
    BY <2>3, <2>4 DEF FlowsSound
  <2>6. ASSUME NEW m \in 1..n, Packet(m).proto # 0
        PROVE  \E j \in 1..Len(gs) : \E i \in 1..Len(gs[j].packets) : gs[j].packets[i] = m
    <3>1. CASE m \in 1..count
      <4>1. PICK j \in 1..Len(fs) : \E i \in 1..Len(fs[j].packets) : fs[j].packets[i] = m
        BY <2>6, <3>1 DEF FlowsSound
      <4>2. PICK i \in 1..Len(fs[j].packets) : fs[j].packets[i] = m
        BY <4>1
      <4>3. CASE j = k
        <5>1. i \in 1..Len(gs[k].packets) /\ gs[k].packets[i] = m
          BY SMTT(30), <2>2, <2>3, <4>2, <4>3
        <5> QED
          BY <1>6, <2>3, <5>1
      <4>4. CASE j # k
        BY <2>3, <4>2, <4>4
      <4> QED
        BY <4>3, <4>4
    <3>2. CASE m = n
      <4>1. Len(fs[k].packets) + 1 \in 1..Len(gs[k].packets)
            /\ gs[k].packets[Len(fs[k].packets) + 1] = m
        BY SMTT(30), <2>2, <2>3, <3>2
      <4> QED
        BY <1>6, <2>3, <4>1
    <3> QED
      BY <1>4, <3>1, <3>2
  <2> QED
    BY <1>3, <2>3, <2>4, <2>5, <2>6 DEF FlowsSound
<1> QED
  BY <1>2, <1>5, <1>6

\* Flows that are sound are the conversations of the capture.
LEMMA SoundFlows ==
    ASSUME FlowsSound(flows, read), read \in Nat PROVE FlowsAreConversations
<1> DEFINE In(f) == ToSet(f.packets)
           Kept == {n \in 1..read : Packet(n).proto # 0}
           Talk(n) == <<{Packet(n).src, Packet(n).dst}, Packet(n).proto>>
<1>1. /\ DOMAIN flows = 1..Len(flows)
      /\ \A k \in 1..Len(flows) :
           FlowSound(flows[k], read) /\ DOMAIN flows[k].packets = 1..Len(flows[k].packets)
                                    /\ Len(flows[k].packets) \in Nat
  BY OfAnything, LenProperties DEF FlowsSound, FlowSound, FlowRecords
<1>2. \A k \in 1..Len(flows) : \A n \in In(flows[k]) :
        n \in Kept /\ Talk(n) = Between(flows[k])
  <2> SUFFICES ASSUME NEW k \in 1..Len(flows), NEW n \in In(flows[k])
               PROVE  n \in Kept /\ Talk(n) = Between(flows[k])
    OBVIOUS
  <2>1. PICK i \in 1..Len(flows[k].packets) : flows[k].packets[i] = n
    BY <1>1 DEF ToSet
  <2>2. /\ n \in 1..read /\ Packet(n).proto # 0
        /\ Between(Packet(n)) = Between(flows[k])
    BY <1>1, <2>1 DEF FlowSound
  <2> QED
    BY <2>2 DEF Between
<1>3. \A n \in Kept : \E k \in 1..Len(flows) : n \in In(flows[k])
  <2> SUFFICES ASSUME NEW n \in Kept PROVE \E k \in 1..Len(flows) : n \in In(flows[k])
    OBVIOUS
  <2>1. PICK k \in 1..Len(flows) : \E i \in 1..Len(flows[k].packets) : flows[k].packets[i] = n
    BY DEF FlowsSound
  <2> QED
    BY <1>1, <2>1 DEF ToSet
<1>4. \A j, k \in 1..Len(flows) : Between(flows[j]) = Between(flows[k]) => j = k
  BY DEF FlowsSound
<1>5. ASSUME NEW k \in 1..Len(flows)
      PROVE  /\ Forward(flows[k], Head(flows[k].packets)) /\ IsInjective(flows[k].packets)
             /\ \A n \in In(flows[k]) :
                  Forward(flows[k], n) <=> Packet(n).src = Packet(Head(flows[k].packets)).src
                                           /\ Packet(n).dst = Packet(Head(flows[k].packets)).dst
  <2> DEFINE ps == flows[k].packets
  <2>1. /\ ps \in Seq(Nat) /\ Len(ps) >= 1 /\ DOMAIN ps = 1..Len(ps) /\ Len(ps) \in Nat
        /\ Packet(ps[1]).src = flows[k].src /\ Packet(ps[1]).dst = flows[k].dst
        /\ \A i, j \in 1..Len(ps) : i < j => ps[i] < ps[j]
    BY <1>1 DEF FlowSound, FlowRecords
  <2>2. Head(ps) = ps[1]
    BY <2>1
  <2>3. IsInjective(ps)
    <3>1. \A i \in 1..Len(ps) : ps[i] \in Nat
      BY <2>1, ElementOfSeq
    <3> HIDE DEF ps
    <3> QED
      BY <2>1, <3>1 DEF IsInjective
  <2> QED
    BY <2>1, <2>2, <2>3 DEF Forward
<1>6. UNION {In(flows[k]) : k \in DOMAIN flows} = Kept
  <2> HIDE DEF In, Kept, Talk
  <2> QED
    BY <1>1, <1>2, <1>3
<1>7. ASSUME NEW m \in Kept, NEW n \in Kept
      PROVE  (\E k \in DOMAIN flows : {m, n} \subseteq In(flows[k])) <=> Talk(m) = Talk(n)
  <2> HIDE DEF In, Kept, Talk
  <2>1. ASSUME NEW k \in DOMAIN flows, {m, n} \subseteq In(flows[k]) PROVE Talk(m) = Talk(n)
    BY <1>1, <1>2, <2>1
  <2>2. ASSUME Talk(m) = Talk(n) PROVE \E k \in DOMAIN flows : {m, n} \subseteq In(flows[k])
    <3>1. PICK k \in 1..Len(flows) : m \in In(flows[k])
      BY <1>3
    <3>2. PICK j \in 1..Len(flows) : n \in In(flows[j])
      BY <1>3
    <3>3. j = k
      BY <1>2, <1>4, <2>2, <3>1, <3>2
    <3> QED
      BY <1>1, <3>1, <3>2, <3>3
  <2> QED
    BY <2>1, <2>2
<1> QED
  BY <1>1, <1>5, <1>6, <1>7 DEF FlowsAreConversations

\* Once the whole capture is read, there are as many flows as conversations.
LEMMA FlowsCounted ==
    ASSUME FlowsSound(flows, read), read = Len(setup.packets), setup.packets \in Seq(Frames)
    PROVE  Len(flows) = Cardinality({<<{p.src, p.dst}, p.proto>> :
                                       p \in {q \in ToSet(setup.packets) : q.proto # 0}})
<1> DEFINE T == {<<{p.src, p.dst}, p.proto>> : p \in {q \in ToSet(setup.packets) : q.proto # 0}}
           f == [k \in 1..Len(flows) |-> Between(flows[k])]
<1>1. /\ IsSeq(flows) /\ Len(flows) \in Nat /\ read \in Nat
      /\ DOMAIN setup.packets = 1..read
      /\ \A n \in 1..read : Packet(n) \in ToSet(setup.packets)
      /\ \A q \in ToSet(setup.packets) : \E n \in 1..read : q = Packet(n)
  BY LenProperties DEF FlowsSound, IsSeq, ToSet, Packet
<1>2. ASSUME NEW k \in 1..Len(flows) PROVE Between(flows[k]) \in T
  <2>1. FlowSound(flows[k], read)
    BY DEF FlowsSound
  <2>2. /\ 1 \in 1..Len(flows[k].packets) /\ flows[k].packets[1] \in 1..read
        /\ Packet(flows[k].packets[1]).proto # 0
        /\ Between(Packet(flows[k].packets[1])) = Between(flows[k])
    <3>1. Len(flows[k].packets) \in Nat /\ Len(flows[k].packets) >= 1
      BY <2>1, LenProperties DEF FlowSound, FlowRecords
    <3>2. 1 \in 1..Len(flows[k].packets)
      BY <3>1
    <3> QED
      BY <2>1, <3>2 DEF FlowSound
  <2>3. Packet(flows[k].packets[1]) \in {q \in ToSet(setup.packets) : q.proto # 0}
    BY <1>1, <2>2
  <2> QED
    BY <2>2, <2>3 DEF Between
<1>3. ASSUME NEW t \in T PROVE \E k \in 1..Len(flows) : Between(flows[k]) = t
  <2>1. PICK q \in ToSet(setup.packets) : q.proto # 0 /\ t = Between(q)
    BY DEF Between
  <2>2. PICK n \in 1..read : q = Packet(n)
    BY <1>1
  <2>3. PICK k \in 1..Len(flows) : \E i \in 1..Len(flows[k].packets) : flows[k].packets[i] = n
    BY <2>1, <2>2 DEF FlowsSound
  <2>4. PICK i \in 1..Len(flows[k].packets) : flows[k].packets[i] = n
    BY <2>3
  <2>5. FlowSound(flows[k], read)
    BY DEF FlowsSound
  <2>6. Between(Packet(n)) = Between(flows[k])
    BY <2>4, <2>5 DEF FlowSound
  <2> QED
    BY <2>1, <2>2, <2>6
<1> HIDE DEF T
<1>4. f \in Bijection(1..Len(flows), T)
  <2>1. f \in [1..Len(flows) -> T]
    BY <1>2
  <2>2. \A j, k \in 1..Len(flows) : f[j] = f[k] => j = k
    BY DEF FlowsSound
  <2>3. \A t \in T : \E k \in 1..Len(flows) : f[k] = t
    BY <1>3
  <2> HIDE DEF f
  <2> QED
    BY <2>1, <2>2, <2>3 DEF Bijection, Injection, Surjection, IsInjective
<1>5. Cardinality(T) = Len(flows)
  <2>1. ExistsBijection(1..Len(flows), T)
    BY <1>4 DEF ExistsBijection
  <2> QED
    BY <1>1, <2>1, FS_CountingElements
<1> QED
  BY <1>5 DEF T

\* Under a profile that passed the checks no two keys become one, and no name that a
\* key is given is an alias or the adapter's own.
LEMMA RenamedApart ==
    ASSUME NEW p, IsProfile(p), IsClosed(p), NEW k \in Accepted(p), NEW l \in Accepted(p)
    PROVE  /\ Name(Aliases, Renamed(p, k)) = Renamed(p, k) /\ Renamed(p, k) # ProfileKey
           /\ Renamed(p, k) = Renamed(p, l) => k = l
<1>1. /\ DOMAIN Aliases \cap Columns = {}
      /\ DOMAIN Aliases \cap (MetadataKeys \cup {ProfileKey}) = {}
      /\ Columns \cap (MetadataKeys \cup {ProfileKey}) = {}
      /\ ProfileKey \notin MetadataKeys
  BY ContractAssumption, DisjointThree DEF ContractAssumption
<1>2. p.extras \cap (Columns \cup DOMAIN Aliases \cup {ProfileKey}) = {}
  BY DisjointPair DEF IsClosed
<1>3. /\ DOMAIN p.features \cap DOMAIN p.metadata = {}
      /\ DOMAIN p.features \cap p.extras = {} /\ DOMAIN p.metadata \cap p.extras = {}
      /\ p.extras \cap MetadataKeys = {}
      /\ OneToOne(p.features) /\ OneToOne(p.metadata)
  BY ZenonT(60), DisjointThree, DisjointPair DEF IsProfile, FillsContract
<1>4. \A x \in Accepted(p) :
        \/ x \in DOMAIN p.features /\ Renamed(p, x) = p.features[x] /\ p.features[x] \in Columns
        \/ /\ x \in DOMAIN p.metadata /\ Renamed(p, x) = p.metadata[x]
           /\ p.metadata[x] \in MetadataKeys
        \/ x \in p.extras /\ Renamed(p, x) = x
  <2> SUFFICES ASSUME NEW x \in Accepted(p)
               PROVE
        \/ x \in DOMAIN p.features /\ Renamed(p, x) = p.features[x] /\ p.features[x] \in Columns
        \/ /\ x \in DOMAIN p.metadata /\ Renamed(p, x) = p.metadata[x]
           /\ p.metadata[x] \in MetadataKeys
        \/ x \in p.extras /\ Renamed(p, x) = x
    OBVIOUS
  <2>1. CASE x \in DOMAIN p.features
    BY <2>1 DEF Renamed, IsProfile, FillsContract, Targets
  <2>2. CASE x \in DOMAIN p.metadata
    BY <1>3, <2>2 DEF Renamed, Name, IsProfile, FillsContract, Targets
  <2>3. CASE x \in p.extras
    BY <1>3, <2>3 DEF Renamed, Name
  <2> QED
    BY <2>1, <2>2, <2>3 DEF Accepted
<1>5. Renamed(p, k) \notin DOMAIN Aliases /\ Renamed(p, k) # ProfileKey
  BY <1>1, <1>2, <1>4
<1>6. Renamed(p, k) = Renamed(p, l) => k = l
  BY <1>1, <1>2, <1>3, <1>4 DEF OneToOne
<1> QED
  BY <1>5, <1>6 DEF Name

\* The rows that the extractor writes under a profile pass the adapter under the
\* same one.
LEMMA OwnRows ==
    ASSUME NEW p \in Profiles PROVE Adapt(p, Row(p).record).verdict = "valid"
<1> DEFINE record == Row(p).record
           n == Len(record)
           input == AdapterInput(p, record)
           keys == [i \in DOMAIN record |-> Strip[record[i].key]]
           mapped == {i \in DOMAIN record : keys[i] \in Accepted(p)}
           names == [i \in DOMAIN input |-> Name(Aliases, input[i].key)]
           source(d) == input[CHOOSE i \in DOMAIN input : names[i] = d]
           missing == \E c \in Columns : \A i \in DOMAIN input : names[i] # c
           textual == \E c \in Columns : ~source(c).numeric
           blank == \E i \in DOMAIN keys : keys[i] = ""
           clash == Clash([i \in mapped |-> input[i].key])
<1>1. IsProfile(p) /\ IsClosed(p)
  BY ProfilesAssumption DEF ProfilesAssumption
<1>2. /\ record \in Records
      /\ \A key \in Accepted(p) : \E k \in DOMAIN record : record[k].key = key
      /\ \A k \in DOMAIN record :
           /\ record[k].key \in Accepted(p)
           /\ record[k].numeric = (record[k].key \in DOMAIN p.features)
           /\ \A j \in DOMAIN record : record[j].key = record[k].key => j = k
  BY RowFields
<1>3. \A i \in DOMAIN record : Strip[record[i].key] = record[i].key /\ record[i].key # ""
  <2> HIDE DEF record
  <2> QED
    BY <1>1, <1>2 DEF IsProfile, FillsContract
<1>4. DOMAIN record = 1..n /\ n \in Nat
  <2> HIDE DEF record
  <2> QED
    BY <1>2, LenProperties DEF Records
<1>5. /\ DOMAIN input = 1..n + 1 /\ input[n + 1].key = ProfileKey
      /\ \A i \in 1..n : /\ input[i].key = Renamed(p, record[i].key)
                          /\ input[i].numeric = (record[i].key \in DOMAIN p.features)
  <2> HIDE DEF record
  <2>1. /\ DOMAIN input = 1..Len(record) + 1 /\ input[Len(record) + 1].key = ProfileKey
        /\ \A i \in 1..Len(record) : /\ input[i].key = Renamed(p, Strip[record[i].key])
                                     /\ input[i].numeric = record[i].numeric
    BY <1>2, AdapterInputFields
  <2> HIDE DEF input
  <2>2. \A i \in 1..n : input[i].numeric = (record[i].key \in DOMAIN p.features)
    BY <1>2, <1>4, <2>1, Zenon
  <2>3. \A i \in 1..n : input[i].key = Renamed(p, record[i].key)
    BY <1>3, <1>4, <2>1
  <2> QED
    BY <2>1, <2>2, <2>3
<1>6. Adapt(p, record) =
        IF blank THEN [verdict |-> "blank_source_keys"]
        ELSE IF Clash(keys) THEN [verdict |-> "normalized_key_collision"]
        ELSE IF clash THEN [verdict |-> "alias_collision"]
        ELSE IF mapped # DOMAIN record THEN [verdict |-> "unmapped_source_fields"]
        ELSE Validate(input)
  BY DEF Adapt
<1>7. Validate(input) =
        IF Clash(names) THEN [verdict |-> "alias_collision"]
        ELSE IF missing THEN [verdict |-> "missing_required_features"]
        ELSE IF textual THEN [verdict |-> "non_numeric_required_features"]
        ELSE [verdict |-> "valid", aligned |-> [c \in Columns |-> source(c).origin]]
  BY DEF Validate, Align
<1> HIDE DEF record, input
<1>8. ~blank /\ ~Clash(keys) /\ mapped = DOMAIN record
  <2>1. DOMAIN keys = DOMAIN record /\ \A i \in DOMAIN record : keys[i] = record[i].key
    BY <1>3
  <2> HIDE DEF keys
  <2>2. mapped = DOMAIN record
    BY <1>2, <2>1
  <2>3. ~blank
    BY <1>3, <2>1
  <2>4. ~Clash(keys)
    BY <1>2, <2>1 DEF Clash
  <2> QED
    BY <2>2, <2>3, <2>4
<1>9. ~clash
  <2> DEFINE given == [i \in mapped |-> input[i].key]
  <2>1. DOMAIN given = 1..n /\ \A i \in 1..n : given[i] = Renamed(p, record[i].key)
    BY <1>4, <1>5, <1>8
  <2> HIDE DEF given
  <2>2. \A i, j \in 1..n : given[i] = given[j] => record[i].key = record[j].key
    BY <1>1, <1>2, <1>4, <2>1, RenamedApart
  <2>3. ~Clash(given)
    BY <1>2, <1>4, <2>1, <2>2 DEF Clash
  <2> QED
    BY <2>3 DEF given
<1>10. names[n + 1] = ProfileKey /\ n + 1 \in DOMAIN input
       /\ \A i \in 1..n : names[i] = Renamed(p, record[i].key) /\ names[i] # ProfileKey
  <2>1. Name(Aliases, ProfileKey) = ProfileKey
    BY ContractAssumption, DisjointThree DEF ContractAssumption, Name
  <2>2. n + 1 \in DOMAIN input /\ \A i \in 1..n : i \in DOMAIN input
    BY <1>4, <1>5
  <2> QED
    BY <1>1, <1>2, <1>4, <1>5, <2>1, <2>2, RenamedApart
<1>11. ~Clash(names)
  <2> SUFFICES ASSUME NEW i \in 1..n + 1, NEW j \in 1..n + 1, i # j, names[i] = names[j]
               PROVE  FALSE
    BY <1>5 DEF Clash
  <2> HIDE DEF names
  <2>1. CASE i \in 1..n /\ j \in 1..n
    BY <1>1, <1>2, <1>4, <1>10, <2>1, RenamedApart
  <2> QED
    BY <1>4, <1>10, <2>1
<1>12. ASSUME NEW c \in Columns PROVE \E i \in DOMAIN input : names[i] = c
  <2>1. PICK key \in DOMAIN p.features : p.features[key] = c
    BY <1>1 DEF IsProfile, FillsContract, Targets
  <2>2. key \in Accepted(p) /\ Renamed(p, key) = c
    BY <2>1 DEF Accepted, Renamed
  <2>3. PICK k \in DOMAIN record : record[k].key = key
    BY <1>2, <2>2
  <2>4. k \in 1..n /\ k \in DOMAIN input
    BY <1>4, <1>5, <2>3
  <2> QED
    BY <1>10, <2>2, <2>3, <2>4
<1>13. ASSUME NEW c \in Columns PROVE source(c).numeric
  <2> DEFINE i == CHOOSE j \in DOMAIN input : names[j] = c
  <2>1. i \in DOMAIN input /\ names[i] = c
    BY <1>12
  <2> HIDE DEF i
  <2>2. c # ProfileKey
    BY ContractAssumption, DisjointThree DEF ContractAssumption
  <2> HIDE DEF names
  <2>3. i \in 1..n
    BY <1>4, <1>5, <1>10, <2>1, <2>2
  <2>4. record[i].key \in Accepted(p) /\ Renamed(p, record[i].key) = c
    BY <1>2, <1>4, <1>10, <2>1, <2>3
  <2>5. record[i].key \in DOMAIN p.features
    <3>1. Name(Aliases, Renamed(p, record[i].key)) = c
      BY <1>1, <2>4, RenamedApart
    <3> QED
      BY <1>1, <2>4, <3>1, RenamedOnce
  <2>6. input[i].numeric
    BY <1>5, <2>3, <2>5
  <2> QED
    BY <2>6 DEF i, names
<1>14. ~missing /\ ~textual
  <2> HIDE DEF source, names
  <2> QED
    BY <1>12, <1>13
<1>15. Validate(input).verdict = "valid"
  <2> HIDE DEF missing, textual, source, names
  <2> QED
    BY <1>7, <1>11, <1>14
<1>16. Adapt(p, record) = Validate(input)
  <2> HIDE DEF blank, clash, keys, mapped
  <2> QED
    BY <1>6, <1>8, <1>9
<1> QED
  BY <1>15, <1>16 DEF record

LEMMA WindowStarts == Init => WindowInv
<1> SUFFICES ASSUME Init PROVE WindowInv
  OBVIOUS
<1>1. setup.packets \in Seq(Frames) /\ read = 0 /\ flows = <<>> /\ written = 0
      /\ epc \in {"reading", "idle"} /\ (mode = "bridge" => apc = "bridging")
  <2>1. CASE mode = "bridge"
    <3>1. setup.packets \in Captures
      BY <2>1 DEF Init, WindowInit
    <3> QED
      BY <2>1, <3>1, CapturesAssumption DEF CapturesAssumption, Frames, Init, WindowInit, AdapterInit
  <2>2. CASE mode # "bridge"
    <3>1. setup.packets = <<>>
      BY <2>2 DEF Init, WindowInit, NoSetup
    <3> QED
      BY <2>2, <3>1 DEF Init, WindowInit
  <2> QED
    BY <2>1, <2>2
<1>2. FlowsSound(flows, read) /\ Len(flows) = 0
  BY <1>1, ShortSeqs DEF FlowsSound
<1>3. AllOrNothing
  BY <1>1 DEF AllOrNothing
<1>4. Len(setup.packets) \in Nat
  BY <1>1, LenProperties
<1> QED
  BY <1>1, <1>2, <1>3, <1>4 DEF WindowInv

\* Steps beside the window.
LEMMA WindowStays ==
    ASSUME WindowInv, UNCHANGED <<windowVars, mode>>,
           mode # "bridge" \/ UNCHANGED <<profile, apc, adapted, refused>>
    PROVE  WindowInv'
<1>1. UNCHANGED <<setup, read, flows, written, epc, werror>>
  BY DEF windowVars
<1>2. FlowsSound(flows, read)'
  BY <1>1 DEF WindowInv, FlowsSound, FlowSound, Packet
<1>3. AllOrNothing'
  BY <1>1 DEF WindowInv, AllOrNothing
<1> QED
  BY <1>1, <1>2, <1>3 DEF WindowInv

\* What a finished window holds does not change with the extractor's state, which is
\* over by then unless the window was an error.
LEMMA OverAndDone ==
    ASSUME AllOrNothing, UNCHANGED <<mode, profile, apc, adapted, refused, setup, werror>>,
           epc # "exited"
    PROVE  AllOrNothing'
  BY DEF AllOrNothing

LEMMA ReadPacketKeeps == ASSUME WindowInv, ReadPacket PROVE WindowInv'
<1>1. /\ epc = "reading" /\ read < Len(setup.packets) /\ read' = read + 1
      /\ flows' = IF Packet(read + 1).proto = 0 THEN flows ELSE Grown(flows, read + 1)
      /\ UNCHANGED <<mode, profile, apc, adapted, refused, setup, written, epc, werror>>
  BY DEF ReadPacket, adapterVars, streamVars
<1>2. /\ setup.packets \in Seq(Frames) /\ read \in Nat /\ Len(setup.packets) \in Nat
      /\ FlowsSound(flows, read) /\ written \in 0..Len(flows) /\ Len(flows) \in Nat
  BY LenProperties DEF WindowInv, FlowsSound, IsSeq
<1>3. Packet(read + 1) \in Frames
  <2>1. read + 1 \in 1..Len(setup.packets)
    BY <1>1, <1>2
  <2> QED
    BY <1>2, <2>1, ElementOfSeq DEF Packet
<1>4. FlowsSound(flows', read + 1) /\ Len(flows) <= Len(flows')
  <2>1. CASE Packet(read + 1).proto = 0
    <3>1. \A n \in 1..read + 1 : n \in 1..read \/ n = read + 1
      BY <1>2
    <3>2. \A k \in 1..Len(flows) : FlowSound(flows[k], read + 1)
      BY <1>2, FlowGoesOn DEF FlowsSound
    <3>3. \A n \in 1..read + 1 : Packet(n).proto # 0 => n \in 1..read
      BY <2>1, <3>1
    <3>4. FlowsSound(flows, read + 1)
      BY <1>2, <3>2, <3>3 DEF FlowsSound
    <3> QED
      BY <1>1, <1>2, <2>1, <3>4
  <2>2. CASE Packet(read + 1).proto # 0
    <3>1. flows' = Grown(flows, read + 1)
      BY <1>1, <2>2
    <3> QED
      BY <1>2, <1>3, <2>2, <3>1, Growing
  <2> QED
    BY <2>1, <2>2
<1>5. FlowsSound(flows, read)'
  <2>1. read' = read + 1 /\ setup' = setup
    BY <1>1
  <2>2. FlowsSound(flows', read + 1)
    BY <1>4
  <2> QED
    BY <2>1, <2>2 DEF FlowsSound, FlowSound, Packet
<1>6. AllOrNothing'
  BY <1>1, OverAndDone DEF WindowInv
<1>7. written' \in 0..Len(flows')
  BY <1>1, <1>2, <1>4 DEF FlowsSound, IsSeq
<1> QED
  BY <1>1, <1>2, <1>5, <1>6, <1>7 DEF WindowInv

LEMMA ExtractorKeeps ==
    ASSUME WindowInv, EndOfCapture \/ WriteRow \/ Exit \/ ExtractorDies PROVE WindowInv'
<1>1. /\ UNCHANGED <<mode, profile, apc, adapted, refused, setup, read, flows, werror>>
      /\ epc \in {"reading", "writing"}
  BY DEF EndOfCapture, WriteRow, Exit, ExtractorDies, adapterVars, streamVars
<1>2. AllOrNothing'
  BY <1>1, OverAndDone DEF WindowInv
<1>3. FlowsSound(flows, read)' /\ Len(flows) \in Nat
  BY <1>1 DEF WindowInv, FlowsSound, FlowSound, Packet, IsSeq
<1>4. /\ written' \in 0..Len(flows)
      /\ epc' \in {"writing", "exited"} => read = Len(setup.packets) /\ ~setup.torn
      /\ epc' = "exited" => written' = Len(flows)
  BY <1>3 DEF WindowInv, EndOfCapture, WriteRow, Exit, ExtractorDies
<1> QED
  BY <1>1, <1>2, <1>3, <1>4 DEF WindowInv

LEMMA BridgeAllOrNothing == ASSUME PipelineInv, WindowInv, BridgeWindow PROVE WindowInv'
<1> DEFINE row == Row(setup.profile)
           good == Adapt(profile, row.record).verdict = "valid"
           usable == epc = "exited" /\ setup.suffix
           count == IF usable /\ setup.known THEN written ELSE 0
           T == {<<{p.src, p.dst}, p.proto>> : p \in {q \in ToSet(setup.packets) : q.proto # 0}}
           output == [n \in 1..count |->
                        [line |-> n, record |-> AdapterInput(profile, row.record)]]
           ns == [n \in 1..count |-> n]
<1>1. /\ UNCHANGED <<profile, mode, setup, read, flows, written, epc>>
      /\ adapted' = IF good THEN output ELSE <<>>
      /\ refused' = IF good THEN <<>> ELSE ns
      /\ werror' = (~usable \/ (~setup.known /\ written > 0))
  BY DEF BridgeWindow, Bridging, AdaptRows
<1>2. setup.profile \in Profiles /\ written \in Nat
  BY DEF PipelineInv, StreamTyped
<1>3. setup.profile = profile => good
  BY <1>2, OwnRows
<1>4. /\ FlowsSound(flows, read) /\ setup.packets \in Seq(Frames) /\ written \in 0..Len(flows)
      /\ epc = "exited" => read = Len(setup.packets) /\ ~setup.torn /\ written = Len(flows)
  BY DEF WindowInv
<1>5. epc = "exited" => written = Cardinality(T)
  <2> HIDE DEF T
  <2> QED
    BY <1>4, FlowsCounted DEF T
<1> HIDE DEF T, good, row
<1>6. count \in Nat /\ IsSeq(output) /\ Len(output) = count /\ IsSeq(ns) /\ Len(ns) = count
  <2>1. count \in Nat
    BY <1>2
  <2> HIDE DEF count
  <2>2. output = [n \in 1..count |-> output[n]] /\ ns = [n \in 1..count |-> ns[n]]
    OBVIOUS
  <2> HIDE DEF output, ns
  <2> QED
    BY <2>1, <2>2, ListedIsSeq
<1> HIDE DEF output, ns
<1>7. {Len(adapted'), Len(refused')} = {0, count} /\ (good => refused' = <<>>)
      /\ (count = 0 => adapted' = <<>> /\ refused' = <<>>)
  <2>1. IsSeq(<<>>) /\ Len(<<>>) = 0
    BY ShortSeqs
  <2> HIDE DEF count
  <2>2. CASE good
    BY <1>1, <1>6, <2>1, <2>2, EmptyUnit
  <2>3. CASE ~good
    BY <1>1, <1>6, <2>1, <2>3, EmptyUnit
  <2> QED
    BY <2>2, <2>3
<1>8. \/ werror' /\ count = 0
      \/ ~werror' /\ epc = "exited" /\ count = Cardinality(T)
  <2>1. CASE ~usable
    BY <1>1, <2>1
  <2>2. CASE usable /\ setup.known
    BY <1>1, <1>5, <2>2
  <2>3. CASE usable /\ ~setup.known /\ written > 0
    BY <1>1, <2>3
  <2>4. CASE usable /\ ~setup.known /\ ~(written > 0)
    <3>1. written = 0
      BY <1>2, <2>4
    <3> QED
      BY <1>1, <1>5, <2>4, <3>1
  <2> QED
    BY <2>1, <2>2, <2>3, <2>4
<1> HIDE DEF count
<1>9. AllOrNothing'
  <2>1. CASE werror' /\ count = 0
    BY <1>7, <2>1 DEF AllOrNothing
  <2>2. CASE ~werror' /\ epc = "exited" /\ count = Cardinality(T)
    <3>1. /\ ~werror' /\ epc' = "exited" /\ ~setup'.torn
          /\ {Len(adapted'), Len(refused')} = {0, Cardinality(T)}
          /\ setup'.profile = profile' => refused' = <<>>
      BY <1>1, <1>3, <1>4, <1>7, <2>2
    <3> QED
      BY <1>1, <3>1 DEF AllOrNothing, T
  <2> QED
    BY <1>8, <2>1, <2>2
<1>10. FlowsSound(flows, read)'
  BY SMTT(30), <1>1, <1>4 DEF FlowsSound, FlowSound, Packet
<1> QED
  BY <1>1, <1>9, <1>10 DEF WindowInv

LEMMA WindowKeeps == PipelineInv /\ WindowInv /\ [Next]_vars => WindowInv'
<1> SUFFICES ASSUME PipelineInv, WindowInv, [Next]_vars PROVE WindowInv'
  OBVIOUS
<1>1. CASE Adapting
  <2>1. mode # "bridge" /\ UNCHANGED <<windowVars, mode>>
    <3>1. mode = "bridge" => apc \in {"bridging", "done"}
      BY DEF PipelineInv, PhaseInv
    <3> QED
      BY <1>1, <3>1 DEF Adapting, AdapterNext, Open, OpenFails, ReadLine, EndOfInput, FileStep,
         Raise, Kill
  <2> QED
    BY <2>1, WindowStays
<1>2. CASE Windowing
  BY <1>2, ReadPacketKeeps, ExtractorKeeps, BridgeAllOrNothing DEF Windowing, WindowNext
<1>3. CASE UNCHANGED upstreamVars
  BY <1>3, WindowStays DEF upstreamVars, adapterVars, streamVars
<1> QED
  BY <1>1, <1>2, <1>3 DEF Next, vars, Hand, Reader, ReaderEnds, TakeUnparsed, TakeRecord, Taking,
     Tick, Poll, Quiet, Finalize, Ending

-----------------------------------------------------------------------------
(***************************************************************************)
(* The time of a flow.  Induction comes first: the library's theorems take a *)
(* predicate, these are stated of a set, of the numbers or of the subsets    *)
(* that have it, and so can be cited.                                       *)
(***************************************************************************)
LEMMA LeastNat ==
  ASSUME NEW T, T \subseteq Nat, T # {}
  PROVE  \E n \in T : \A m \in T : n <= m
<1> DEFINE R == {ss \in Nat \X Nat : ss[1] < ss[2]}
<1>1. IsWellFoundedOn(R, Nat)
  BY NatLessThanWellFounded DEF OpToRel
<1> HIDE DEF R
<1>2. \E n \in T : \A m \in T : ~(<<m, n>> \in R)
  BY <1>1, WFMin
<1>3. PICK n \in T : \A m \in T : ~(<<m, n>> \in R)
  BY <1>2
<1>4. \A m \in T : n <= m
  <2> TAKE m \in T
  <2>1. ~(<<m, n>> \in R)
    BY <1>3
  <2>2. ~(m < n)
    BY <2>1 DEF R
  <2> QED BY <2>2
<1> QED BY <1>4

LEMMA NatInduct ==
  ASSUME NEW C, 0 \in C, \A n \in Nat : n \in C => n + 1 \in C
  PROVE  \A n \in Nat : n \in C
<1> SUFFICES ASSUME NEW k \in Nat, k \notin C
             PROVE  FALSE
  OBVIOUS
<1> DEFINE T == {n \in Nat : n \notin C}
<1>1. PICK n \in T : \A m \in T : n <= m
  <2>1. T \subseteq Nat /\ T # {}
    OBVIOUS
  <2> HIDE DEF T
  <2> QED BY <2>1, LeastNat
<1>2. n \in Nat \ {0}
  OBVIOUS
<1>3. n - 1 \in Nat /\ n - 1 \notin T
  BY <1>1, <1>2
<1>4. n - 1 \in C
  BY <1>3
<1>5. (n - 1) + 1 \in C
  BY <1>3, <1>4
<1>6. (n - 1) + 1 = n
  BY <1>2
<1> QED BY <1>5, <1>6

LEMMA SetInduct ==
  ASSUME NEW S, IsFiniteSet(S), NEW C, {} \in C,
         \A T \in SUBSET S : \A x \in S \ T : T \in C => T \cup {x} \in C
  PROVE  S \in C
<1> DEFINE D == {n \in Nat : \A T \in SUBSET S : IsFiniteSet(T) /\ Cardinality(T) = n => T \in C}
<1>1. 0 \in D
  BY FS_EmptySet
<1>2. ASSUME NEW n \in Nat, n \in D
      PROVE  n + 1 \in D
  <2> SUFFICES ASSUME NEW T \in SUBSET S, IsFiniteSet(T), Cardinality(T) = n + 1
               PROVE  T \in C
    OBVIOUS
  <2>1. PICK x \in T : TRUE
    <3>1. T # {}
      BY FS_EmptySet
    <3> QED BY <3>1
  <2>2. IsFiniteSet(T \ {x}) /\ Cardinality(T \ {x}) = n
    <3>1. IsFiniteSet(T \ {x}) /\ Cardinality(T \ {x}) = Cardinality(T) - 1
      BY <2>1, FS_RemoveElement
    <3> QED BY <3>1
  <2>3. T \ {x} \in C
    BY <1>2, <2>2
  <2>4. (T \ {x}) \cup {x} \in C
    BY <2>3
  <2> QED BY <2>4
<1> HIDE DEF D
<1>3. \A n \in Nat : n \in D
  BY <1>1, <1>2, NatInduct
<1> QED
  BY <1>3, FS_CardinalityType DEF D

\* A recursion over 1..N whose values stay in V has a solution.
Transitions(V) == [Nat \X V -> V]
Computed(V, base, next, N, f) ==
    /\ f \in [0..N -> V]
    /\ f[0] = base /\ \A n \in 1..N : f[n] = next[<<n, f[n - 1]>>]

LEMMA Recursion ==
  ASSUME NEW V, NEW base \in V, NEW next \in Transitions(V), NEW N \in Nat
  PROVE  \E f : Computed(V, base, next, N, f)
<1>0. next \in [Nat \X V -> V]
  BY DEF Transitions
<1> DEFINE C == {k \in Nat : \E f \in [0..k -> V] :
                     f[0] = base /\ \A n \in 1..k : f[n] = next[<<n, f[n - 1]>>]}
<1>1. 0 \in C
  <2> DEFINE f == [i \in 0..0 |-> base]
  <2>1. f \in [0..0 -> V] /\ f[0] = base /\ 1..0 = {}
    OBVIOUS
  <2> QED BY <2>1
<1>2. ASSUME NEW k \in Nat, k \in C
      PROVE  k + 1 \in C
  <2>1. PICK f \in [0..k -> V] : f[0] = base /\ \A n \in 1..k : f[n] = next[<<n, f[n - 1]>>]
    BY <1>2
  <2> DEFINE g == [i \in 0..(k + 1) |-> IF i <= k THEN f[i] ELSE next[<<k + 1, f[k]>>]]
  <2>2. f[k] \in V /\ next[<<k + 1, f[k]>>] \in V
    BY <1>0, <2>1
  <2>3. g \in [0..(k + 1) -> V]
    BY <2>1, <2>2
  <2>4. g[0] = base
    BY <2>1
  <2>5. ASSUME NEW n \in 1..(k + 1)
        PROVE  g[n] = next[<<n, g[n - 1]>>]
    <3>1. CASE n <= k
      <4>1. g[n] = f[n] /\ g[n - 1] = f[n - 1] /\ n \in 1..k
        BY <3>1
      <4> QED BY <2>1, <4>1
    <3>2. CASE n > k
      <4>1. n = k + 1 /\ n - 1 = k
        BY <3>2
      <4>2. k + 1 \in 0..(k + 1) /\ k \in 0..(k + 1) /\ ~(k + 1 <= k)
        OBVIOUS
      <4>3. g[k + 1] = next[<<k + 1, f[k]>>] /\ g[k] = f[k]
        BY <4>2
      <4> QED BY <4>1, <4>3
    <3> QED BY <3>1, <3>2
  <2> HIDE DEF g
  <2> QED BY <2>3, <2>4, <2>5
<1> HIDE DEF C
<1>3. N \in C
  BY <1>1, <1>2, NatInduct
<1> QED BY <1>3 DEF C, Computed

-----------------------------------------------------------------------------
(* Sorting.                                                                *)

\* Of finitely many times there is a latest.
LEMMA LatestExists ==
  ASSUME NEW S, IsFiniteSet(S), S # {}, NEW at \in [S -> Int]
  PROVE  \E x \in S : \A y \in S : at[y] <= at[x]
<1> DEFINE C == {T \in SUBSET S : T # {} => \E x \in T : \A y \in T : at[y] <= at[x]}
<1>1. {} \in C
  OBVIOUS
<1>2. ASSUME NEW T \in SUBSET S, NEW x \in S \ T, T \in C
      PROVE  T \cup {x} \in C
  <2>1. at[x] \in Int /\ \A y \in T : at[y] \in Int
    OBVIOUS
  <2>2. CASE T = {}
    BY <2>1, <2>2
  <2>3. CASE T # {}
    <3>1. PICK z \in T : \A y \in T : at[y] <= at[z]
      BY <1>2, <2>3
    <3>2. CASE at[x] <= at[z]
      BY <3>1, <3>2
    <3>3. CASE ~(at[x] <= at[z])
      <4>1. \A y \in T \cup {x} : at[y] <= at[x]
        BY <2>1, <3>1, <3>3
      <4> QED BY <4>1
    <3> QED BY <3>2, <3>3
  <2> QED BY <2>2, <2>3
<1> HIDE DEF C
<1>3. S \in C
  BY <1>1, <1>2, SetInduct
<1> QED BY <1>3 DEF C

LEMMA OrderExists ==
  ASSUME NEW S, IsFiniteSet(S), NEW at \in [S -> Int]
  PROVE  \E o \in SetToSeqs(S) : \A i, j \in DOMAIN o : i < j => at[o[i]] <= at[o[j]]
<1> DEFINE Sorted(n, T) == \E o \in [1..n -> T] :
               \A i, j \in 1..n : i < j => o[i] # o[j] /\ at[o[i]] <= at[o[j]]
           C == {n \in Nat : \A T \in SUBSET S : IsFiniteSet(T) /\ Cardinality(T) = n => Sorted(n, T)}
<1>1. 0 \in C
  <2> SUFFICES ASSUME NEW T \in SUBSET S PROVE Sorted(0, T)
    OBVIOUS
  <2>1. 1..0 = {}
    OBVIOUS
  <2>2. [i \in 1..0 |-> S] \in [1..0 -> T]
    BY <2>1
  <2> QED BY <2>1, <2>2
<1>2. ASSUME NEW n \in Nat, n \in C
      PROVE  n + 1 \in C
  <2> SUFFICES ASSUME NEW T \in SUBSET S, IsFiniteSet(T), Cardinality(T) = n + 1
               PROVE  Sorted(n + 1, T)
    OBVIOUS
  <2>1. PICK x \in T : \A y \in T : at[y] <= at[x]
    <3> DEFINE part == [y \in T |-> at[y]]
    <3>1. T # {} /\ part \in [T -> Int] /\ \A y \in T : part[y] = at[y]
      BY FS_EmptySet
    <3>2. \E x \in T : \A y \in T : part[y] <= part[x]
      <4> HIDE DEF part
      <4> QED BY <3>1, LatestExists
    <3> QED BY <3>1, <3>2
  <2>2. IsFiniteSet(T \ {x}) /\ Cardinality(T \ {x}) = n
    <3>1. IsFiniteSet(T \ {x}) /\ Cardinality(T \ {x}) = Cardinality(T) - 1
      BY <2>1, FS_RemoveElement
    <3> QED BY <3>1
  <2>3. Sorted(n, T \ {x})
    BY <1>2, <2>2
  <2>4. PICK o \in [1..n -> T \ {x}] :
            \A i, j \in 1..n : i < j => o[i] # o[j] /\ at[o[i]] <= at[o[j]]
    BY <2>3
  <2> DEFINE p == [i \in 1..(n + 1) |-> IF i <= n THEN o[i] ELSE x]
  <2>5. \A i \in 1..n : i \in 1..(n + 1) /\ p[i] = o[i] /\ p[i] \in T \ {x}
    BY <2>4
  <2>6. n + 1 \in 1..(n + 1) /\ p[n + 1] = x /\ \A i \in 1..(n + 1) : i \in 1..n \/ i = n + 1
    OBVIOUS
  <2>7. p \in [1..(n + 1) -> T]
    BY <2>1, <2>4
  <2> HIDE DEF p
  <2>8. ASSUME NEW i \in 1..(n + 1), NEW j \in 1..(n + 1), i < j
        PROVE  p[i] # p[j] /\ at[p[i]] <= at[p[j]]
    <3>1. i \in 1..n
      BY <2>8
    <3>2. CASE j \in 1..n
      BY <2>4, <2>5, <2>8, <3>1, <3>2
    <3>3. CASE j = n + 1
      <4>1. p[i] \in T /\ p[i] # x /\ p[j] = x
        BY <2>5, <2>6, <3>1, <3>3
      <4> QED BY <2>1, <4>1
    <3> QED BY <2>6, <3>2, <3>3
  <2> QED BY <2>7, <2>8
<1> HIDE DEF C
<1>3. Cardinality(S) \in C /\ Cardinality(S) \in Nat
  BY <1>1, <1>2, NatInduct, FS_CardinalityType
<1>4. Sorted(Cardinality(S), S)
  BY <1>3 DEF C
<1>5. PICK o \in [1..Cardinality(S) -> S] :
          \A i, j \in 1..Cardinality(S) : i < j => o[i] # o[j] /\ at[o[i]] <= at[o[j]]
  BY <1>4
<1>6. \A i, j \in 1..Cardinality(S) : i # j => o[i] # o[j]
  BY <1>3, <1>5
<1>7. o \in SetToSeqs(S)
  BY <1>5, <1>6 DEF SetToSeqs
<1> QED BY <1>5, <1>7

\* The times of a flow of n packets, and the same times in order.
InOrder(o, n) ==
    /\ o \in [1..n -> Int] /\ Len(o) = n /\ DOMAIN o = 1..n
    /\ \A i, j \in 1..n : i < j => o[i] <= o[j]
SameTimes(o, times, n) ==
    /\ \A i \in 1..n : \E k \in 1..n : o[i] = times[k]
    /\ \A k \in 1..n : \E i \in 1..n : o[i] = times[k]

LEMMA OrderedSorts ==
  ASSUME NEW n \in Nat, NEW times \in [1..n -> Int], NEW o, o = Ordered(times)
  PROVE  InOrder(o, n) /\ SameTimes(o, times, n)
<1> DEFINE S == DOMAIN times
           p == CHOOSE q \in SetToSeqs(S) :
                    \A i, j \in DOMAIN q : i < j => times[q[i]] <= times[q[j]]
<1>1. S = 1..n /\ IsFiniteSet(S) /\ Cardinality(S) = n
  BY FS_Interval
<1>2. o = [k \in DOMAIN p |-> times[p[k]]]
  BY DEF Ordered
<1>3. p \in SetToSeqs(S) /\ \A i, j \in DOMAIN p : i < j => times[p[i]] <= times[p[j]]
  BY <1>1, OrderExists
<1> HIDE DEF p
<1>4. p \in [1..n -> 1..n] /\ \A i, j \in 1..n : i # j => p[i] # p[j]
  BY <1>1, <1>3 DEF SetToSeqs, IsInjective
<1>5. \A k \in 1..n : \E i \in 1..n : p[i] = k
  <2>1. p \in Injection(1..n, 1..n)
    BY <1>4 DEF Injection, IsInjective
  <2>2. p \in Surjection(1..n, 1..n)
    BY <1>1, <2>1, FS_Injection
  <2> QED BY <2>2 DEF Surjection
<1>6. /\ o \in [1..n -> Int] /\ DOMAIN o = 1..n
      /\ \A i \in 1..n : o[i] = times[p[i]]
  BY <1>2, <1>4
<1>7. Len(o) = n
  BY <1>6, Listed
<1>8. \A i, j \in 1..n : i < j => o[i] <= o[j]
  BY <1>3, <1>4, <1>6
<1>9. \A i \in 1..n : \E k \in 1..n : o[i] = times[k]
  BY <1>4, <1>6
<1>10. \A k \in 1..n : \E i \in 1..n : o[i] = times[k]
  <2> TAKE k \in 1..n
  <2>1. PICK i \in 1..n : p[i] = k
    BY <1>5
  <2>2. o[i] = times[k]
    BY <1>6, <2>1
  <2> QED BY <2>2
<1>11. InOrder(o, n)
  BY <1>6, <1>7, <1>8 DEF InOrder
<1> QED BY <1>9, <1>10, <1>11 DEF SameTimes

\* Sums.  A function with the partial sums of a sequence ends in its total.
Sums(ns, N, f) ==
    /\ f \in [0..N -> Int] /\ f[0] = 0
    /\ \A n \in 1..N : f[n] = f[n - 1] + ns[n]

LEMMA TotalIsSum ==
  ASSUME NEW ns, NEW N \in Nat, Len(ns) = N, NEW f, Sums(ns, N, f)
  PROVE  Total(ns) = f[N]
<1> DEFINE Sum == CHOOSE g : g = [n \in 0..N |-> IF n = 0 THEN 0 ELSE g[n - 1] + ns[n]]
<1>1. Total(ns) = Sum[N]
  BY DEF Total
<1>2. f = [n \in 0..N |-> IF n = 0 THEN 0 ELSE f[n - 1] + ns[n]]
  <2>1. DOMAIN f = 0..N /\ f = [n \in 0..N |-> f[n]]
    BY DEF Sums
  <2>2. \A n \in 0..N : f[n] = IF n = 0 THEN 0 ELSE f[n - 1] + ns[n]
    BY DEF Sums
  <2> QED BY <2>1, <2>2
<1>3. Sum = [n \in 0..N |-> IF n = 0 THEN 0 ELSE Sum[n - 1] + ns[n]]
  BY <1>2
<1> HIDE DEF Sum
<1> DEFINE C == {n \in Nat : n \in 0..N => Sum[n] = f[n]}
<1>4. 0 \in C
  BY <1>3 DEF Sums
<1>5. ASSUME NEW n \in Nat, n \in C PROVE n + 1 \in C
  <2> SUFFICES ASSUME n + 1 \in 0..N PROVE Sum[n + 1] = f[n + 1]
    OBVIOUS
  <2>1. n \in 0..N /\ n + 1 \in 1..N /\ (n + 1) - 1 = n /\ n + 1 # 0
    OBVIOUS
  <2>2. Sum[n] = f[n]
    BY <1>5, <2>1
  <2>3. Sum[n + 1] = Sum[(n + 1) - 1] + ns[n + 1]
    BY <1>3, <2>1
  <2>4. f[n + 1] = f[(n + 1) - 1] + ns[n + 1]
    BY <2>1 DEF Sums
  <2> QED BY <2>1, <2>2, <2>3, <2>4
<1> HIDE DEF C
<1>6. N \in C
  BY <1>4, <1>5, NatInduct
<1> QED BY <1>1, <1>6 DEF C

LEMMA SumsExist ==
  ASSUME NEW ns \in Seq(Int)
  PROVE  \E f : Sums(ns, Len(ns), f)
<1> DEFINE N == Len(ns)
           next == [p \in Nat \X Int |-> p[2] + IF p[1] \in 1..N THEN ns[p[1]] ELSE 0]
<1>1. N \in Nat /\ \A n \in 1..N : ns[n] \in Int
  BY ElementOfSeq
<1>2. next \in Transitions(Int)
  <2>1. \A n \in Nat, v \in Int : (v + IF n \in 1..N THEN ns[n] ELSE 0) \in Int
    BY <1>1
  <2> QED BY <2>1 DEF Transitions
<1>3. \A n \in 1..N, v \in Int : next[<<n, v>>] = v + ns[n]
  BY <1>1
<1> HIDE DEF next, N
<1>4. PICK f : Computed(Int, 0, next, N, f)
  <2>1. 0 \in Int /\ N \in Nat
    BY <1>1
  <2> QED BY <1>2, <2>1, Recursion
<1>5. f \in [0..N -> Int] /\ f[0] = 0 /\ \A n \in 1..N : f[n] = next[<<n, f[n - 1]>>]
  BY <1>4 DEF Computed
<1>6. \A n \in 1..N : f[n] = f[n - 1] + ns[n]
  <2> TAKE n \in 1..N
  <2>1. n - 1 \in 0..N
    BY <1>1
  <2> QED BY <1>3, <1>5, <2>1
<1>7. Sums(ns, N, f)
  BY <1>5, <1>6 DEF Sums
<1> QED BY <1>7 DEF N

LEMMA TotalOfNothing == Total(<<>>) = 0
<1> DEFINE f == [n \in 0..0 |-> 0]
<1>1. Sums(<<>>, 0, f)
  BY DEF Sums
<1>2. Len(<<>>) = 0
  OBVIOUS
<1> QED BY <1>1, <1>2, TotalIsSum

LEMMA TotalAppends ==
  ASSUME NEW ns \in Seq(Int), NEW x \in Int
  PROVE  Total(ns) \in Int /\ Total(Append(ns, x)) = Total(ns) + x
<1> DEFINE N == Len(ns)
<1>1. N \in Nat
  OBVIOUS
<1>2. PICK f : Sums(ns, N, f)
  BY SumsExist
<1>3. Total(ns) = f[N] /\ f[N] \in Int
  <2>1. Total(ns) = f[N]
    BY <1>1, <1>2, TotalIsSum
  <2>2. f[N] \in Int
    BY <1>1, <1>2 DEF Sums
  <2> QED BY <2>1, <2>2
<1> DEFINE longer == Append(ns, x)
           g == [n \in 0..(N + 1) |-> IF n <= N THEN f[n] ELSE f[N] + x]
<1>4. /\ Len(longer) = N + 1 /\ longer[N + 1] = x
      /\ \A n \in 1..N : longer[n] = ns[n]
  BY AppendProperties
<1>5. f \in [0..N -> Int] /\ f[0] = 0 /\ \A n \in 1..N : f[n] = f[n - 1] + ns[n]
  BY <1>2 DEF Sums
<1> HIDE DEF longer, N
<1>6. g \in [0..(N + 1) -> Int] /\ g[0] = 0 /\ g[N + 1] = f[N] + x
  BY <1>1, <1>3, <1>5
<1>7. \A n \in 1..(N + 1) : g[n] = g[n - 1] + longer[n]
  <2> TAKE n \in 1..(N + 1)
  <2>1. CASE n <= N
    <3>1. n \in 1..N /\ n - 1 <= N /\ n - 1 \in 0..(N + 1) /\ n \in 0..(N + 1)
      BY <1>1, <2>1
    <3>2. g[n] = f[n] /\ g[n - 1] = f[n - 1]
      BY <3>1
    <3> QED BY <1>4, <1>5, <3>1, <3>2
  <2>2. CASE n > N
    <3>1. n = N + 1 /\ n - 1 = N /\ N \in 0..(N + 1)
      BY <1>1, <2>2
    <3>2. g[N] = f[N]
      BY <1>1
    <3> QED BY <1>4, <1>6, <3>1, <3>2
  <2> QED BY <1>1, <2>1, <2>2
<1>8. Sums(longer, N + 1, g)
  BY <1>6, <1>7 DEF Sums
<1> HIDE DEF g
<1>9. Total(longer) = g[N + 1]
  BY <1>1, <1>4, <1>8, TotalIsSum
<1> QED BY <1>3, <1>6, <1>9 DEF longer

\* The intervals between ordered times add up: each partial sum is the time passed.
LEMMA IntervalsAddUp ==
  ASSUME NEW n \in Nat \ {0}, NEW times \in [1..n -> Int], NEW o, o = Ordered(times)
  PROVE  Total(Intervals(times)) = o[n] - o[1]
<1> DEFINE gaps == Intervals(times)
           f == [k \in 0..(n - 1) |-> o[k + 1] - o[1]]
<1>1. InOrder(o, n)
  BY OrderedSorts
<1>2. gaps = [k \in 1..(n - 1) |-> AtLeastZero(o[k + 1] - o[k])]
  BY <1>1 DEF Intervals, InOrder
<1>3. \A k \in 1..(n - 1) : AtLeastZero(o[k + 1] - o[k]) = o[k + 1] - o[k]
  <2> TAKE k \in 1..(n - 1)
  <2>1. k \in 1..n /\ k + 1 \in 1..n /\ k < k + 1
    OBVIOUS
  <2>2. o[k] \in Int /\ o[k + 1] \in Int /\ o[k] <= o[k + 1]
    BY <1>1, <2>1 DEF InOrder
  <2> QED BY <2>2 DEF AtLeastZero
<1>4. \A k \in 1..n : o[k] \in Int
  BY <1>1 DEF InOrder
<1>5. n - 1 \in Nat /\ Len(gaps) = n - 1
  <2>1. gaps \in [1..(n - 1) -> Int]
    BY <1>2, <1>3, <1>4
  <2>2. n - 1 \in Nat
    OBVIOUS
  <2> QED BY <2>1, <2>2, Listed
<1>6. Sums(gaps, n - 1, f)
  <2>1. f \in [0..(n - 1) -> Int] /\ f[0] = 0
    BY <1>4
  <2>2. \A k \in 1..(n - 1) : f[k] = f[k - 1] + gaps[k]
    <3> TAKE k \in 1..(n - 1)
    <3>1. gaps[k] = o[k + 1] - o[k]
      BY <1>2, <1>3
    <3>2. k \in 0..(n - 1) /\ k - 1 \in 0..(n - 1) /\ (k - 1) + 1 = k
      OBVIOUS
    <3>3. f[k] = o[k + 1] - o[1] /\ f[k - 1] = o[k] - o[1]
      BY <3>2
    <3>4. o[k] \in Int /\ o[k + 1] \in Int /\ o[1] \in Int
      BY <1>4
    <3>5. o[k + 1] - o[1] = (o[k] - o[1]) + (o[k + 1] - o[k])
      BY ONLY <3>4
    <3> QED BY ONLY <3>1, <3>3, <3>5
  <2> QED BY <2>1, <2>2 DEF Sums
<1>7. f[n - 1] = o[n] - o[1]
  OBVIOUS
<1> HIDE DEF f, gaps
<1>8. Total(gaps) = f[n - 1]
  BY <1>5, <1>6, TotalIsSum
<1> QED BY <1>7, <1>8 DEF gaps

\* The clusters of packets, with the gaps between them, fill the time up to the last
\* packet; the one that is open counts up to there.
Clusters == [start : Int, active : Seq(Int), idle : Seq(Int)]
Fill(so, first, last) ==
    /\ so \in Clusters /\ so.start <= last
    /\ Total(so.active) + Total(so.idle) + (last - so.start) = last - first
    /\ \A j \in 1..Len(so.idle) : so.idle[j] > Gap

\* What one more packet makes of them.
Onward(so, last, t) ==
    IF t - last > Gap
    THEN [start  |-> t,
          active |-> Append(so.active, AtLeastZero(last - so.start)),
          idle   |-> Append(so.idle, AtLeastZero(t - last))]
    ELSE so

LEMMA OnwardTyped ==
  ASSUME NEW so \in Clusters, NEW last \in Int, NEW t \in Int
  PROVE  Onward(so, last, t) \in Clusters
<1>1. /\ so.start \in Int /\ so.active \in Seq(Int) /\ so.idle \in Seq(Int)
  BY DEF Clusters
<1>2. AtLeastZero(last - so.start) \in Int /\ AtLeastZero(t - last) \in Int
  BY <1>1 DEF AtLeastZero
<1>3. /\ Append(so.active, AtLeastZero(last - so.start)) \in Seq(Int)
      /\ Append(so.idle, AtLeastZero(t - last)) \in Seq(Int)
  BY <1>1, <1>2
<1> QED BY <1>3 DEF Onward, Clusters

LEMMA OnwardFills ==
  ASSUME NEW first \in Int, NEW last \in Int, NEW t \in Int, last <= t,
         NEW so, Fill(so, first, last)
  PROVE  Fill(Onward(so, last, t), first, t)
<1>1. /\ so \in Clusters /\ so.start \in Int /\ so.active \in Seq(Int) /\ so.idle \in Seq(Int)
      /\ so.start <= last
      /\ Total(so.active) + Total(so.idle) + (last - so.start) = last - first
  BY DEF Fill, Clusters
<1>2. Total(so.active) \in Int /\ Total(so.idle) \in Int
  BY <1>1, TotalAppends
<1>3. CASE t - last > Gap
  <2> DEFINE a == last - so.start
             i == t - last
  <2>1. AtLeastZero(last - so.start) = a /\ AtLeastZero(t - last) = i /\ a \in Int /\ i \in Int
    BY <1>1 DEF AtLeastZero
  <2>2. Onward(so, last, t) = [start |-> t, active |-> Append(so.active, a), idle |-> Append(so.idle, i)]
    BY <1>3, <2>1 DEF Onward
  <2>3. a + i = t - so.start /\ i > Gap
    BY <1>1, <1>3
  <2> HIDE DEF a, i
  <2>4. /\ Total(Append(so.active, a)) = Total(so.active) + a
        /\ Total(Append(so.idle, i)) = Total(so.idle) + i
    BY <1>1, <2>1, TotalAppends
  <2>5. \A j \in 1..Len(Append(so.idle, i)) : Append(so.idle, i)[j] > Gap
    <3>1. /\ Len(Append(so.idle, i)) = Len(so.idle) + 1
          /\ \A j \in 1..Len(so.idle) : Append(so.idle, i)[j] = so.idle[j]
          /\ Append(so.idle, i)[Len(so.idle) + 1] = i
      BY <1>1, <2>1, AppendProperties
    <3>2. Len(so.idle) \in Nat /\ \A j \in 1..Len(so.idle) : so.idle[j] > Gap
      BY <1>1 DEF Fill
    <3>3. \A j \in 1..(Len(so.idle) + 1) : j \in 1..Len(so.idle) \/ j = Len(so.idle) + 1
      BY <3>2
    <3> QED BY <2>3, <3>1, <3>2, <3>3
  <2>6. Onward(so, last, t) \in Clusters
    BY <1>1, OnwardTyped
  <2>7. Total(so.active) + a + (Total(so.idle) + i) + (t - t) = t - first
    <3>1. a = last - so.start /\ i = t - last
      BY DEF a, i
    <3> DEFINE x == Total(so.active)
               y == Total(so.idle)
               start == so.start
    <3>2. x \in Int /\ y \in Int /\ start \in Int /\ x + y + (last - start) = last - first
      BY <1>1, <1>2
    <3>3. a = last - start
      BY <3>1
    <3> HIDE DEF x, y, start, a, i
    <3>4. x + a + (y + i) + (t - t) = t - first
      BY ONLY <2>1, <3>1, <3>2, <3>3, first \in Int, last \in Int, t \in Int
    <3> QED BY <3>4 DEF x, y
  <2> QED BY <2>2, <2>4, <2>5, <2>6, <2>7 DEF Fill
<1>4. CASE ~(t - last > Gap)
  <2>1. Onward(so, last, t) = so
    BY <1>4 DEF Onward
  <2>2. Total(so.active) + Total(so.idle) + (t - so.start) = t - first
    <3> DEFINE x == Total(so.active)
               y == Total(so.idle)
               start == so.start
    <3>1. x \in Int /\ y \in Int /\ start \in Int /\ x + y + (last - start) = last - first
      BY <1>1, <1>2
    <3> HIDE DEF x, y, start
    <3>2. x + y + (t - start) = t - first
      BY ONLY <3>1, first \in Int, last \in Int, t \in Int
    <3> QED BY <3>2 DEF x, y, start
  <2>3. so.start <= t
    BY <1>1
  <2> QED BY <1>1, <2>1, <2>2, <2>3 DEF Fill
<1> QED BY <1>3, <1>4

\* The clusters one packet after another.
Grouped(o, N, g) ==
    /\ g \in [1..N -> Clusters]
    /\ g[1] = [start |-> o[1], active |-> <<>>, idle |-> <<>>]
    /\ \A n \in 2..N : g[n] = Onward(g[n - 1], o[n - 1], o[n])

LEMMA GroupedExists ==
  ASSUME NEW N \in Nat \ {0}, NEW o \in [1..N -> Int]
  PROVE  \E g : Grouped(o, N, g)
<1> DEFINE base == [start |-> o[1], active |-> <<>>, idle |-> <<>>]
           next == [p \in Nat \X Clusters |->
                       IF p[1] \in 1..(N - 1) THEN Onward(p[2], o[p[1]], o[p[1] + 1]) ELSE p[2]]
<1>1. base \in Clusters
  BY DEF Clusters
<1>2. \A n \in 1..(N - 1) : o[n] \in Int /\ o[n + 1] \in Int
  OBVIOUS
<1>3. next \in Transitions(Clusters)
  <2>1. ASSUME NEW n \in Nat, NEW so \in Clusters
        PROVE  (IF n \in 1..(N - 1) THEN Onward(so, o[n], o[n + 1]) ELSE so) \in Clusters
    <3>1. CASE n \in 1..(N - 1)
      <4>1. Onward(so, o[n], o[n + 1]) \in Clusters
        BY <1>2, <3>1, OnwardTyped
      <4> QED BY <3>1, <4>1
    <3>2. CASE n \notin 1..(N - 1)
      BY <3>2
    <3> QED BY <3>1, <3>2
  <2> QED BY <2>1 DEF Transitions
<1>4. \A n \in 1..(N - 1), so \in Clusters : next[<<n, so>>] = Onward(so, o[n], o[n + 1])
  OBVIOUS
<1> HIDE DEF next
<1>5. PICK f : Computed(Clusters, base, next, N - 1, f)
  <2>1. N - 1 \in Nat
    OBVIOUS
  <2> HIDE DEF base
  <2> QED BY <1>1, <1>3, <2>1, Recursion
<1>6. /\ f \in [0..(N - 1) -> Clusters] /\ f[0] = base
      /\ \A n \in 1..(N - 1) : f[n] = next[<<n, f[n - 1]>>]
  BY <1>5 DEF Computed
<1> HIDE DEF base
<1> DEFINE g == [n \in 1..N |-> f[n - 1]]
<1>7. g \in [1..N -> Clusters] /\ g[1] = base
  BY <1>6
<1>8. ASSUME NEW n \in 2..N PROVE g[n] = Onward(g[n - 1], o[n - 1], o[n])
  <2>1. n - 1 \in 1..(N - 1) /\ (n - 1) - 1 \in 0..(N - 1) /\ (n - 1) + 1 = n
    OBVIOUS
  <2>2. n \in 1..N /\ n - 1 \in 1..N
    OBVIOUS
  <2>3. g[n] = f[n - 1] /\ g[n - 1] = f[(n - 1) - 1] /\ f[(n - 1) - 1] \in Clusters
    BY <1>6, <2>1, <2>2
  <2>4. f[n - 1] = Onward(f[(n - 1) - 1], o[n - 1], o[(n - 1) + 1])
    BY <1>4, <1>6, <2>1, <2>3
  <2> QED BY <2>1, <2>3, <2>4
<1> HIDE DEF g
<1>9. Grouped(o, N, g)
  BY <1>7, <1>8 DEF Grouped, base
<1> QED BY <1>9

\* The active and idle periods together make up the time from the first packet to
\* the last.
LEMMA PeriodsAddUp ==
  ASSUME NEW N \in Nat \ {0}, NEW times \in [1..N -> Int], NEW o, o = Ordered(times)
  PROVE  /\ Total(Periods(times).active) + Total(Periods(times).idle) = o[N] - o[1]
         /\ \A j \in DOMAIN Periods(times).idle : Periods(times).idle[j] > Gap
<1>1. InOrder(o, N)
  BY OrderedSorts
<1>2. /\ Len(o) = N /\ o \in [1..N -> Int]
      /\ \A n \in 2..N : n - 1 \in 1..N /\ o[n - 1] \in Int /\ o[n] \in Int /\ o[n - 1] <= o[n]
      /\ o[1] \in Int /\ o[N] \in Int
  BY <1>1 DEF InOrder
<1> DEFINE Upto ==
        CHOOSE g : g = [n \in 1..N |->
            IF n = 1 THEN [start |-> o[1], active |-> <<>>, idle |-> <<>>]
            ELSE IF o[n] - o[n - 1] > Gap
                 THEN [start  |-> o[n],
                       active |-> Append(g[n - 1].active, AtLeastZero(o[n - 1] - g[n - 1].start)),
                       idle   |-> Append(g[n - 1].idle, AtLeastZero(o[n] - o[n - 1]))]
                 ELSE g[n - 1]]
           end == Upto[N]
<1>3. Periods(times) = [active |-> Append(end.active, AtLeastZero(o[N] - end.start)),
                        idle |-> end.idle]
  BY <1>2 DEF Periods
<1>4. PICK f : Grouped(o, N, f)
  BY <1>2, GroupedExists
<1>5. f = [n \in 1..N |->
            IF n = 1 THEN [start |-> o[1], active |-> <<>>, idle |-> <<>>]
            ELSE IF o[n] - o[n - 1] > Gap
                 THEN [start  |-> o[n],
                       active |-> Append(f[n - 1].active, AtLeastZero(o[n - 1] - f[n - 1].start)),
                       idle   |-> Append(f[n - 1].idle, AtLeastZero(o[n] - o[n - 1]))]
                 ELSE f[n - 1]]
  <2>1. f = [n \in 1..N |-> f[n]] /\ \A n \in 1..N : n = 1 \/ n \in 2..N
    BY <1>4 DEF Grouped
  <2>2. \A n \in 2..N : n # 1 /\ f[n] = Onward(f[n - 1], o[n - 1], o[n])
    BY <1>4 DEF Grouped
  <2>3. f[1] = [start |-> o[1], active |-> <<>>, idle |-> <<>>]
    BY <1>4 DEF Grouped
  <2> QED BY <2>1, <2>2, <2>3 DEF Onward
<1>6. Upto = [n \in 1..N |->
            IF n = 1 THEN [start |-> o[1], active |-> <<>>, idle |-> <<>>]
            ELSE IF o[n] - o[n - 1] > Gap
                 THEN [start  |-> o[n],
                       active |-> Append(Upto[n - 1].active, AtLeastZero(o[n - 1] - Upto[n - 1].start)),
                       idle   |-> Append(Upto[n - 1].idle, AtLeastZero(o[n] - o[n - 1]))]
                 ELSE Upto[n - 1]]
  BY <1>5
<1> HIDE DEF Upto
<1>7. /\ Upto[1] = [start |-> o[1], active |-> <<>>, idle |-> <<>>]
      /\ \A n \in 2..N : Upto[n] = Onward(Upto[n - 1], o[n - 1], o[n])
  <2>1. 1 \in 1..N /\ \A n \in 2..N : n \in 1..N /\ n # 1
    OBVIOUS
  <2> QED BY <1>6, <2>1 DEF Onward
<1> DEFINE C == {n \in Nat : n + 1 \in 1..N => Fill(Upto[n + 1], o[1], o[n + 1])}
<1>8. 0 \in C
  <2> DEFINE base == [start |-> o[1], active |-> <<>>, idle |-> <<>>]
  <2>1. base \in Clusters /\ base.start = o[1] /\ base.active = <<>> /\ base.idle = <<>>
    BY <1>2 DEF Clusters
  <2>2. Total(base.active) = 0 /\ Total(base.idle) = 0 /\ 1..Len(base.idle) = {}
    BY <2>1, TotalOfNothing
  <2> HIDE DEF base
  <2>3. Fill(base, o[1], o[1])
    BY <1>2, <2>1, <2>2 DEF Fill
  <2>4. Upto[0 + 1] = base
    BY <1>7 DEF base
  <2> QED BY <2>3, <2>4
<1>9. ASSUME NEW n \in Nat, n \in C PROVE n + 1 \in C
  <2> SUFFICES ASSUME (n + 1) + 1 \in 1..N
               PROVE  Fill(Upto[(n + 1) + 1], o[1], o[(n + 1) + 1])
    OBVIOUS
  <2> DEFINE m == (n + 1) + 1
  <2>1. n + 1 \in 1..N /\ m \in 2..N /\ m - 1 = n + 1
    OBVIOUS
  <2>2. Fill(Upto[m - 1], o[1], o[m - 1])
    BY <1>9, <2>1
  <2>3. Upto[m] = Onward(Upto[m - 1], o[m - 1], o[m])
    BY <1>7, <2>1
  <2>4. o[m - 1] \in Int /\ o[m] \in Int /\ o[m - 1] <= o[m]
    BY <1>2, <2>1
  <2> HIDE DEF m
  <2>5. Fill(Upto[m], o[1], o[m])
    BY <1>2, <2>2, <2>3, <2>4, OnwardFills
  <2> QED BY <2>5 DEF m
<1> HIDE DEF C
<1>10. Fill(end, o[1], o[N])
  <2>1. N - 1 \in Nat /\ (N - 1) + 1 = N /\ N \in 1..N
    OBVIOUS
  <2>2. N - 1 \in C
    BY <1>8, <1>9, <2>1, NatInduct
  <2> QED BY <2>1, <2>2 DEF C
<1> HIDE DEF end
<1>11. /\ end.active \in Seq(Int) /\ end.idle \in Seq(Int) /\ end.start \in Int
       /\ AtLeastZero(o[N] - end.start) = o[N] - end.start
  BY <1>2, <1>10 DEF Fill, Clusters, AtLeastZero
<1> DEFINE a == o[N] - end.start
<1>12. a \in Int
  BY <1>2, <1>11
<1>13. Periods(times).active = Append(end.active, a) /\ Periods(times).idle = end.idle
  BY <1>3, <1>11
<1>14. /\ Total(end.active) \in Int /\ Total(end.idle) \in Int
       /\ Total(Append(end.active, a)) = Total(end.active) + a
  <2> HIDE DEF a
  <2> QED BY <1>11, <1>12, TotalAppends
<1>15. Total(end.active) + Total(end.idle) + a = o[N] - o[1]
  BY <1>10 DEF Fill
<1>16. \A j \in DOMAIN end.idle : end.idle[j] > Gap
  BY <1>10, <1>11 DEF Fill
<1> HIDE DEF a
<1>17. Total(end.active) + a + Total(end.idle) = o[N] - o[1]
  BY <1>12, <1>14, <1>15
<1> QED BY <1>13, <1>14, <1>16, <1>17

\* The duration is the time between the first packet and the last in order.
LEMMA DurationOrdered ==
  ASSUME NEW N \in Nat \ {0}, NEW f, Times(f) \in [1..N -> Int], NEW o, o = Ordered(Times(f))
  PROVE  Duration(f) = o[N] - o[1]
<1> DEFINE times == Times(f)
           all == ToSet(times)
<1>1. InOrder(o, N) /\ SameTimes(o, times, N)
  BY OrderedSorts
<1>2. \A u : u \in all <=> \E k \in 1..N : u = times[k]
  BY DEF ToSet
<1>3. \A u : u \in all <=> \E i \in 1..N : u = o[i]
  <2> HIDE DEF all, times
  <2>1. /\ \A i \in 1..N : \E k \in 1..N : o[i] = times[k]
        /\ \A k \in 1..N : \E i \in 1..N : o[i] = times[k]
    BY <1>1 DEF SameTimes
  <2>2. ASSUME NEW u, u \in all PROVE \E i \in 1..N : u = o[i]
    <3>1. PICK k \in 1..N : u = times[k]
      BY <1>2, <2>2
    <3> QED BY <2>1, <3>1
  <2>3. ASSUME NEW u, \E i \in 1..N : u = o[i] PROVE u \in all
    <3>1. PICK i \in 1..N : u = o[i]
      BY <2>3
    <3>2. PICK k \in 1..N : o[i] = times[k]
      BY <2>1
    <3>3. u = times[k]
      BY <3>1, <3>2
    <3> QED BY <1>2, <3>3
  <2> QED BY <2>2, <2>3
<1>4. /\ 1 \in 1..N /\ N \in 1..N /\ o[1] \in Int /\ o[N] \in Int
      /\ \A i \in 1..N : o[i] \in Int /\ o[1] <= o[i] /\ o[i] <= o[N]
  <2>1. 1 \in 1..N /\ N \in 1..N /\ \A i \in 1..N : o[i] \in Int
    BY <1>1 DEF InOrder
  <2>2. \A i \in 1..N : (i = 1 \/ 1 < i) /\ (i = N \/ i < N)
    OBVIOUS
  <2>3. \A i, j \in 1..N : i < j => o[i] <= o[j]
    BY <1>1 DEF InOrder
  <2>4. ASSUME NEW i \in 1..N PROVE o[1] <= o[i] /\ o[i] <= o[N]
    <3>1. o[1] <= o[i]
      BY <2>1, <2>2, <2>3
    <3>2. o[i] <= o[N]
      BY <2>1, <2>2, <2>3
    <3> QED BY <3>1, <3>2
  <2> QED BY <2>1, <2>4
<1> HIDE DEF all
<1>5. \A u \in all : u \in Int /\ o[1] <= u /\ u <= o[N]
  BY <1>3, <1>4
<1>6. o[1] \in all /\ o[N] \in all
  BY <1>3, <1>4
<1>7. First(f) = o[1]
  <2>1. First(f) = CHOOSE t \in all : \A u \in all : t <= u
    BY DEF First, all
  <2>2. First(f) \in all /\ \A u \in all : First(f) <= u
    BY <1>5, <1>6, <2>1
  <2> QED BY <1>5, <1>6, <2>2
<1>8. Latest(f) = o[N]
  <2>1. Latest(f) = CHOOSE t \in all : \A u \in all : t >= u
    BY DEF Latest, all
  <2>2. \A u \in all : o[N] >= u
    BY <1>4, <1>5
  <2>3. Latest(f) \in all /\ \A u \in all : Latest(f) >= u
    BY <1>6, <2>1, <2>2
  <2>4. Latest(f) >= o[N] /\ Latest(f) <= o[N] /\ Latest(f) \in Int
    BY <1>5, <1>6, <2>3
  <2> QED BY <1>4, <2>4
<1>9. o[1] <= o[N]
  BY <1>4
<1> QED BY <1>4, <1>7, <1>8, <1>9 DEF Duration, AtLeastZero

LEMMA FlowTimes ==
  ASSUME WindowInv, NEW k \in 1..Len(flows)
  PROVE  \E n \in Nat \ {0} : Times(flows[k]) \in [1..n -> Int]
<1> DEFINE f == flows[k]
           n == Len(f.packets)
<1>1. FlowSound(f, read) /\ read \in 0..Len(setup.packets) /\ setup.packets \in Seq(Frames)
  BY DEF WindowInv, FlowsSound
<1>2. f.packets \in Seq(Nat) /\ n >= 1
  BY <1>1 DEF FlowSound, FlowRecords
<1>3. n \in Nat \ {0} /\ DOMAIN f.packets = 1..n
  BY <1>2
<1>4. \A m \in 1..read : Packet(m).time \in Int
  <2> TAKE m \in 1..read
  <2>1. m \in 1..Len(setup.packets)
    BY <1>1, LenProperties
  <2>2. setup.packets[m] \in Frames
    BY <1>1, <2>1, ElementOfSeq
  <2> QED BY <2>2 DEF Packet, Frames
<1>5. \A i \in 1..n : f.packets[i] \in 1..read
  BY <1>1 DEF FlowSound
<1>6. Times(f) = [i \in 1..n |-> Packet(f.packets[i]).time]
  BY <1>3 DEF Times
<1> HIDE DEF n, f
<1>7. Times(f) \in [1..n -> Int]
  BY <1>4, <1>5, <1>6
<1> QED BY <1>3, <1>7 DEF f

\* The time of every flow is split without a gap or an overlap (_intervals,
\* _split_active_idle_periods, first_timestamp, last_timestamp), whatever the order its
\* packets were captured in.
LEMMA TimesSplit == ASSUME WindowInv PROVE TimeIsSplit
<1>1. Len(flows) \in Nat /\ DOMAIN flows = 1..Len(flows)
  BY OfAnything DEF WindowInv, FlowsSound
<1>2. ASSUME NEW k \in 1..Len(flows)
      PROVE  LET times == Times(flows[k])
                 duration == Duration(flows[k])
                 periods == Periods(times)
             IN  /\ Total(Intervals(times)) = duration
                 /\ Total(periods.active) + Total(periods.idle) = duration
                 /\ \A j \in DOMAIN periods.idle : periods.idle[j] > Gap
  <2> DEFINE times == Times(flows[k])
             o == Ordered(times)
  <2>1. PICK n \in Nat \ {0} : times \in [1..n -> Int]
    BY FlowTimes
  <2> HIDE DEF o
  <2>2. o = Ordered(times)
    BY DEF o
  <2>3. Duration(flows[k]) = o[n] - o[1]
    BY <2>1, <2>2, DurationOrdered
  <2> HIDE DEF times
  <2>4. Total(Intervals(times)) = o[n] - o[1]
    BY <2>1, <2>2, IntervalsAddUp
  <2>5. /\ Total(Periods(times).active) + Total(Periods(times).idle) = o[n] - o[1]
        /\ \A j \in DOMAIN Periods(times).idle : Periods(times).idle[j] > Gap
    BY <2>1, <2>2, PeriodsAddUp
  <2> QED BY <2>3, <2>4, <2>5 DEF times
<1> QED BY <1>1, <1>2 DEF TimeIsSplit

\* What reaches the scorer is the whole window: the extractor's flows are the
\* conversations of the capture, each one flow whatever direction its packets take
\* (_build_flows), with its time split into active and idle periods that make up its
\* duration; and the bridge hands on all of a window or nothing (bridge_window): as
\* many adapted records as the capture holds conversations when the extractor
\* succeeded and the profiles agree, none and an error when it did not.
THEOREM WindowsAreWhole == FairSpec => []WindowIsWhole
<1>1. FairSpec => []WindowInv
  BY PipelineSound, WindowStarts, WindowKeeps, PTL DEF FairSpec
<1>2. WindowInv => WindowIsWhole
  <2>1. WindowInv => read \in Nat /\ FlowsSound(flows, read)
    BY LenProperties DEF WindowInv
  <2> QED
    BY <2>1, SoundFlows, TimesSplit DEF WindowInv, WindowIsWhole
<1> QED
  BY <1>1, <1>2, PTL

-----------------------------------------------------------------------------
(***************************************************************************)
(* The outputs of the command line.  A promotion works off a plan: `todo`   *)
(* is what is left of it.  The order of the plan, as a rank of its steps,   *)
(* says of each step what must have been done before it.                    *)
(***************************************************************************)
Planned == {"reserve", "aside", "note", "replace", "record"}
Undoing == {"restore", "remove", "untemp"}
Operations == Planned \cup Undoing \cup {"discard"}
Steps == Operations \X Sinks

Has(steps, step) == \E i \in 1..Len(steps) : steps[i] = step
Pending(op, o) == Has(todo, <<op, o>>)

\* The place of a step in the plan of a promotion: the old outputs are renamed
\* aside one after the other, then the new ones are moved into place.
Rank(step) ==
    LET second == IF step[2] = "quarantine" THEN 1 ELSE 0
    IN  CASE step[1] = "reserve" -> 1 + 3 * second
          [] step[1] = "aside"   -> 2 + 3 * second
          [] step[1] = "note"    -> 3 + 3 * second
          [] step[1] = "replace" -> 7 + 2 * second
          [] step[1] = "record"  -> 8 + 2 * second
          [] OTHER -> 0

Ascending(steps) == \A i, j \in 1..Len(steps) : i < j => Rank(steps[i]) < Rank(steps[j])

InPlan(op, o) == op \in {"replace", "record"} \/ (op \in {"reserve", "aside", "note"} /\ o \in had)

Found(o) == IF o \in had THEN "old" ELSE "absent"
AsFound == \A o \in Sinks : sink[o] = Found(o)
NoBackup == \A o \in Sinks : backup[o] = "none"
Kept == \A o \in had : sink[o] = "old" \/ backup[o] = "old"
Replaced == \A o \in Sinks : sink[o] = "new"

FilesTyped ==
    /\ had \subseteq Sinks /\ noted \subseteq had /\ moved \subseteq Sinks /\ temp \subseteq Sinks
    /\ sink \in [Sinks -> {"old", "new", "absent"}]
    /\ backup \in [Sinks -> {"none", "reserved", "old"}]
    /\ todo \in Seq(Steps)

\* Before the input has ended nothing but temporary files has changed.
Unmoved == AsFound /\ NoBackup /\ todo = <<>> /\ noted = {} /\ moved = {}

\* What is left of a promotion is an end of its plan, and what was done of it shows.
Promoting ==
    /\ Ascending(todo)
    /\ \A op \in Operations, o \in Sinks : Pending(op, o) => op \in Planned /\ InPlan(op, o)
    /\ todo # <<>> => \A op \in Planned, o \in Sinks :
         InPlan(op, o) /\ Rank(Head(todo)) < Rank(<<op, o>>) => Pending(op, o)
    /\ \A o \in had : /\ IF Pending("aside", o) THEN sink[o] = "old" ELSE backup[o] = "old"
                      /\ o \in noted \/ Pending("note", o)
    /\ \A o \in Sinks \ had : backup[o] = "none" /\ (Pending("replace", o) => sink[o] = "absent")
    /\ \A o \in Sinks : /\ Pending("replace", o) \/ (sink[o] = "new" /\ o \notin temp)
                        /\ o \in moved <=> ~Pending("record", o)

\* Whatever is not as it was found will be, unless the recovery stumbled.
Recovering ==
    /\ \A op \in Operations, o \in Sinks : Pending(op, o) =>
         /\ op \in Undoing
         /\ op = "restore" => o \in had
         /\ op = "remove" => o \notin had
    /\ Kept
    /\ ~excused => \A o \in Sinks :
         /\ sink[o] = Found(o) \/ Pending("restore", o) \/ Pending("remove", o)
         /\ o \in temp => Pending("untemp", o)

Cleaning ==
    /\ Replaced /\ temp = {}
    /\ \A op \in Operations, o \in Sinks : Pending(op, o) => op = "discard"
    /\ \A o \in Sinks : backup[o] = "none" \/ Pending("discard", o)

Stages == {"opening", "unopened", "reading", "promoting", "cleaning", "recovering", "done",
           "failed", "killed", "bridging"}

OutputInv ==
    /\ FilesTyped /\ apc \in Stages
    /\ apc = "opening" => Unmoved /\ temp = {}
    /\ mode = "file" =>
         /\ apc # "bridging"
         /\ apc = "reading" => Unmoved
         /\ apc = "promoting" => Promoting
         /\ apc = "recovering" => Recovering
         /\ apc = "cleaning" => Cleaning
         /\ apc \in {"unopened", "failed", "killed"} => Kept \/ Replaced
    /\ mode # "file" => apc \notin {"promoting", "recovering", "cleaning"}
    /\ mode = "file" => SuccessIsClean
    /\ FailureUndoes

-----------------------------------------------------------------------------
LEMMA TailHas ==
    ASSUME NEW s \in Seq(Steps), s # <<>>
    PROVE  /\ Head(s) \in Steps /\ Tail(s) \in Seq(Steps)
           /\ \A x : Has(s, x) <=> x = Head(s) \/ Has(Tail(s), x)
           /\ Ascending(s) => /\ Ascending(Tail(s))
                              /\ \A x : Has(Tail(s), x) => Rank(Head(s)) < Rank(x)
<1>1. /\ Head(s) \in Steps /\ Tail(s) \in Seq(Steps) /\ Len(Tail(s)) = Len(s) - 1
      /\ \A i \in 1..Len(Tail(s)) : Tail(s)[i] = s[i + 1]
  BY HeadTailProperties
<1>2. Len(s) \in Nat /\ Len(s) # 0 /\ Head(s) = s[1]
  BY LenProperties, EmptySeq
<1>3. ASSUME NEW x, Has(s, x) PROVE x = Head(s) \/ Has(Tail(s), x)
  <2>1. PICK i \in 1..Len(s) : s[i] = x
    BY <1>3 DEF Has
  <2>2. CASE i = 1
    BY <1>2, <2>1, <2>2
  <2>3. CASE i # 1
    <3>1. i - 1 \in 1..Len(Tail(s)) /\ Tail(s)[i - 1] = s[i]
      BY <1>1, <1>2, <2>3
    <3> QED
      BY <2>1, <3>1 DEF Has
  <2> QED
    BY <2>2, <2>3
<1>4. ASSUME NEW x, x = Head(s) \/ Has(Tail(s), x) PROVE Has(s, x)
  <2>1. CASE x = Head(s)
    <3>1. 1 \in 1..Len(s)
      BY <1>2
    <3> QED
      BY <1>2, <2>1, <3>1 DEF Has
  <2>2. CASE Has(Tail(s), x)
    <3>1. PICK i \in 1..Len(Tail(s)) : Tail(s)[i] = x
      BY <2>2 DEF Has
    <3>2. i + 1 \in 1..Len(s) /\ s[i + 1] = x
      BY <1>1, <1>2, <3>1
    <3> QED
      BY <3>2 DEF Has
  <2> QED
    BY <1>4, <2>1, <2>2
<1>5. ASSUME Ascending(s) PROVE Ascending(Tail(s))
  <2> SUFFICES ASSUME NEW i \in 1..Len(Tail(s)), NEW j \in 1..Len(Tail(s)), i < j
               PROVE  Rank(Tail(s)[i]) < Rank(Tail(s)[j])
    BY DEF Ascending
  <2>1. i + 1 \in 1..Len(s) /\ j + 1 \in 1..Len(s) /\ i + 1 < j + 1
    BY <1>1, <1>2
  <2>2. Rank(s[i + 1]) < Rank(s[j + 1])
    BY <1>5, <2>1 DEF Ascending
  <2> QED
    BY <1>1, <2>2
<1>6. ASSUME Ascending(s), NEW x, Has(Tail(s), x) PROVE Rank(Head(s)) < Rank(x)
  <2>1. PICK i \in 1..Len(Tail(s)) : Tail(s)[i] = x
    BY <1>6 DEF Has
  <2>2. 1 \in 1..Len(s) /\ i + 1 \in 1..Len(s) /\ 1 < i + 1 /\ s[i + 1] = x
    BY <1>1, <1>2, <2>1
  <2>3. Rank(s[1]) < Rank(s[i + 1])
    BY <1>6, <2>2 DEF Ascending
  <2> QED
    BY <1>2, <2>2, <2>3
<1> QED
  BY <1>1, <1>3, <1>4, <1>5, <1>6

LEMMA EmptyHas == \A x : ~Has(<<>>, x)
BY EmptySeq DEF Has

LEMMA ConcatHas ==
    ASSUME NEW s \in Seq(Steps), NEW t \in Seq(Steps)
    PROVE  /\ s \o t \in Seq(Steps)
           /\ \A x : Has(s \o t, x) <=> Has(s, x) \/ Has(t, x)
<1> DEFINE st == s \o t
<1>1. /\ st \in Seq(Steps) /\ Len(st) = Len(s) + Len(t)
      /\ \A i \in 1..Len(s) + Len(t) : st[i] = IF i <= Len(s) THEN s[i] ELSE t[i - Len(s)]
  BY ConcatProperties
<1>2. Len(s) \in Nat /\ Len(t) \in Nat
  BY LenProperties
<1> HIDE DEF st
<1>3. ASSUME NEW x, Has(st, x) PROVE Has(s, x) \/ Has(t, x)
  <2>1. PICK i \in 1..Len(st) : st[i] = x
    BY <1>3 DEF Has
  <2>2. CASE i <= Len(s)
    <3>1. i \in 1..Len(s) /\ s[i] = x
      BY <1>1, <1>2, <2>1, <2>2
    <3> QED
      BY <3>1 DEF Has
  <2>3. CASE ~(i <= Len(s))
    <3>1. i - Len(s) \in 1..Len(t) /\ t[i - Len(s)] = x
      BY <1>1, <1>2, <2>1, <2>3
    <3> QED
      BY <3>1 DEF Has
  <2> QED
    BY <2>2, <2>3
<1>4. ASSUME NEW x, Has(s, x) PROVE Has(st, x)
  <2>1. PICK i \in 1..Len(s) : s[i] = x
    BY <1>4 DEF Has
  <2>2. i \in 1..Len(st) /\ st[i] = x
    BY <1>1, <1>2, <2>1
  <2> QED
    BY <2>2 DEF Has
<1>5. ASSUME NEW x, Has(t, x) PROVE Has(st, x)
  <2>1. PICK i \in 1..Len(t) : t[i] = x
    BY <1>5 DEF Has
  <2> DEFINE n == i + Len(s)
  <2>2. n \in 1..Len(s) + Len(t) /\ ~(n <= Len(s)) /\ n - Len(s) = i
    BY <1>2
  <2> HIDE DEF n
  <2>3. n \in 1..Len(st) /\ st[n] = t[i]
    BY <1>1, <2>2
  <2> QED
    BY <2>1, <2>3 DEF Has
<1> QED
  BY <1>1, <1>3, <1>4, <1>5 DEF st

LEMMA ConcatAscends ==
    ASSUME NEW s \in Seq(Steps), NEW t \in Seq(Steps), Ascending(s), Ascending(t),
           \A x, y : Has(s, x) /\ Has(t, y) => Rank(x) < Rank(y)
    PROVE  Ascending(s \o t)
<1> DEFINE st == s \o t
<1>1. /\ Len(st) = Len(s) + Len(t)
      /\ \A i \in 1..Len(s) + Len(t) : st[i] = IF i <= Len(s) THEN s[i] ELSE t[i - Len(s)]
  BY ConcatProperties
<1>2. Len(s) \in Nat /\ Len(t) \in Nat
  BY LenProperties
<1> HIDE DEF st
<1> SUFFICES ASSUME NEW i \in 1..Len(st), NEW j \in 1..Len(st), i < j
             PROVE  Rank(st[i]) < Rank(st[j])
  BY DEF Ascending, st
<1>3. CASE j <= Len(s)
  <2>1. i \in 1..Len(s) /\ j \in 1..Len(s) /\ st[i] = s[i] /\ st[j] = s[j]
    BY <1>1, <1>2, <1>3
  <2> QED
    BY <2>1 DEF Ascending
<1>4. CASE i <= Len(s) /\ ~(j <= Len(s))
  <2>1. i \in 1..Len(s) /\ j - Len(s) \in 1..Len(t) /\ st[i] = s[i] /\ st[j] = t[j - Len(s)]
    BY <1>1, <1>2, <1>4
  <2>2. Has(s, s[i]) /\ Has(t, t[j - Len(s)])
    BY <2>1 DEF Has
  <2> QED
    BY <2>1, <2>2
<1>5. CASE ~(i <= Len(s))
  <2>1. /\ i - Len(s) \in 1..Len(t) /\ j - Len(s) \in 1..Len(t) /\ i - Len(s) < j - Len(s)
        /\ st[i] = t[i - Len(s)] /\ st[j] = t[j - Len(s)]
    BY <1>1, <1>2, <1>5
  <2> QED
    BY <2>1 DEF Ascending
<1> QED
  BY <1>2, <1>3, <1>4, <1>5

LEMMA SwapHas ==
    ASSUME NEW s \in Seq(Steps)
    PROVE  Swap(s) \in Seq(Steps) /\ \A x : Has(Swap(s), x) <=> Has(s, x)
<1> DEFINE w == Swap(s)
<1>1. Len(s) \in Nat /\ DOMAIN s = 1..Len(s) /\ \A i \in 1..Len(s) : s[i] \in Steps
  BY LenProperties, ElementOfSeq
<1>2. w = [k \in 1..Len(s) |-> s[Len(s) + 1 - k]]
  BY <1>1 DEF Swap
<1>3. \A k \in 1..Len(s) : Len(s) + 1 - k \in 1..Len(s) /\ w[k] = s[Len(s) + 1 - k]
  BY <1>1, <1>2
<1>4. w \in [1..Len(s) -> Steps]
  BY <1>1, <1>2, <1>3
<1>5. w \in Seq(Steps) /\ Len(w) = Len(s)
  BY <1>1, <1>4
<1> HIDE DEF w
<1>6. ASSUME NEW x, Has(w, x) PROVE Has(s, x)
  <2>1. PICK k \in 1..Len(s) : w[k] = x
    BY <1>5, <1>6 DEF Has
  <2> QED
    BY <1>3, <2>1 DEF Has
<1>7. ASSUME NEW x, Has(s, x) PROVE Has(w, x)
  <2>1. PICK k \in 1..Len(s) : s[k] = x
    BY <1>7 DEF Has
  <2>2. Len(s) + 1 - k \in 1..Len(s) /\ w[Len(s) + 1 - k] = s[Len(s) + 1 - (Len(s) + 1 - k)]
    BY <1>1, <1>3
  <2>3. Len(s) + 1 - (Len(s) + 1 - k) = k
    BY <1>1
  <2> QED
    BY <1>5, <2>1, <2>2, <2>3 DEF Has
<1> QED
  BY <1>5, <1>6, <1>7 DEF w

\* The steps for one sink.
StepsOf(S, ops, o) == IF o \in S THEN [k \in DOMAIN ops |-> <<ops[k], o>>] ELSE <<>>

LEMMA StepsOfHas ==
    ASSUME NEW S, NEW ops \in Seq(Operations), NEW o \in Sinks
    PROVE  /\ StepsOf(S, ops, o) \in Seq(Steps)
           /\ \A op, q : Has(StepsOf(S, ops, o), <<op, q>>)
                           <=> q = o /\ o \in S /\ \E k \in 1..Len(ops) : ops[k] = op
<1>1. Len(ops) \in Nat /\ DOMAIN ops = 1..Len(ops) /\ \A k \in 1..Len(ops) : ops[k] \in Operations
  BY LenProperties, ElementOfSeq
<1>2. CASE o \notin S
  <2>1. StepsOf(S, ops, o) = <<>>
    BY <1>2 DEF StepsOf
  <2> QED
    BY <1>2, <2>1, EmptyHas, EmptySeq
<1>3. CASE o \in S
  <2> DEFINE f == [k \in 1..Len(ops) |-> <<ops[k], o>>]
  <2>1. StepsOf(S, ops, o) = f
    BY <1>1, <1>3 DEF StepsOf
  <2>2. f \in [1..Len(ops) -> Steps] /\ \A k \in 1..Len(ops) : f[k] = <<ops[k], o>>
    BY <1>1 DEF Steps
  <2> HIDE DEF f
  <2>3. f \in Seq(Steps) /\ Len(f) = Len(ops)
    BY <1>1, <2>2
  <2>4. \A op, q : Has(f, <<op, q>>) <=> q = o /\ \E k \in 1..Len(ops) : ops[k] = op
    BY <2>2, <2>3 DEF Has
  <2> QED
    BY <1>3, <2>1, <2>3, <2>4
<1> QED
  BY <1>2, <1>3

LEMMA EachHas ==
    ASSUME NEW S, NEW ops \in Seq(Operations), S \subseteq Sinks
    PROVE  /\ Each(S, ops) \in Seq(Steps)
           /\ \A op, o : Has(Each(S, ops), <<op, o>>)
                           <=> o \in S /\ \E k \in 1..Len(ops) : ops[k] = op
<1> DEFINE a == StepsOf(S, ops, "adapted")
           q == StepsOf(S, ops, "quarantine")
<1>1. Each(S, ops) = a \o q
  BY DEF Each, StepsOf
<1>2. /\ a \in Seq(Steps) /\ q \in Seq(Steps)
      /\ \A op, o : Has(a, <<op, o>>)
           <=> o = "adapted" /\ o \in S /\ \E k \in 1..Len(ops) : ops[k] = op
      /\ \A op, o : Has(q, <<op, o>>)
           <=> o = "quarantine" /\ o \in S /\ \E k \in 1..Len(ops) : ops[k] = op
  <2>1. "adapted" \in Sinks /\ "quarantine" \in Sinks
    BY DEF Sinks
  <2>2. /\ a \in Seq(Steps)
        /\ \A op, o : Has(a, <<op, o>>)
             <=> o = "adapted" /\ "adapted" \in S /\ \E k \in 1..Len(ops) : ops[k] = op
    BY <2>1, StepsOfHas
  <2>3. /\ q \in Seq(Steps)
        /\ \A op, o : Has(q, <<op, o>>)
             <=> o = "quarantine" /\ "quarantine" \in S /\ \E k \in 1..Len(ops) : ops[k] = op
    BY <2>1, StepsOfHas
  <2> HIDE DEF a, q
  <2> QED
    BY <2>2, <2>3
<1> HIDE DEF a, q
<1>3. a \o q \in Seq(Steps) /\ \A x : Has(a \o q, x) <=> Has(a, x) \/ Has(q, x)
  BY <1>2, ConcatHas
<1>4. \A o \in S : o = "adapted" \/ o = "quarantine"
  BY DEF Sinks
<1> QED
  BY <1>1, <1>2, <1>3, <1>4

LEMMA OpsHave ==
    /\ <<"reserve", "aside", "note">> \in Seq(Operations) /\ <<"replace", "record">> \in Seq(Operations)
    /\ \A op : /\ (\E k \in 1..Len(<<"reserve", "aside", "note">>) :
                     <<"reserve", "aside", "note">>[k] = op) <=> op \in {"reserve", "aside", "note"}
               /\ (\E k \in 1..Len(<<"replace", "record">>) :
                     <<"replace", "record">>[k] = op) <=> op \in {"replace", "record"}
    /\ \A only \in Operations : \A op :
         /\ <<only>> \in Seq(Operations)
         /\ (\E k \in 1..Len(<<only>>) : <<only>>[k] = op) <=> op = only
BY DEF Operations, Planned, Undoing

LEMMA RankOrder ==
    /\ \A op \in Planned, o \in Sinks : Rank(<<op, o>>) \in Nat
    /\ \A o \in Sinks :
         /\ Rank(<<"reserve", o>>) < Rank(<<"aside", o>>)
         /\ Rank(<<"note", o>>) = Rank(<<"aside", o>>) + 1
         /\ Rank(<<"record", o>>) = Rank(<<"replace", o>>) + 1
         /\ \A q \in Sinks : Rank(<<"note", o>>) < Rank(<<"replace", q>>)
    /\ \A op1, op2 \in Planned, o, q \in Sinks :
         Rank(<<op1, o>>) = Rank(<<op2, q>>) => op1 = op2 /\ o = q
<1> DEFINE second(o) == IF o = "quarantine" THEN 1 ELSE 0
<1>1. \A o : /\ Rank(<<"reserve", o>>) = 1 + 3 * second(o)
             /\ Rank(<<"aside", o>>) = 2 + 3 * second(o)
             /\ Rank(<<"note", o>>) = 3 + 3 * second(o)
             /\ Rank(<<"replace", o>>) = 7 + 2 * second(o)
             /\ Rank(<<"record", o>>) = 8 + 2 * second(o)
  BY DEF Rank
<1>2. \A o, q \in Sinks : second(o) \in {0, 1} /\ (second(o) = second(q) => o = q)
  BY DEF Sinks
<1> HIDE DEF second
<1>3. \A op \in Planned : op \in {"reserve", "aside", "note", "replace", "record"}
  BY DEF Planned
<1>4. \A op \in Planned, o \in Sinks : Rank(<<op, o>>) \in Nat
  BY <1>1, <1>2, <1>3
<1>5. ASSUME NEW op1 \in Planned, NEW op2 \in Planned, NEW o \in Sinks, NEW q \in Sinks,
             Rank(<<op1, o>>) = Rank(<<op2, q>>)
      PROVE  op1 = op2 /\ o = q
  <2>1. second(o) \in {0, 1} /\ second(q) \in {0, 1} /\ (second(o) = second(q) => o = q)
    BY <1>2
  <2>2. CASE op1 = "reserve"
    BY <1>1, <1>3, <1>5, <2>1, <2>2
  <2>3. CASE op1 = "aside"
    BY <1>1, <1>3, <1>5, <2>1, <2>3
  <2>4. CASE op1 = "note"
    BY <1>1, <1>3, <1>5, <2>1, <2>4
  <2>5. CASE op1 = "replace"
    BY <1>1, <1>3, <1>5, <2>1, <2>5
  <2>6. CASE op1 = "record"
    BY <1>1, <1>3, <1>5, <2>1, <2>6
  <2> QED
    BY <1>3, <2>2, <2>3, <2>4, <2>5, <2>6
<1>6. ASSUME NEW o \in Sinks
      PROVE  /\ Rank(<<"reserve", o>>) < Rank(<<"aside", o>>)
             /\ Rank(<<"note", o>>) = Rank(<<"aside", o>>) + 1
             /\ Rank(<<"record", o>>) = Rank(<<"replace", o>>) + 1
             /\ \A q \in Sinks : Rank(<<"note", o>>) < Rank(<<"replace", q>>)
  BY <1>1, <1>2
<1> QED
  BY <1>4, <1>5, <1>6

LEMMA StepIsPair == \A s \in Steps : \E op \in Operations, o \in Sinks : s = <<op, o>>
BY DEF Steps

\* A step is taken off what is left to do.
LEMMA Popped ==
    ASSUME FilesTyped, todo # <<>>, todo' = Tail(todo)
    PROVE  /\ Head(todo) = <<Head(todo)[1], Head(todo)[2]>>
           /\ Head(todo)[1] \in Operations /\ Head(todo)[2] \in Sinks
           /\ todo' \in Seq(Steps)
           /\ \A op, o : Pending(op, o) <=> (op = Head(todo)[1] /\ o = Head(todo)[2]) \/ Pending(op, o)'
           /\ Ascending(todo) =>
                /\ Ascending(todo')
                /\ \A op, o : Pending(op, o)' => Rank(Head(todo)) < Rank(<<op, o>>)
<1>1. todo \in Seq(Steps)
  BY DEF FilesTyped
<1>2. /\ Head(todo) \in Steps /\ Tail(todo) \in Seq(Steps)
      /\ \A x : Has(todo, x) <=> x = Head(todo) \/ Has(Tail(todo), x)
      /\ Ascending(todo) => /\ Ascending(Tail(todo))
                            /\ \A x : Has(Tail(todo), x) => Rank(Head(todo)) < Rank(x)
  BY <1>1, TailHas
<1>3. PICK h \in Operations, p \in Sinks : Head(todo) = <<h, p>>
  BY <1>2 DEF Steps
<1>4. Head(todo)[1] = h /\ Head(todo)[2] = p
  BY <1>3
<1>5. \A op, o : Pending(op, o)' <=> Has(Tail(todo), <<op, o>>)
  BY DEF Pending, Has
<1>6. \A op, o : Pending(op, o) <=> Has(todo, <<op, o>>)
  BY DEF Pending
<1>7. /\ Head(todo) = <<Head(todo)[1], Head(todo)[2]>>
      /\ Head(todo)[1] \in Operations /\ Head(todo)[2] \in Sinks
      /\ \A op, o : <<op, o>> = Head(todo) <=> op = Head(todo)[1] /\ o = Head(todo)[2]
  BY <1>3, <1>4
<1>8. \A op, o : Pending(op, o) <=> (op = Head(todo)[1] /\ o = Head(todo)[2]) \/ Pending(op, o)'
  BY <1>2, <1>5, <1>6, <1>7
<1>9. ASSUME Ascending(todo) PROVE \A op, o : Pending(op, o)' => Rank(Head(todo)) < Rank(<<op, o>>)
  BY <1>2, <1>5, <1>9
<1> QED
  BY <1>2, <1>7, <1>8, <1>9

\* What the order of the plan says of the step at its head.
LEMMA NextInPlan ==
    ASSUME FilesTyped, Promoting, todo # <<>>
    PROVE  LET h == Head(todo)[1]
               p == Head(todo)[2]
           IN  /\ h \in Planned /\ p \in Sinks /\ InPlan(h, p) /\ Pending(h, p)
               /\ Rank(Head(todo)) = Rank(<<h, p>>)
               /\ \A op \in Planned, o \in Sinks :
                    /\ InPlan(op, o) /\ Rank(<<h, p>>) < Rank(<<op, o>>) => Pending(op, o)
                    /\ Pending(op, o) => (op = h /\ o = p) \/ Rank(<<h, p>>) < Rank(<<op, o>>)
<1>1. /\ Head(todo) \in Steps
      /\ \A x : Has(todo, x) <=> x = Head(todo) \/ Has(Tail(todo), x)
      /\ \A x : Has(Tail(todo), x) => Rank(Head(todo)) < Rank(x)
  BY TailHas DEF FilesTyped, Promoting
<1>2. PICK h \in Operations, p \in Sinks : Head(todo) = <<h, p>>
  BY <1>1 DEF Steps
<1>3. Head(todo)[1] = h /\ Head(todo)[2] = p
  BY <1>2
<1>4. Pending(h, p) /\ Rank(Head(todo)) = Rank(<<h, p>>)
  BY <1>1, <1>2 DEF Pending
<1>5. h \in Planned /\ InPlan(h, p)
  BY <1>4 DEF Promoting
<1>6. \A op \in Planned, o \in Sinks :
        InPlan(op, o) /\ Rank(<<h, p>>) < Rank(<<op, o>>) => Pending(op, o)
  BY <1>4 DEF Promoting
<1>7. \A op, o : Pending(op, o) => (op = h /\ o = p) \/ Rank(<<h, p>>) < Rank(<<op, o>>)
  BY <1>1, <1>2, <1>4 DEF Pending
<1> QED
  BY <1>3, <1>4, <1>5, <1>6, <1>7

\* Working off a plan leaves an end of it.
LEMMA PlanPops ==
    ASSUME FilesTyped, Promoting, todo # <<>>, todo' = Tail(todo), had' = had
    PROVE  /\ Ascending(todo')
           /\ \A op \in Operations, o \in Sinks :
                Pending(op, o)' => op \in Planned /\ InPlan(op, o)'
           /\ todo' # <<>> => \A op \in Planned, o \in Sinks :
                InPlan(op, o)' /\ Rank(Head(todo')) < Rank(<<op, o>>) => Pending(op, o)'
           /\ \A op, o : IF op = Head(todo)[1] /\ o = Head(todo)[2]
                         THEN ~Pending(op, o)' ELSE Pending(op, o)' <=> Pending(op, o)
<1>0. PICK h \in Operations, p \in Sinks : h = Head(todo)[1] /\ p = Head(todo)[2]
  BY Popped
<1>1. /\ h \in Operations /\ p \in Sinks /\ todo' \in Seq(Steps)
      /\ \A op, o : Pending(op, o) <=> (op = h /\ o = p) \/ Pending(op, o)'
      /\ Ascending(todo')
      /\ \A op, o : Pending(op, o)' => Rank(Head(todo)) < Rank(<<op, o>>)
  BY <1>0, Popped DEF Promoting
<1>2. /\ h \in Planned /\ Rank(Head(todo)) = Rank(<<h, p>>)
      /\ \A op \in Planned, o \in Sinks :
           InPlan(op, o) /\ Rank(<<h, p>>) < Rank(<<op, o>>) => Pending(op, o)
  BY <1>0, NextInPlan
<1>3. \A op, o : InPlan(op, o)' <=> InPlan(op, o)
  BY DEF InPlan
<1>4. Rank(<<h, p>>) \in Nat
  BY <1>1, <1>2, RankOrder
<1>5. ~Pending(h, p)'
  <2>1. Pending(h, p)' => Rank(Head(todo)) < Rank(<<h, p>>)
    BY <1>1
  <2>2. ~(Rank(<<h, p>>) < Rank(<<h, p>>))
    BY <1>4
  <2> QED
    BY <1>2, <2>1, <2>2
<1>6. ASSUME todo' # <<>>, NEW op \in Planned, NEW o \in Sinks, InPlan(op, o),
             Rank(Head(todo')) < Rank(<<op, o>>)
      PROVE  Pending(op, o)'
  <2>1. Head(todo') \in Steps /\ Has(todo', Head(todo'))
    BY <1>1, <1>6, TailHas
  <2>2. PICK h2 \in Operations, p2 \in Sinks : Head(todo') = <<h2, p2>>
    BY <2>1, StepIsPair
  <2>3. Pending(h2, p2)'
    BY <2>1, <2>2 DEF Pending, Has
  <2>4. Rank(<<h, p>>) < Rank(<<h2, p2>>)
    BY <1>1, <1>2, <2>3
  <2>5. h2 \in Planned
    BY <1>1, <2>3 DEF Promoting
  <2>6. Rank(<<h2, p2>>) \in Nat /\ Rank(<<op, o>>) \in Nat
    BY <1>6, <2>2, <2>5, RankOrder
  <2>7. Rank(<<h, p>>) < Rank(<<op, o>>)
    <3> DEFINE a == Rank(<<h, p>>)
               b == Rank(<<h2, p2>>)
               c == Rank(<<op, o>>)
    <3>1. a \in Nat /\ b \in Nat /\ c \in Nat /\ a < b /\ b < c
      BY <1>4, <1>6, <2>2, <2>4, <2>6
    <3> HIDE DEF a, b, c
    <3>2. a < c
      BY <3>1
    <3> QED
      BY <3>2 DEF a, c
  <2>8. Pending(op, o) /\ ~(op = h /\ o = p)
    BY <1>2, <1>4, <1>6, <2>7
  <2> QED
    BY <1>1, <2>8
<1>7. \A op \in Operations, o \in Sinks : Pending(op, o)' => op \in Planned /\ InPlan(op, o)'
  BY <1>1, <1>3 DEF Promoting
<1> QED
  BY <1>0, <1>1, <1>3, <1>5, <1>6, <1>7

\* A promotion takes its next step.
LEMMA PromotionGoesOn ==
    ASSUME FilesTyped, Promoting, todo # <<>>, todo' = Tail(todo), had' = had,
           Do(Head(todo)[1], Head(todo)[2])
    PROVE  Promoting' /\ FilesTyped'
<1>0. PICK h \in Operations, p \in Sinks : h = Head(todo)[1] /\ p = Head(todo)[2]
  BY Popped
<1>1. /\ h \in Planned /\ InPlan(h, p) /\ Rank(<<h, p>>) \in Nat
      /\ \A op \in Planned, o \in Sinks :
           /\ InPlan(op, o) /\ Rank(<<h, p>>) < Rank(<<op, o>>) => Pending(op, o)
           /\ Pending(op, o) => (op = h /\ o = p) \/ Rank(<<h, p>>) < Rank(<<op, o>>)
  <2>1. h \in Planned /\ p \in Sinks
    BY <1>0, NextInPlan
  <2> QED
    BY <1>0, <2>1, NextInPlan, RankOrder
<1>2. /\ Ascending(todo')
      /\ \A op \in Operations, o \in Sinks : Pending(op, o)' => op \in Planned /\ InPlan(op, o)'
      /\ todo' # <<>> => \A op \in Planned, o \in Sinks :
           InPlan(op, o)' /\ Rank(Head(todo')) < Rank(<<op, o>>) => Pending(op, o)'
  BY PlanPops
<1>3. /\ \A op, o : ~(op = h /\ o = p) => (Pending(op, o)' <=> Pending(op, o))
      /\ ~Pending(h, p)'
  BY <1>0, PlanPops
<1>4. todo' \in Seq(Steps) /\ Do(h, p)
  BY <1>0, Popped
<1>5. /\ sink \in [Sinks -> {"old", "new", "absent"}] /\ backup \in [Sinks -> {"none", "reserved", "old"}]
      /\ had \subseteq Sinks /\ noted \subseteq had /\ moved \subseteq Sinks /\ temp \subseteq Sinks
  BY DEF FilesTyped
<1>6. /\ \A o \in had : /\ IF Pending("aside", o) THEN sink[o] = "old" ELSE backup[o] = "old"
                        /\ o \in noted \/ Pending("note", o)
      /\ \A o \in Sinks \ had : backup[o] = "none" /\ (Pending("replace", o) => sink[o] = "absent")
      /\ \A o \in Sinks : /\ Pending("replace", o) \/ (sink[o] = "new" /\ o \notin temp)
                          /\ o \in moved <=> ~Pending("record", o)
  BY DEF Promoting
<1> SUFFICES
      /\ noted' \subseteq had /\ moved' \subseteq Sinks /\ temp' \subseteq Sinks
      /\ sink' \in [Sinks -> {"old", "new", "absent"}]
      /\ backup' \in [Sinks -> {"none", "reserved", "old"}]
      /\ \A o \in had : /\ IF Pending("aside", o)' THEN sink'[o] = "old" ELSE backup'[o] = "old"
                        /\ o \in noted' \/ Pending("note", o)'
      /\ \A o \in Sinks \ had : backup'[o] = "none" /\ (Pending("replace", o)' => sink'[o] = "absent")
      /\ \A o \in Sinks : /\ Pending("replace", o)' \/ (sink'[o] = "new" /\ o \notin temp')
                          /\ o \in moved' <=> ~Pending("record", o)'
  BY <1>2, <1>4, <1>5 DEF Promoting, FilesTyped
<1>7. CASE h = "reserve"
  <2>1. /\ backup' = [backup EXCEPT ![p] = "reserved"] /\ UNCHANGED <<sink, temp, noted, moved>>
    BY <1>4, <1>7 DEF Do
  <2>2. p \in had
    BY <1>1, <1>7 DEF InPlan
  <2>3. Pending("aside", p)
    BY <1>1, <1>7, <2>2, RankOrder DEF InPlan, Planned
  <2>4. \A op, o : op # "reserve" => (Pending(op, o)' <=> Pending(op, o))
    BY <1>3, <1>7
  <2> QED
    BY <1>5, <1>6, <2>1, <2>2, <2>3, <2>4
<1>8. CASE h = "aside"
  <2>1. /\ backup' = [backup EXCEPT ![p] = "old"] /\ sink' = [sink EXCEPT ![p] = "absent"]
        /\ UNCHANGED <<temp, noted, moved>>
    BY <1>4, <1>8 DEF Do
  <2>2. p \in had
    BY <1>1, <1>8 DEF InPlan
  <2>3. Pending("replace", p)
    <3>1. /\ Rank(<<"note", p>>) = Rank(<<"aside", p>>) + 1
          /\ Rank(<<"note", p>>) < Rank(<<"replace", p>>)
          /\ Rank(<<"note", p>>) \in Nat /\ Rank(<<"aside", p>>) \in Nat
          /\ Rank(<<"replace", p>>) \in Nat
      BY RankOrder DEF Planned
    <3>2. Rank(<<"aside", p>>) < Rank(<<"replace", p>>)
      BY <3>1
    <3> QED
      BY <1>1, <1>8, <3>2 DEF InPlan, Planned
  <2>4. /\ \A op, o : op # "aside" => (Pending(op, o)' <=> Pending(op, o))
        /\ \A o : o # p => (Pending("aside", o)' <=> Pending("aside", o))
        /\ ~Pending("aside", p)'
    BY <1>3, <1>8
  <2> QED
    BY <1>5, <1>6, <2>1, <2>2, <2>3, <2>4
<1>9. CASE h = "note"
  <2>1. noted' = noted \cup {p} /\ UNCHANGED <<sink, temp, backup, moved>>
    BY <1>4, <1>9 DEF Do, sinkVars
  <2>2. p \in had
    BY <1>1, <1>9 DEF InPlan
  <2>3. /\ \A op, o : op # "note" => (Pending(op, o)' <=> Pending(op, o))
        /\ \A o : o # p => (Pending("note", o)' <=> Pending("note", o))
    BY <1>3, <1>9
  <2> QED
    BY <1>5, <1>6, <2>1, <2>2, <2>3
<1>10. CASE h = "replace"
  <2>1. /\ sink' = [sink EXCEPT ![p] = "new"] /\ temp' = temp \ {p}
        /\ UNCHANGED <<backup, noted, moved>>
    BY <1>4, <1>10 DEF Do
  <2>2. ~Pending("aside", p)
    <3>1. /\ Rank(<<"note", p>>) = Rank(<<"aside", p>>) + 1
          /\ Rank(<<"note", p>>) < Rank(<<"replace", p>>)
          /\ Rank(<<"note", p>>) \in Nat /\ Rank(<<"aside", p>>) \in Nat
          /\ Rank(<<"replace", p>>) \in Nat
      BY RankOrder DEF Planned
    <3>2. ~(Rank(<<"replace", p>>) < Rank(<<"aside", p>>))
      BY <3>1
    <3> QED
      BY <1>1, <1>10, <3>2 DEF Planned
  <2>3. /\ \A op, o : op # "replace" => (Pending(op, o)' <=> Pending(op, o))
        /\ \A o : o # p => (Pending("replace", o)' <=> Pending("replace", o))
        /\ ~Pending("replace", p)'
    BY <1>3, <1>10
  <2> QED
    BY <1>5, <1>6, <2>1, <2>2, <2>3
<1>11. CASE h = "record"
  <2>1. moved' = moved \cup {p} /\ UNCHANGED <<sink, temp, backup, noted>>
    BY <1>4, <1>11 DEF Do, sinkVars
  <2>2. /\ \A op, o : op # "record" => (Pending(op, o)' <=> Pending(op, o))
        /\ \A o : o # p => (Pending("record", o)' <=> Pending("record", o))
        /\ ~Pending("record", p)'
    BY <1>3, <1>11
  <2> QED
    BY <1>5, <1>6, <2>1, <2>2
<1> QED
  BY <1>1, <1>7, <1>8, <1>9, <1>10, <1>11 DEF Planned

LEMMA PlansAscend ==
    /\ \A S \in SUBSET Sinks : Ascending(Each(S, <<"reserve", "aside", "note">>))
    /\ Ascending(Each(Sinks, <<"replace", "record">>))
<1>1. ASSUME NEW S \in SUBSET Sinks PROVE Ascending(Each(S, <<"reserve", "aside", "note">>))
  <2> DEFINE ops == <<"reserve", "aside", "note">>
             a == StepsOf(S, ops, "adapted")
             q == StepsOf(S, ops, "quarantine")
  <2>1. \A o \in Sinks : StepsOf(S, ops, o) \in Seq(Steps)
    BY OpsHave, StepsOfHas
  <2>2. ASSUME NEW o \in Sinks PROVE Ascending(StepsOf(S, ops, o))
    <3>1. CASE o \notin S
      <4>1. StepsOf(S, ops, o) = <<>>
        BY <3>1 DEF StepsOf
      <4> QED
        BY <4>1 DEF Ascending
    <3>2. CASE o \in S
      <4>1. StepsOf(S, ops, o) = <<<<"reserve", o>>, <<"aside", o>>, <<"note", o>>>>
        BY <3>2 DEF StepsOf
      <4>2. /\ Rank(<<"reserve", o>>) < Rank(<<"aside", o>>) /\ Rank(<<"aside", o>>) < Rank(<<"note", o>>)
            /\ Rank(<<"reserve", o>>) < Rank(<<"note", o>>)
        BY DEF Rank
      <4> QED
        BY <4>1, <4>2 DEF Ascending
    <3> QED
      BY <3>1, <3>2
  <2>3. ASSUME NEW x, NEW y, Has(a, x), Has(q, y) PROVE Rank(x) < Rank(y)
    <3>1. "adapted" \in Sinks /\ "quarantine" \in Sinks
      BY DEF Sinks
    <3>2. x \in {<<"reserve", "adapted">>, <<"aside", "adapted">>, <<"note", "adapted">>}
      BY <2>3 DEF Has, StepsOf
    <3>3. y \in {<<"reserve", "quarantine">>, <<"aside", "quarantine">>, <<"note", "quarantine">>}
      BY <2>3 DEF Has, StepsOf
    <3>4. /\ Rank(<<"reserve", "adapted">>) = 1 /\ Rank(<<"aside", "adapted">>) = 2
          /\ Rank(<<"note", "adapted">>) = 3
          /\ Rank(<<"reserve", "quarantine">>) = 4 /\ Rank(<<"aside", "quarantine">>) = 5
          /\ Rank(<<"note", "quarantine">>) = 6
      BY DEF Rank
    <3> QED
      BY <3>2, <3>3, <3>4
  <2>4. Each(S, ops) = a \o q /\ a \in Seq(Steps) /\ q \in Seq(Steps) /\ Ascending(a) /\ Ascending(q)
    BY <2>1, <2>2 DEF Each, StepsOf, Sinks
  <2> HIDE DEF a, q, ops
  <2>5. Ascending(a \o q)
    BY <2>3, <2>4, ConcatAscends
  <2> QED
    BY <2>4, <2>5 DEF ops
<1>2. Ascending(Each(Sinks, <<"replace", "record">>))
  <2> DEFINE a == <<<<"replace", "adapted">>, <<"record", "adapted">>>>
             q == <<<<"replace", "quarantine">>, <<"record", "quarantine">>>>
  <2>1. Each(Sinks, <<"replace", "record">>) = a \o q
    BY DEF Each, Sinks
  <2>2. /\ Rank(<<"replace", "adapted">>) = 7 /\ Rank(<<"record", "adapted">>) = 8
        /\ Rank(<<"replace", "quarantine">>) = 9 /\ Rank(<<"record", "quarantine">>) = 10
    BY DEF Rank
  <2>3. a \in Seq(Steps) /\ q \in Seq(Steps)
    BY DEF Steps, Operations, Planned, Sinks
  <2>4. Ascending(a) /\ Ascending(q)
    BY <2>2 DEF Ascending
  <2>5. \A x, y : Has(a, x) /\ Has(q, y) => Rank(x) < Rank(y)
    BY <2>2 DEF Has
  <2> HIDE DEF a, q
  <2> QED
    BY <2>1, <2>3, <2>4, <2>5, ConcatAscends
<1> QED
  BY <1>1, <1>2

\* The end of the input finds everything as the run found it, and makes the plan.
LEMMA PlanMade ==
    ASSUME FilesTyped, Unmoved, apc = "reading", EndOfInput, mode = "file"
    PROVE  Promoting' /\ FilesTyped' /\ apc' = "promoting"
<1>1. /\ apc' = "promoting" /\ UNCHANGED <<had, sink, temp, backup, noted, moved>>
      /\ todo' = Each(Existing, <<"reserve", "aside", "note">>) \o Each(Sinks, <<"replace", "record">>)
  BY DEF EndOfInput, sinkVars
<1>2. Existing = had
  BY DEF Existing, Unmoved, AsFound, Found, FilesTyped
<1> DEFINE first == Each(had, <<"reserve", "aside", "note">>)
           then == Each(Sinks, <<"replace", "record">>)
<1>3. /\ first \in Seq(Steps)
      /\ \A op, o : Has(first, <<op, o>>) <=> o \in had /\ op \in {"reserve", "aside", "note"}
  <2> DEFINE ops == <<"reserve", "aside", "note">>
  <2>1. ops \in Seq(Operations) /\ \A op : (\E k \in 1..Len(ops) : ops[k] = op) <=> op \in {"reserve", "aside", "note"}
    BY OpsHave
  <2>2. first = Each(had, ops) /\ had \subseteq Sinks
    BY DEF FilesTyped
  <2> HIDE DEF ops, first
  <2>3. /\ Each(had, ops) \in Seq(Steps)
        /\ \A op, o : Has(Each(had, ops), <<op, o>>) <=> o \in had /\ \E k \in 1..Len(ops) : ops[k] = op
    BY <2>1, <2>2, EachHas
  <2> QED
    BY <2>1, <2>2, <2>3
<1>4. /\ then \in Seq(Steps)
      /\ \A op, o : Has(then, <<op, o>>) <=> o \in Sinks /\ op \in {"replace", "record"}
  <2> DEFINE ops == <<"replace", "record">>
  <2>1. ops \in Seq(Operations) /\ \A op : (\E k \in 1..Len(ops) : ops[k] = op) <=> op \in {"replace", "record"}
    BY OpsHave
  <2>2. then = Each(Sinks, ops) /\ Sinks \subseteq Sinks
    BY DEF FilesTyped
  <2> HIDE DEF ops, then
  <2>3. /\ Each(Sinks, ops) \in Seq(Steps)
        /\ \A op, o : Has(Each(Sinks, ops), <<op, o>>) <=> o \in Sinks /\ \E k \in 1..Len(ops) : ops[k] = op
    BY <2>1, <2>2, EachHas
  <2> QED
    BY <2>1, <2>2, <2>3
<1>5. Ascending(first) /\ Ascending(then)
  BY PlansAscend DEF FilesTyped
<1> HIDE DEF first, then
<1>6. todo' = first \o then
  BY <1>1, <1>2 DEF first, then
<1>7. todo' \in Seq(Steps) /\ \A op, o : Pending(op, o)' <=> Has(first, <<op, o>>) \/ Has(then, <<op, o>>)
  <2>1. first \o then \in Seq(Steps) /\ \A x : Has(first \o then, x) <=> Has(first, x) \/ Has(then, x)
    BY <1>3, <1>4, ConcatHas
  <2>2. \A op, o : Pending(op, o)' <=> Has(first \o then, <<op, o>>)
    BY <1>6 DEF Pending, Has
  <2> QED
    BY <1>6, <2>1, <2>2
<1>8. Ascending(todo')
  <2>1. ASSUME NEW x, NEW y, Has(first, x), Has(then, y) PROVE Rank(x) < Rank(y)
    <3>1. /\ \E op \in Operations, o \in Sinks : x = <<op, o>>
          /\ \E op \in Operations, o \in Sinks : y = <<op, o>>
      BY <1>3, <1>4, <2>1, ElementOfSeq, StepIsPair DEF Has
    <3>2. PICK op1 \in Operations, o1 \in Sinks : x = <<op1, o1>>
      BY <3>1
    <3>3. PICK op2 \in Operations, o2 \in Sinks : y = <<op2, o2>>
      BY <3>1
    <3>4. op1 \in {"reserve", "aside", "note"} /\ op2 \in {"replace", "record"}
      BY <1>3, <1>4, <2>1, <3>2, <3>3
    <3>5. /\ Rank(<<"reserve", o1>>) < Rank(<<"aside", o1>>)
          /\ Rank(<<"note", o1>>) = Rank(<<"aside", o1>>) + 1
          /\ Rank(<<"note", o1>>) < Rank(<<"replace", o2>>)
          /\ Rank(<<"record", o2>>) = Rank(<<"replace", o2>>) + 1
      BY RankOrder
    <3>6. \A op \in {"reserve", "aside", "note", "replace", "record"} : \A o \in Sinks :
            Rank(<<op, o>>) \in Nat
      BY RankOrder DEF Planned
    <3>7. Rank(<<op1, o1>>) < Rank(<<op2, o2>>)
      BY <3>4, <3>5, <3>6
    <3> QED
      BY <3>2, <3>3, <3>7
  <2> QED
    BY <1>3, <1>4, <1>5, <1>6, <2>1, ConcatAscends
<1>9. \A op, o : o \in Sinks => (Pending(op, o)' <=> InPlan(op, o)')
  BY <1>1, <1>3, <1>4, <1>7 DEF InPlan, FilesTyped
<1>10. \A op, o : InPlan(op, o)' => op \in Planned
  BY DEF InPlan, Planned
<1>11. /\ \A op \in Operations, o \in Sinks : Pending(op, o)' => op \in Planned /\ InPlan(op, o)'
       /\ \A op \in Planned, o \in Sinks : InPlan(op, o)' => Pending(op, o)'
  BY <1>9, <1>10
<1>12. /\ \A o \in had : Pending("aside", o)' /\ Pending("note", o)'
       /\ \A o \in Sinks : Pending("replace", o)' /\ Pending("record", o)'
  BY <1>3, <1>4, <1>7
<1>13. /\ \A o \in had : sink'[o] = "old"
       /\ \A o \in Sinks \ had : backup'[o] = "none" /\ sink'[o] = "absent"
       /\ moved' = {} /\ had' = had
  BY <1>1 DEF Unmoved, AsFound, NoBackup, Found, FilesTyped
<1>14. FilesTyped'
  BY <1>1, <1>7 DEF FilesTyped
<1> QED
  BY <1>1, <1>8, <1>11, <1>12, <1>13, <1>14 DEF Promoting

\* Nothing is left of the plan: both outputs are in place, every old one is in a backup.
LEMMA PromotionDone ==
    ASSUME FilesTyped, Promoting, todo = <<>>, todo' = Each(noted, <<"discard">>),
           UNCHANGED <<had, sink, temp, backup, noted, moved>>
    PROVE  Cleaning' /\ FilesTyped'
<1>1. \A op, o : ~Pending(op, o)
  BY EmptyHas DEF Pending
<1>2. /\ Replaced /\ temp = {} /\ noted = had /\ \A o \in Sinks \ had : backup[o] = "none"
  BY <1>1 DEF Promoting, FilesTyped, Replaced
<1>3. /\ Each(noted, <<"discard">>) \in Seq(Steps)
      /\ \A op, o : Has(Each(noted, <<"discard">>), <<op, o>>) <=> o \in noted /\ op = "discard"
  <2>1. /\ <<"discard">> \in Seq(Operations)
        /\ \A op : (\E k \in 1..Len(<<"discard">>) : <<"discard">>[k] = op) <=> op = "discard"
    BY OpsHave DEF Operations
  <2>2. noted \subseteq Sinks
    BY DEF FilesTyped
  <2> QED
    BY <2>1, <2>2, EachHas
<1>4. todo' \in Seq(Steps) /\ \A op, o : Pending(op, o)' <=> o \in noted /\ op = "discard"
  <2>1. \A op, o : Pending(op, o)' <=> Has(Each(noted, <<"discard">>), <<op, o>>)
    BY DEF Pending, Has
  <2> QED
    BY <1>3, <2>1
<1>5. \A o \in Sinks : backup'[o] = "none" \/ Pending("discard", o)'
  BY <1>2, <1>4
<1>6. Replaced' /\ temp' = {}
  BY <1>2 DEF Replaced
<1>7. \A op \in Operations, o \in Sinks : Pending(op, o)' => op = "discard"
  BY <1>4
<1> QED
  BY <1>4, <1>5, <1>6, <1>7 DEF Cleaning, FilesTyped

\* The backups are removed one by one.
LEMMA CleaningGoesOn ==
    ASSUME FilesTyped, Cleaning, todo # <<>>, todo' = Tail(todo), had' = had,
           Do(Head(todo)[1], Head(todo)[2])
    PROVE  Cleaning' /\ FilesTyped'
<1>1. PICK h \in Operations, p \in Sinks : h = Head(todo)[1] /\ p = Head(todo)[2]
  BY Popped
<1>2. /\ todo' \in Seq(Steps)
      /\ \A op, o : Pending(op, o) <=> (op = h /\ o = p) \/ Pending(op, o)'
  BY <1>1, Popped
<1>3. h = "discard"
  BY <1>2 DEF Cleaning
<1>4. backup' = [backup EXCEPT ![p] = "none"] /\ UNCHANGED <<sink, temp, noted, moved>>
  BY <1>1, <1>3 DEF Do
<1>5. \A o \in Sinks : backup'[o] = "none" \/ Pending("discard", o)'
  BY <1>2, <1>4 DEF Cleaning, FilesTyped
<1>6. \A op \in Operations, o \in Sinks : Pending(op, o)' => op = "discard"
  BY <1>2 DEF Cleaning
<1>7. Replaced' /\ temp' = {}
  BY <1>4 DEF Cleaning, Replaced
<1> QED
  BY <1>2, <1>4, <1>5, <1>6, <1>7 DEF Cleaning, FilesTyped

LEMMA EachOne ==
    ASSUME NEW S, NEW only \in Operations, S \subseteq Sinks
    PROVE  /\ Each(S, <<only>>) \in Seq(Steps)
           /\ \A op, o : Has(Each(S, <<only>>), <<op, o>>) <=> o \in S /\ op = only
<1> DEFINE ops == <<only>>
<1>1. ops \in Seq(Operations) /\ \A op : (\E k \in 1..Len(ops) : ops[k] = op) <=> op = only
  BY OpsHave
<1> HIDE DEF ops
<1>2. /\ Each(S, ops) \in Seq(Steps)
      /\ \A op, o : Has(Each(S, ops), <<op, o>>) <=> o \in S /\ \E k \in 1..Len(ops) : ops[k] = op
  BY <1>1, EachHas
<1>3. /\ Each(S, ops) \in Seq(Steps)
      /\ \A op, o : Has(Each(S, ops), <<op, o>>) <=> o \in S /\ op = only
  BY <1>1, <1>2
<1> QED
  BY <1>3 DEF ops

\* What the handler undertakes to undo.
LEMMA RecoveryHas ==
    ASSUME FilesTyped
    PROVE  /\ Recovery \in Seq(Steps)
           /\ \A op, o : Has(Recovery, <<op, o>>) <=>
                \/ op = "restore" /\ o \in noted
                \/ op = "remove" /\ o \in moved \ noted
                \/ op = "untemp" /\ o \in temp
<1>0. noted \subseteq Sinks /\ moved \ noted \subseteq Sinks /\ temp \subseteq Sinks
  BY DEF FilesTyped
<1>00. "restore" \in Operations /\ "remove" \in Operations /\ "untemp" \in Operations
  BY DEF Operations, Undoing
<1> DEFINE a == Each(noted, <<"restore">>)
           b == Each(moved \ noted, <<"remove">>)
           c == Each(temp, <<"untemp">>)
<1>1. a \in Seq(Steps) /\ \A op, o : Has(a, <<op, o>>) <=> o \in noted /\ op = "restore"
  BY <1>0, <1>00, EachOne
<1>2. b \in Seq(Steps) /\ \A op, o : Has(b, <<op, o>>) <=> o \in moved \ noted /\ op = "remove"
  BY <1>0, <1>00, EachOne
<1>3. c \in Seq(Steps) /\ \A op, o : Has(c, <<op, o>>) <=> o \in temp /\ op = "untemp"
  BY <1>0, <1>00, EachOne
<1>4. Recovery = (Swap(a) \o b) \o c
  BY DEF Recovery
<1> HIDE DEF a, b, c
<1> DEFINE w == Swap(a)
<1>5. w \in Seq(Steps) /\ \A x : Has(w, x) <=> Has(a, x)
  BY <1>1, SwapHas
<1> HIDE DEF w
<1> DEFINE wb == w \o b
<1>6. wb \in Seq(Steps) /\ \A x : Has(wb, x) <=> Has(w, x) \/ Has(b, x)
  BY <1>2, <1>5, ConcatHas
<1> HIDE DEF wb
<1>7. wb \o c \in Seq(Steps) /\ \A x : Has(wb \o c, x) <=> Has(wb, x) \/ Has(c, x)
  BY <1>3, <1>6, ConcatHas
<1>8. Recovery = wb \o c
  BY <1>4 DEF wb, w
<1> QED
  BY <1>1, <1>2, <1>3, <1>5, <1>6, <1>7, <1>8

\* An exception in the promotion: the handler has all it needs to undo it, unless
\* what had just been done was not noted yet.
LEMMA PromotionFails ==
    ASSUME FilesTyped, Promoting, todo' = Recovery,
           excused' = (excused \/ (todo # <<>> /\ Head(todo)[1] \in {"note", "record"})),
           UNCHANGED <<had, sink, temp, backup, noted, moved>>
    PROVE  Recovering' /\ FilesTyped'
<1>1. todo' \in Seq(Steps) /\ \A op, o : Pending(op, o)' <=>
        \/ op = "restore" /\ o \in noted
        \/ op = "remove" /\ o \in moved \ noted
        \/ op = "untemp" /\ o \in temp
  <2>1. \A op, o : Pending(op, o)' <=> Has(Recovery, <<op, o>>)
    BY DEF Pending, Has
  <2> QED
    BY <2>1, RecoveryHas
<1>2. ASSUME NEW o \in Sinks, Pending("note", o), ~Pending("aside", o), o \in had
      PROVE  todo # <<>> /\ Head(todo)[1] = "note"
  <2>1. todo # <<>>
    BY <1>2, EmptyHas DEF Pending
  <2>2. PICK h \in Planned, p \in Sinks : h = Head(todo)[1] /\ p = Head(todo)[2]
    BY <2>1, NextInPlan
  <2>3. /\ Rank(<<h, p>>) \in Nat /\ Rank(<<"note", o>>) \in Nat /\ Rank(<<"aside", o>>) \in Nat
        /\ Rank(<<"note", o>>) = Rank(<<"aside", o>>) + 1
        /\ "note" \in Planned /\ "aside" \in Planned /\ InPlan("aside", o)
        /\ Rank(<<h, p>>) = Rank(<<"aside", o>>) => h = "aside" /\ p = o
    <3>1. "note" \in Planned /\ "aside" \in Planned /\ InPlan("aside", o)
      BY <1>2 DEF Planned, InPlan
    <3>2. Rank(<<"note", o>>) = Rank(<<"aside", o>>) + 1
      BY RankOrder
    <3>3. Rank(<<h, p>>) \in Nat /\ Rank(<<"note", o>>) \in Nat /\ Rank(<<"aside", o>>) \in Nat
      BY <3>1, RankOrder
    <3>4. Rank(<<h, p>>) = Rank(<<"aside", o>>) => h = "aside" /\ p = o
      BY <3>1, RankOrder
    <3> QED
      BY <3>1, <3>2, <3>3, <3>4
  <2>4. Pending(h, p) /\ ~(Rank(<<h, p>>) < Rank(<<"aside", o>>))
    BY <1>2, <2>1, <2>2, <2>3, NextInPlan
  <2>5. (h = "note" /\ p = o) \/ Rank(<<h, p>>) < Rank(<<"note", o>>)
    BY <1>2, <2>1, <2>2, <2>3, NextInPlan
  <2>6. ~(h = "aside" /\ p = o)
    BY <1>2, <2>4
  <2>7. ~(Rank(<<h, p>>) < Rank(<<"note", o>>))
    BY <2>3, <2>4, <2>6
  <2> QED
    BY <2>1, <2>2, <2>5, <2>7
<1>3. ASSUME NEW o \in Sinks, Pending("record", o), ~Pending("replace", o)
      PROVE  todo # <<>> /\ Head(todo)[1] = "record"
  <2>1. todo # <<>>
    BY <1>3, EmptyHas DEF Pending
  <2>2. PICK h \in Planned, p \in Sinks : h = Head(todo)[1] /\ p = Head(todo)[2]
    BY <2>1, NextInPlan
  <2>3. /\ Rank(<<h, p>>) \in Nat /\ Rank(<<"record", o>>) \in Nat /\ Rank(<<"replace", o>>) \in Nat
        /\ Rank(<<"record", o>>) = Rank(<<"replace", o>>) + 1
        /\ "record" \in Planned /\ "replace" \in Planned /\ InPlan("replace", o)
        /\ Rank(<<h, p>>) = Rank(<<"replace", o>>) => h = "replace" /\ p = o
    <3>1. "record" \in Planned /\ "replace" \in Planned /\ InPlan("replace", o)
      BY <1>3 DEF Planned, InPlan
    <3>2. Rank(<<"record", o>>) = Rank(<<"replace", o>>) + 1
      BY RankOrder
    <3>3. Rank(<<h, p>>) \in Nat /\ Rank(<<"record", o>>) \in Nat /\ Rank(<<"replace", o>>) \in Nat
      BY <3>1, RankOrder
    <3>4. Rank(<<h, p>>) = Rank(<<"replace", o>>) => h = "replace" /\ p = o
      BY <3>1, RankOrder
    <3> QED
      BY <3>1, <3>2, <3>3, <3>4
  <2>4. Pending(h, p) /\ ~(Rank(<<h, p>>) < Rank(<<"replace", o>>))
    BY <1>3, <2>1, <2>2, <2>3, NextInPlan
  <2>5. (h = "record" /\ p = o) \/ Rank(<<h, p>>) < Rank(<<"record", o>>)
    BY <1>3, <2>1, <2>2, <2>3, NextInPlan
  <2>6. ~(h = "replace" /\ p = o)
    BY <1>3, <2>4
  <2>7. ~(Rank(<<h, p>>) < Rank(<<"record", o>>))
    BY <2>3, <2>4, <2>6
  <2> QED
    BY <2>1, <2>2, <2>5, <2>7
<1>4. \A o \in moved \ noted : o \notin had
  <2> SUFFICES ASSUME NEW o \in moved \ noted, o \in had PROVE FALSE
    OBVIOUS
  <2>1. o \in Sinks /\ Pending("note", o) /\ ~Pending("record", o)
    BY DEF Promoting, FilesTyped
  <2>2. todo # <<>>
    BY <2>1, EmptyHas DEF Pending
  <2>3. PICK h \in Planned, p \in Sinks : h = Head(todo)[1] /\ p = Head(todo)[2]
    BY <2>2, NextInPlan
  <2>4. /\ Rank(<<h, p>>) \in Nat /\ Rank(<<"note", o>>) \in Nat /\ Rank(<<"record", o>>) \in Nat
        /\ Rank(<<"replace", o>>) \in Nat
        /\ Rank(<<"note", o>>) < Rank(<<"replace", o>>)
        /\ Rank(<<"record", o>>) = Rank(<<"replace", o>>) + 1
        /\ "note" \in Planned /\ "record" \in Planned /\ InPlan("record", o)
    BY <2>1, <2>3, RankOrder DEF Planned, InPlan
  <2>5. ~(Rank(<<h, p>>) < Rank(<<"record", o>>))
    BY <2>1, <2>2, <2>3, <2>4, NextInPlan
  <2>6. Rank(<<h, p>>) < Rank(<<"note", o>>) \/ (h = "note" /\ p = o)
    BY <2>1, <2>2, <2>3, <2>4, NextInPlan
  <2> QED
    BY <2>4, <2>5, <2>6
<1>5. \A op \in Operations, o \in Sinks : Pending(op, o)' =>
        /\ op \in Undoing
        /\ op = "restore" => o \in had'
        /\ op = "remove" => o \notin had'
  BY <1>1, <1>4 DEF Undoing, FilesTyped
<1>6. Kept'
  BY DEF Kept, Promoting
<1>7. ASSUME ~excused', NEW o \in Sinks
      PROVE  /\ sink'[o] = Found(o)' \/ Pending("restore", o)' \/ Pending("remove", o)'
             /\ o \in temp' => Pending("untemp", o)'
  <2>1. /\ ~(todo # <<>> /\ Head(todo)[1] = "note") /\ ~(todo # <<>> /\ Head(todo)[1] = "record")
        /\ Found(o)' = Found(o) /\ sink'[o] = sink[o] /\ temp' = temp
    BY <1>7 DEF Found
  <2>2. CASE o \in had
    <3>1. Pending("aside", o) => sink[o] = Found(o)
      BY <2>2 DEF Promoting, Found
    <3>2. ~Pending("aside", o) => o \in noted
      BY <1>2, <2>1, <2>2 DEF Promoting
    <3> QED
      BY <1>1, <2>1, <3>1, <3>2
  <2>3. CASE o \notin had
    <3>1. Pending("replace", o) => sink[o] = Found(o)
      BY <2>3 DEF Promoting, Found
    <3>2. ~Pending("replace", o) => o \in moved \ noted
      BY <1>3, <2>1, <2>3 DEF Promoting, FilesTyped
    <3> QED
      BY <1>1, <2>1, <3>1, <3>2
  <2> QED
    BY <2>2, <2>3
<1>8. FilesTyped'
  BY <1>1 DEF FilesTyped
<1> QED
  BY <1>5, <1>6, <1>7, <1>8 DEF Recovering

\* A step of the recovery.
LEMMA RecoveryGoesOn ==
    ASSUME FilesTyped, Recovering, todo # <<>>, todo' = Tail(todo), UNCHANGED <<had, excused>>,
           Do(Head(todo)[1], Head(todo)[2])
    PROVE  Recovering' /\ FilesTyped'
<1>1. PICK h \in Operations, p \in Sinks : h = Head(todo)[1] /\ p = Head(todo)[2]
  BY Popped
<1>2. /\ todo' \in Seq(Steps) /\ Do(h, p)
      /\ \A op, o : Pending(op, o) <=> (op = h /\ o = p) \/ Pending(op, o)'
  BY <1>1, Popped
<1>3. /\ h \in Undoing /\ (h = "restore" => p \in had) /\ (h = "remove" => p \notin had)
  BY <1>2 DEF Recovering
<1>4. \A op \in Operations, o \in Sinks : Pending(op, o)' =>
        /\ op \in Undoing
        /\ op = "restore" => o \in had'
        /\ op = "remove" => o \notin had'
  BY <1>2 DEF Recovering
<1>5. /\ sink \in [Sinks -> {"old", "new", "absent"}] /\ backup \in [Sinks -> {"none", "reserved", "old"}]
      /\ had \subseteq Sinks /\ temp \subseteq Sinks /\ Kept /\ \A o : Found(o)' = Found(o)
  BY DEF FilesTyped, Recovering, Found
<1>6. ~excused => \A o \in Sinks : /\ sink[o] = Found(o) \/ Pending("restore", o) \/ Pending("remove", o)
                                   /\ o \in temp => Pending("untemp", o)
  BY DEF Recovering
<1>7. CASE h = "restore"
  <2>1. /\ sink' = [sink EXCEPT ![p] = "old"] /\ backup' = [backup EXCEPT ![p] = "none"]
        /\ UNCHANGED <<temp, noted, moved>> /\ Found(p) = "old"
    BY <1>2, <1>3, <1>7 DEF Do, Found
  <2>2. Kept'
    BY <1>5, <2>1 DEF Kept
  <2>3. ~excused => \A o \in Sinks :
          /\ sink'[o] = Found(o)' \/ Pending("restore", o)' \/ Pending("remove", o)'
          /\ o \in temp' => Pending("untemp", o)'
    BY <1>2, <1>5, <1>6, <1>7, <2>1
  <2> QED
    BY <1>2, <1>4, <1>5, <2>1, <2>2, <2>3 DEF Recovering, FilesTyped
<1>8. CASE h = "remove"
  <2>1. /\ sink' = [sink EXCEPT ![p] = "absent"] /\ UNCHANGED <<temp, backup, noted, moved>>
        /\ p \notin had /\ Found(p) = "absent"
    BY <1>2, <1>3, <1>8 DEF Do, Found
  <2>2. Kept'
    BY <1>5, <2>1 DEF Kept
  <2>3. ~excused => \A o \in Sinks :
          /\ sink'[o] = Found(o)' \/ Pending("restore", o)' \/ Pending("remove", o)'
          /\ o \in temp' => Pending("untemp", o)'
    BY <1>2, <1>5, <1>6, <1>8, <2>1
  <2> QED
    BY <1>2, <1>4, <1>5, <2>1, <2>2, <2>3 DEF Recovering, FilesTyped
<1>9. CASE h = "untemp"
  <2>1. temp' = temp \ {p} /\ UNCHANGED <<sink, backup, noted, moved>>
    BY <1>2, <1>9 DEF Do
  <2>2. Kept'
    BY <1>5, <2>1 DEF Kept
  <2>3. ~excused => \A o \in Sinks :
          /\ sink'[o] = Found(o)' \/ Pending("restore", o)' \/ Pending("remove", o)'
          /\ o \in temp' => Pending("untemp", o)'
    BY <1>2, <1>5, <1>6, <1>9, <2>1
  <2> QED
    BY <1>2, <1>4, <1>5, <2>1, <2>2, <2>3 DEF Recovering, FilesTyped
<1> QED
  BY <1>3, <1>7, <1>8, <1>9 DEF Undoing

\* A step of the recovery fails as well.
LEMMA RecoveryStumbles ==
    ASSUME FilesTyped, Recovering, todo # <<>>, todo' = Tail(todo) \/ todo' = <<>>, excused' = TRUE,
           UNCHANGED <<had, sink, temp, backup, noted, moved>>
    PROVE  Recovering' /\ FilesTyped'
<1>1. CASE todo' = Tail(todo)
  <2>1. todo' \in Seq(Steps) /\ \A op, o : Pending(op, o)' => Pending(op, o)
    BY <1>1, Popped
  <2>2. Kept'
    BY DEF Kept, Recovering
  <2> QED
    BY <2>1, <2>2 DEF Recovering, FilesTyped
<1>2. CASE todo' = <<>>
  <2>1. todo' \in Seq(Steps) /\ \A op, o : ~Pending(op, o)'
    BY <1>2, EmptyHas, EmptySeq DEF Pending, Has
  <2>2. Kept'
    BY DEF Kept, Recovering
  <2> QED
    BY <2>1, <2>2 DEF Recovering, FilesTyped
<1> QED
  BY <1>1, <1>2

LEMMA OutputInit == Init => OutputInv
<1> SUFFICES ASSUME AdapterInit PROVE OutputInv
  BY DEF Init
<1>1. /\ had \subseteq Sinks /\ sink = [o \in Sinks |-> IF o \in had THEN "old" ELSE "absent"]
      /\ temp = {} /\ backup = [o \in Sinks |-> "none"]
      /\ todo = <<>> /\ noted = {} /\ moved = {} /\ excused = FALSE
  BY DEF AdapterInit
<1>2. apc \in {"opening", "bridging", "done"} /\ (mode = "file" => apc = "opening")
  BY DEF AdapterInit
<1>3. FilesTyped
  BY <1>1, EmptySeq DEF FilesTyped
<1>4. Unmoved
  BY <1>1 DEF Unmoved, AsFound, NoBackup, Found
<1> QED
  BY <1>1, <1>2, <1>3, <1>4 DEF OutputInv, Stages, SuccessIsClean, FailureUndoes

\* Steps that leave the run and its files alone, and the bridge, which has none.
LEMMA OutputsKeep ==
    ASSUME OutputInv, UNCHANGED <<mode, had, sink, temp, backup, todo, noted, moved, excused>>,
           apc' = apc \/ (apc = "bridging" /\ apc' = "done")
    PROVE  OutputInv'
<1>1. /\ FilesTyped' <=> FilesTyped
      /\ Unmoved' <=> Unmoved
      /\ Promoting' <=> Promoting
      /\ Recovering' <=> Recovering
      /\ Cleaning' <=> Cleaning
      /\ Kept' <=> Kept
      /\ Replaced' <=> Replaced
  <2>1. \A op, o : Pending(op, o)' <=> Pending(op, o)
    BY DEF Pending, Has
  <2>2. \A op, o : (InPlan(op, o)' <=> InPlan(op, o)) /\ Found(o)' = Found(o)
    BY DEF InPlan, Found
  <2> QED
    BY <2>1, <2>2 DEF FilesTyped, Unmoved, AsFound, NoBackup, Promoting, Recovering, Cleaning,
       Kept, Replaced
<1>2. CASE apc' = apc
  BY <1>1, <1>2 DEF OutputInv, Stages, SuccessIsClean, FailureUndoes
<1>3. CASE apc = "bridging" /\ apc' = "done"
  BY <1>1, <1>3 DEF OutputInv, Stages, SuccessIsClean, FailureUndoes
<1> QED
  BY <1>2, <1>3

LEMMA OpenOutputs == ASSUME OutputInv, Open PROVE OutputInv'
<1>1. /\ apc = "opening" /\ apc' = "reading"
      /\ UNCHANGED <<mode, had, backup, todo, noted, moved, excused>>
      /\ FilesTyped /\ Unmoved /\ temp = {}
  BY DEF Open, OutputInv
<1>2. CASE mode = "file"
  <2>1. temp' = Sinks /\ sink' = sink
    BY <1>2 DEF Open
  <2>2. FilesTyped' /\ Unmoved'
    BY <1>1, <2>1 DEF FilesTyped, Unmoved, AsFound, NoBackup, Found
  <2> QED
    BY <1>1, <1>2, <2>2 DEF OutputInv, Stages, SuccessIsClean, FailureUndoes
<1>3. CASE mode # "file"
  <2>1. sink' = [o \in Sinks |-> "new"] /\ temp' = temp
    BY <1>3 DEF Open
  <2>2. FilesTyped'
    BY <1>1, <2>1 DEF FilesTyped
  <2> QED
    BY <1>1, <1>3, <2>2 DEF OutputInv, Stages, FailureUndoes
<1> QED
  BY <1>2, <1>3

LEMMA OpenFailsOutputs == ASSUME OutputInv, OpenFails PROVE OutputInv'
<1>1. /\ apc = "opening" /\ apc' = "unopened"
      /\ UNCHANGED <<mode, had, sink, temp, backup, todo, noted, moved, excused>>
      /\ FilesTyped /\ Unmoved /\ temp = {}
  BY DEF OpenFails, OutputInv, sinkVars
<1>2. FilesTyped' /\ Kept'
  BY <1>1 DEF FilesTyped, Unmoved, AsFound, Kept, Found
<1>3. FailureUndoes'
  BY <1>1 DEF FailureUndoes, Unmoved, AsFound, Found
<1> QED
  BY <1>1, <1>2, <1>3 DEF OutputInv, Stages, SuccessIsClean

LEMMA EndOfInputOutputs == ASSUME OutputInv, EndOfInput PROVE OutputInv'
<1>1. apc = "reading" /\ mode' = mode /\ FilesTyped
  BY DEF EndOfInput, OutputInv
<1>2. CASE mode = "file"
  <2>1. Promoting' /\ FilesTyped' /\ apc' = "promoting"
    BY <1>1, <1>2, PlanMade DEF OutputInv
  <2> QED
    BY <1>1, <1>2, <2>1 DEF OutputInv, Stages, SuccessIsClean, FailureUndoes
<1>3. CASE mode # "file"
  <2>1. apc' = "done" /\ todo' = <<>> /\ UNCHANGED <<had, sink, temp, backup, noted, moved>>
    BY <1>3 DEF EndOfInput, sinkVars
  <2>2. FilesTyped'
    BY <1>1, <2>1, EmptySeq DEF FilesTyped
  <2> QED
    BY <1>1, <1>3, <2>1, <2>2 DEF OutputInv, Stages, FailureUndoes
<1> QED
  BY <1>2, <1>3

LEMMA FileStepOutputs == ASSUME OutputInv, FileStep PROVE OutputInv'
<1>1. /\ apc \in {"promoting", "cleaning", "recovering"} /\ mode = "file" /\ mode' = mode
      /\ had' = had /\ excused' = excused /\ FilesTyped
  BY DEF FileStep, OutputInv
<1>2. CASE todo # <<>>
  <2>1. Do(Head(todo)[1], Head(todo)[2]) /\ todo' = Tail(todo) /\ apc' = apc
    BY <1>2 DEF FileStep
  <2>2. CASE apc = "promoting"
    <3>1. Promoting' /\ FilesTyped'
      BY <1>1, <1>2, <2>1, <2>2, PromotionGoesOn DEF OutputInv
    <3> QED
      BY <1>1, <2>1, <2>2, <3>1 DEF OutputInv, Stages, SuccessIsClean, FailureUndoes
  <2>3. CASE apc = "cleaning"
    <3>1. Cleaning' /\ FilesTyped'
      BY <1>1, <1>2, <2>1, <2>3, CleaningGoesOn DEF OutputInv
    <3> QED
      BY <1>1, <2>1, <2>3, <3>1 DEF OutputInv, Stages, SuccessIsClean, FailureUndoes
  <2>4. CASE apc = "recovering"
    <3>1. Recovering' /\ FilesTyped'
      BY <1>1, <1>2, <2>1, <2>4, RecoveryGoesOn DEF OutputInv
    <3> QED
      BY <1>1, <2>1, <2>4, <3>1 DEF OutputInv, Stages, SuccessIsClean, FailureUndoes
  <2> QED
    BY <1>1, <2>2, <2>3, <2>4
<1>3. CASE todo = <<>>
  <2>1. /\ apc' = After(apc) /\ todo' = IF apc = "promoting" THEN Each(noted, <<"discard">>) ELSE <<>>
        /\ UNCHANGED <<sink, temp, backup, noted, moved>>
    BY <1>3 DEF FileStep, sinkVars
  <2>2. \A op, o : ~Pending(op, o)
    BY <1>3, EmptyHas DEF Pending
  <2>3. CASE apc = "promoting"
    <3>1. apc' = "cleaning" /\ todo' = Each(noted, <<"discard">>)
      BY <2>1, <2>3 DEF After
    <3>2. Cleaning' /\ FilesTyped'
      BY <1>1, <1>3, <2>1, <2>3, <3>1, PromotionDone DEF OutputInv
    <3> QED
      BY <1>1, <3>1, <3>2 DEF OutputInv, Stages, SuccessIsClean, FailureUndoes
  <2>4. CASE apc = "cleaning"
    <3>1. apc' = "done" /\ todo' = <<>>
      BY <2>1, <2>4 DEF After
    <3>2. FilesTyped'
      BY <1>1, <2>1, <3>1, EmptySeq DEF FilesTyped
    <3>3. SuccessIsClean'
      BY <1>1, <2>1, <2>2, <2>4 DEF OutputInv, Cleaning, Replaced, SuccessIsClean
    <3> QED
      BY <1>1, <3>1, <3>2, <3>3 DEF OutputInv, Stages, FailureUndoes
  <2>5. CASE apc = "recovering"
    <3>1. apc' = "failed" /\ todo' = <<>>
      BY <2>1, <2>5 DEF After
    <3>2. FilesTyped'
      BY <1>1, <2>1, <3>1, EmptySeq DEF FilesTyped
    <3>3. Kept'
      BY <1>1, <2>1, <2>5 DEF OutputInv, Recovering, Kept
    <3>4. ~excused => \A o \in Sinks : sink[o] = Found(o) /\ o \notin temp
      BY <1>1, <2>2, <2>5 DEF OutputInv, Recovering
    <3>5. FailureUndoes'
      BY <1>1, <2>1, <3>1, <3>4 DEF FailureUndoes, Found
    <3> QED
      BY <1>1, <3>1, <3>2, <3>3, <3>5 DEF OutputInv, Stages, SuccessIsClean
  <2> QED
    BY <1>1, <2>3, <2>4, <2>5
<1> QED
  BY <1>2, <1>3

LEMMA RaiseOutputs == ASSUME OutputInv, Raise PROVE OutputInv'
<1>1. /\ mode' = mode /\ UNCHANGED <<had, sink, backup, noted, moved>> /\ FilesTyped
      /\ apc \in {"reading", "promoting", "cleaning", "recovering"}
  BY DEF Raise, OutputInv
<1>2. CASE apc = "reading"
  <2>1. apc' = "failed" /\ todo' = <<>> /\ temp' = {}
    BY <1>2 DEF Raise
  <2>2. FilesTyped'
    BY <1>1, <2>1, EmptySeq DEF FilesTyped
  <2>3. ASSUME mode = "file" PROVE Kept' /\ FailureUndoes'
    <3>1. AsFound
      BY <1>2, <2>3 DEF OutputInv, Unmoved
    <3>2. Kept'
      BY <1>1, <3>1 DEF AsFound, Kept, Found, FilesTyped
    <3>3. FailureUndoes'
      BY <1>1, <2>1, <3>1 DEF AsFound, FailureUndoes, Found
    <3> QED
      BY <3>2, <3>3
  <2>4. CASE mode = "file"
    BY <1>1, <2>1, <2>2, <2>3, <2>4 DEF OutputInv, Stages, SuccessIsClean
  <2>5. CASE mode # "file"
    BY <1>1, <2>1, <2>2, <2>5 DEF OutputInv, Stages, FailureUndoes
  <2> QED
    BY <2>4, <2>5
<1>3. CASE apc = "promoting"
  <2>1. /\ apc' = "recovering" /\ todo' = Recovery /\ temp' = temp /\ mode = "file"
        /\ excused' = (excused \/ (todo # <<>> /\ Head(todo)[1] \in {"note", "record"}))
    BY <1>3 DEF Raise, OutputInv
  <2>2. Recovering' /\ FilesTyped'
    BY <1>1, <1>3, <2>1, PromotionFails DEF OutputInv
  <2> QED
    BY <1>1, <2>1, <2>2 DEF OutputInv, Stages, SuccessIsClean, FailureUndoes
<1>4. CASE apc = "cleaning"
  <2>1. apc' = "failed" /\ todo' = <<>> /\ temp' = temp /\ excused' /\ mode = "file"
    BY <1>4 DEF Raise, OutputInv
  <2>2. FilesTyped'
    BY <1>1, <2>1, EmptySeq DEF FilesTyped
  <2>3. Replaced'
    BY <1>1, <1>4, <2>1 DEF OutputInv, Cleaning, Replaced
  <2> QED
    BY <1>1, <2>1, <2>2, <2>3 DEF OutputInv, Stages, SuccessIsClean, FailureUndoes
<1>5. CASE apc = "recovering"
  <2>1. /\ todo # <<>> /\ (todo' = Tail(todo) \/ todo' = <<>>) /\ apc' = apc /\ temp' = temp
        /\ excused' = TRUE /\ mode = "file"
    BY <1>5 DEF Raise, OutputInv
  <2>2. Recovering' /\ FilesTyped'
    BY <1>1, <1>5, <2>1, RecoveryStumbles DEF OutputInv
  <2> QED
    BY <1>1, <1>5, <2>1, <2>2 DEF OutputInv, Stages, SuccessIsClean, FailureUndoes
<1> QED
  BY <1>1, <1>2, <1>3, <1>4, <1>5

LEMMA KillOutputs == ASSUME OutputInv, Kill PROVE OutputInv'
<1>1. /\ apc \in {"reading", "promoting", "cleaning", "recovering"} /\ apc' = "killed"
      /\ todo' = <<>> /\ UNCHANGED <<mode, had, sink, temp, backup, noted, moved, excused>> /\ FilesTyped
  BY DEF Kill, OutputInv, sinkVars
<1>2. FilesTyped'
  BY <1>1, EmptySeq DEF FilesTyped
<1>3. mode = "file" => Kept \/ Replaced
  <2>1. Unmoved => Kept
    BY <1>1 DEF Unmoved, AsFound, Kept, Found, FilesTyped
  <2>2. Promoting => Kept
    BY DEF Promoting, Kept
  <2>3. (Recovering => Kept) /\ (Cleaning => Replaced)
    BY DEF Recovering, Cleaning
  <2> QED
    BY <1>1, <2>1, <2>2, <2>3 DEF OutputInv
<1>4. (Kept' <=> Kept) /\ (Replaced' <=> Replaced)
  BY <1>1 DEF Kept, Replaced
<1> QED
  BY <1>1, <1>2, <1>3, <1>4 DEF OutputInv, Stages, SuccessIsClean, FailureUndoes

LEMMA OutputStep == OutputInv /\ [Next]_vars => OutputInv'
<1> SUFFICES ASSUME OutputInv, [Next]_vars PROVE OutputInv'
  OBVIOUS
<1> USE DEF adapterVars, streamVars, sinkVars, upstreamVars
<1>1. CASE Adapting
  <2>1. CASE ReadLine
    BY <2>1, OutputsKeep DEF ReadLine
  <2> QED
    BY <1>1, <2>1, OpenOutputs, OpenFailsOutputs, EndOfInputOutputs, FileStepOutputs, RaiseOutputs,
       KillOutputs DEF Adapting, AdapterNext
<1>2. CASE Windowing
  <2>1. CASE ExtractorDies
    BY <2>1, OutputsKeep DEF ExtractorDies
  <2>2. CASE BridgeWindow
    BY <2>2, OutputsKeep DEF BridgeWindow, Bridging
  <2>3. CASE ReadPacket \/ EndOfCapture \/ WriteRow \/ Exit
    BY <2>3, OutputsKeep DEF ReadPacket, EndOfCapture, WriteRow, Exit
  <2> QED
    BY <1>2, <2>1, <2>2, <2>3 DEF Windowing, WindowNext
<1>3. CASE Hand \/ Reader \/ ReaderEnds \/ Tick
  BY <1>3, OutputsKeep DEF Hand, Reader, ReaderEnds, Tick
<1>4. CASE TakeUnparsed \/ TakeRecord
  <2>1. Taking
    BY <1>4 DEF TakeUnparsed, TakeRecord
  <2> QED
    BY <2>1, OutputsKeep DEF Taking
<1>5. CASE Poll
  BY <1>5, OutputsKeep DEF Poll, Quiet
<1>6. CASE Finalize
  BY <1>6, OutputsKeep DEF Finalize, Ending
<1>7. CASE UNCHANGED vars
  BY <1>7, OutputsKeep DEF vars
<1> QED
  BY <1>1, <1>2, <1>3, <1>4, <1>5, <1>6, <1>7 DEF Next

\* The two outputs of a run of the adapter's command line change together
\* (_promote_staged_output_paths_transactionally): wherever a step raises or the
\* process is killed, an earlier run's outputs are at their paths or in backups until
\* both new ones stand there; a run that succeeds leaves nothing beside them; and one
\* that raises leaves them as it found them, unless the exception fell between a rename
\* and its note, or the recovery failed as well.
THEOREM OutputsComeThrough == FairSpec => []OutputsSurvive
<1>1. OutputInv => OutputsSurvive
  <2> SUFFICES ASSUME OutputInv, mode = "file" PROVE OldOutputSurvives
    BY DEF OutputInv, OutputsSurvive
  <2>1. Unmoved \/ Promoting \/ Recovering => Kept
    BY DEF OutputInv, FilesTyped, Unmoved, AsFound, Found, Promoting, Recovering, Kept
  <2>2. (Cleaning => Replaced) /\ (SuccessIsClean /\ apc = "done" => Replaced)
    BY DEF Cleaning, SuccessIsClean, Replaced
  <2>3. Kept \/ Replaced
    BY <2>1, <2>2 DEF OutputInv, Stages
  <2> QED
    BY <2>3 DEF Kept, Replaced, OldOutputSurvives
<1> QED
  BY <1>1, OutputInit, OutputStep, PTL DEF FairSpec
=============================================================================
