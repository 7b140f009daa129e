---------------------------- MODULE RecordAdapter ----------------------------
(***************************************************************************)
(* What the record adapter (runtime/adapter/record_adapter.py) makes of an  *)
(* upstream record under a profile, and what the feature contract           *)
(* (core/feature_contract.py) makes of a record that wants to be scored.    *)
(*                                                                         *)
(* A record is a sequence of fields, as a dict keeps them; its keys are     *)
(* pairwise distinct.  A value is reduced to what the rules look at, whether*)
(* it is a finite number, and to the key it came under.                     *)
(***************************************************************************)
EXTENDS Sequences, Naturals

CONSTANTS
    Strip,         \* str.strip of every raw key, "" for a blank one
    Columns,       \* feature_columns of the contract
    Aliases,       \* its alias_map: DEFAULT_ALIAS_MAP, also where {} was asked for
    MetadataKeys,  \* ADAPTER_UPSTREAM_METADATA_KEYS
    ProfileKey     \* "adapter_profile"

Field(key, numeric) == [key |-> key, origin |-> key, numeric |-> numeric]

OneToOne(map) == \A k, l \in DOMAIN map : map[k] = map[l] => k = l

Targets(map) == {map[k] : k \in DOMAIN map}

Disjoint(sets) == \A i, j \in DOMAIN sets : i # j => sets[i] \cap sets[j] = {}

\* What the contract checks of its alias map, and what holds of the one it has:
\* no alias is a column, or a key that the adapter puts into its output.
ASSUME ContractAssumption ==
    /\ Targets(Aliases) \subseteq Columns
    /\ Disjoint(<<DOMAIN Aliases, Columns, MetadataKeys \cup {ProfileKey}>>)
    /\ ProfileKey \notin MetadataKeys

\* accepted_source_keys
Accepted(p) == DOMAIN p.features \cup DOMAIN p.metadata \cup p.extras

\* _validate_profile_contract_compatibility: the adapter takes only a registry whose
\* profiles fill the columns of its contract, all of them and no others.
FillsContract(p) == Targets(p.features) = Columns

\* AdapterProfileDefinition.__post_init__, and that check.
IsProfile(p) ==
    /\ \A key \in Accepted(p) : Strip[key] = key /\ key # ""
    /\ OneToOne(p.features) /\ OneToOne(p.metadata)
    /\ Disjoint(<<DOMAIN p.features, DOMAIN p.metadata, p.extras>>)
    /\ Disjoint(<<p.extras, MetadataKeys>>)
    /\ Disjoint(<<Targets(p.features), Targets(p.metadata)>>)
    /\ Targets(p.metadata) \subseteq MetadataKeys
    /\ FillsContract(p)

\* What those checks do not ask for and the shipped profiles keep to: no extra
\* that the contract could take for a column, or for the adapter's own field.
IsClosed(p) == Disjoint(<<p.extras, Columns \cup DOMAIN Aliases \cup {ProfileKey}>>)

-----------------------------------------------------------------------------
(* The contract.                                                           *)

Name(map, key) == IF key \in DOMAIN map THEN map[key] ELSE key

\* Two fields go by one name.
Clash(names) == \E i, j \in DOMAIN names : i # j /\ names[i] = names[j]

Align(record, names) ==
    LET Source(c) == record[CHOOSE i \in DOMAIN record : names[i] = c]
    IN  IF \E c \in Columns : \A i \in DOMAIN record : names[i] # c
        THEN [verdict |-> "missing_required_features"]
        ELSE IF \E c \in Columns : ~Source(c).numeric
        THEN [verdict |-> "non_numeric_required_features"]
        ELSE [verdict |-> "valid", aligned |-> [c \in Columns |-> Source(c).origin]]

\* SLIP: of two fields with one name, some field wins.
Validate_AnyWins(record) ==
    Align(record, [i \in DOMAIN record |-> Name(Aliases, record[i].key)])

\* FlowFeatureContract.validate_record: the verdict, and for a valid record
\* where each column's value comes from.
Validate(record) ==
    LET names == [i \in DOMAIN record |-> Name(Aliases, record[i].key)]
    IN  IF Clash(names) THEN [verdict |-> "alias_collision"] ELSE Align(record, names)

-----------------------------------------------------------------------------
(* The adapter.                                                            *)

\* partition_source_record: what a source key becomes.
Renamed(p, key) == IF key \in DOMAIN p.features THEN p.features[key] ELSE Name(p.metadata, key)

\* The record handed to the contract: every field under its target, and the
\* profile's own id.
AdapterInput(p, record) ==
    Append([i \in DOMAIN record |->
              [record[i] EXCEPT !.key = Renamed(p, Strip[record[i].key])]],
           Field(ProfileKey, FALSE))

\* StructuredRecordAdapter.adapt_record: why it quarantines the record, or
\* "valid" and the adapted record.
Adapt(p, record) ==
    LET keys == [i \in DOMAIN record |-> Strip[record[i].key]]
        mapped == {i \in DOMAIN record : keys[i] \in Accepted(p)}
        input == AdapterInput(p, record)
    IN  IF \E i \in DOMAIN keys : keys[i] = "" THEN [verdict |-> "blank_source_keys"]
        ELSE IF Clash(keys) THEN [verdict |-> "normalized_key_collision"]
        ELSE IF Clash([i \in mapped |-> input[i].key]) THEN [verdict |-> "alias_collision"]
        ELSE IF mapped # DOMAIN record THEN [verdict |-> "unmapped_source_fields"]
        ELSE Validate(input)
=============================================================================
