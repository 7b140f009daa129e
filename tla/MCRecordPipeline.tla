--------------------------- MODULE MCRecordPipeline ---------------------------
(* RecordPipeline on a small instance: two columns, the two shipped profiles in *)
(* miniature, and a stream for each way a record can go wrong.                  *)
EXTENDS RecordPipeline

MCColumns == {"SrcPort72", "Dur72"}
MCAliases == ("SrcPort" :> "SrcPort72")
MCKeys == MCColumns \cup {"SrcPort", "SourcePort", "Duration", "flow_id", " flow_id", "trace_id",
                          "capture_mode", " "}
MCStrip == [k \in MCKeys |-> CASE k = " flow_id" -> "flow_id" [] k = " " -> "" [] OTHER -> k]
MCPrimary == [features |-> ("SrcPort" :> "SrcPort72" @@ "Dur72" :> "Dur72"),
              metadata |-> ("flow_id" :> "source_flow_id"), extras |-> {"capture_mode"}]
MCSecondary == [features |-> ("SourcePort" :> "SrcPort72" @@ "Duration" :> "Dur72"),
                metadata |-> ("trace_id" :> "source_flow_id"), extras |-> {"capture_mode"}]

MCProfiles == {MCPrimary, MCSecondary}

Record(fields) == [form |-> "record", long |-> FALSE, record |-> fields]
Line(form, long) == [form |-> form, long |-> long, record |-> <<>>]
Number(key) == Field(key, TRUE)

P == <<Number("SrcPort"), Number("Dur72")>>
S == <<Number("SourcePort"), Number("Duration")>>

MCInputs == {
    <<Record(P), Record(S), Record(P)>>,
    <<Record(P), Line("blank", FALSE), Record(P \o <<Number("capture_mode")>>)>>,
    <<Record(<<Number("Dur72"), Field("SrcPort", FALSE)>>), Line("not_json", FALSE), Record(P)>>,
    <<Record(P \o <<Number("SrcPort72")>>),
      Record(P \o <<Number("flow_id"), Number(" flow_id")>>)>>,
    <<Record(S \o <<Number("SrcPort72")>>), Record(S \o <<Number(" ")>>),
      Record(<<Number("SrcPort")>>)>>,
    <<Line("not_object", FALSE), Line("blank", TRUE), Record(S)>> }

\* Two conversations between the same hosts, replies before and after a pause,
\* a frame that is not IPv4, a capture out of order, and an empty one.
Frame(src, dst, proto, time) == [src |-> src, dst |-> dst, proto |-> proto, time |-> time]
MCCaptures == {
    <<>>,
    <<Frame(1, 2, 6, 3), Frame(2, 1, 6, 0), Frame(1, 2, 17, 1), Frame(2, 1, 6, 5)>>,
    <<Frame(2, 1, 6, 2), Frame(1, 2, 0, 2), Frame(1, 2, 6, 0), Frame(1, 2, 6, 6)>>,
    <<Frame(1, 1, 17, 4), Frame(1, 2, 6, 4), Frame(2, 1, 6, 4), Frame(1, 1, 17, 5)>> }
=============================================================================
