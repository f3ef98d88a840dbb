------------------------- MODULE MCFactLifecycle -------------------------
(* Small instances of FactLifecycle for TLC. *)
EXTENDS FactLifecycle

\* Two versions in one family, and a key without a version.
MCFamily  == [k \in Keys |-> IF k \in {"api/v1", "api/v2"} THEN "api" ELSE ""]
MCVersion == [k \in Keys |-> CASE k = "api/v1" -> 1
                               [] k = "api/v2" -> 2
                               [] OTHER -> 0]

\* The newer version comes first in the collection.
MCId == [k \in Keys |-> IF k = "api/v2" THEN 1 ELSE 2]

TwoVersions == {"api/v1", "api/v2"}
OneOfEach   == {"api/v2", "note"}

\* Two scans at a time, over the embedded store a pair and the third, and the
\* other flagging scans alone.
TwoScans  ==
    [store : {"qdrant"}, scans : {{"StaleScan", "ConflictScan"},
                                  {"StaleScan", "SupersedeScan"},
                                  {"ConflictScan", "SupersedeScan"}}]
    \cup [store : {"embedded"}, scans : {{"StaleScan", "SupersedeScan"},
                                        {"ConflictScan"}}]
    \cup [store : {"qdrant", "embedded"}, scans : {{"LowConfidenceScan"},
                                                  {"ExpiredScan"}}]
StaleOnly == [store : {"qdrant"}, scans : {{"StaleScan"}}]
NoScans   == [store : {"qdrant", "embedded"}, scans : {{}}]

NoEdit == [status |-> Keep, supersedes |-> Keep, links |-> Keep,
           resolved |-> Keep, ttl |-> Keep, until |-> Keep, conf |-> Keep]

\* Request bodies that reach the editable fields the properties look at.
PlainEdits  == {NoEdit}
StatusEdits == {NoEdit, [NoEdit EXCEPT !.status = "rejected"]}
ScanEdits   == {[NoEdit EXCEPT !.supersedes = "api/v1"],
                [NoEdit EXCEPT !.status = "rejected", !.ttl = "none"]}
=============================================================================
