--------------------------- MODULE MCServiceAccess ---------------------------
(***************************************************************************)
(* ServiceAccess for every kind of write the tables know: a put of one key *)
(* by a service or a model, the fields of every block pairwise, the        *)
(* profile of a device, and the keys that are only assigned.               *)
(***************************************************************************)
EXTENDS ServiceAccess, DeviceCatalogue

\* Of the field that is written only matters whether reading it raises, and
\* whether its values are listed: one way stands for all that agree in that.
Alike(w) == [absent |-> IF w.absent = "raises" THEN "raises" ELSE "default",
             odd |-> IF w.odd \in {"raises", "value"} THEN w.odd ELSE "default"]

PutCases ==
    {[f |-> Alike(s.reads[k]), g |-> Default, fill |-> "none", patch |-> FALSE, guarded |-> FALSE,
      order |-> "none", stores |-> FALSE, split |-> FALSE, local |-> FALSE] : <<s, k>> \in UNION {
        {SERVICE_MAPPING[id]} \X UNION {Written(MODEL_MAPPING[m], id) : m \in SUPPORTED_MODELS}
            : id \in SUPPORTED_DEVICE_SERVICE_IDS}}

BlockCases ==
    UNION {UNION {
        {[f |-> Alike(s.reads[p[1]]), g |-> s.reads[p[2]],
          fill |-> IF p[2] \in b.raw THEN "raw" ELSE "decoded", patch |-> p[1] \in b.raw,
          guarded |-> b.guarded,
          order |-> IF ~b.ordered THEN "none"
                    ELSE IF p[1] = "minBrightness" THEN "low" ELSE "high",
          stores |-> FALSE, split |-> "sync" \in b.flavours /\ p[2] \notin b.raw,
          local |-> FALSE] : p \in {x \in b.set \X b.fields : x[1] # x[2] \/ x[1] \in b.raw}}
        : b \in s.blocks} : s \in {SERVICE_MAPPING[id] : id \in SUPPORTED_DEVICE_SERVICE_IDS}}

ProfileCase == [f |-> Alike(Optional), g |-> Default, fill |-> "raw", patch |-> FALSE,
                guarded |-> FALSE, order |-> "none", stores |-> TRUE, split |-> FALSE,
                local |-> FALSE]

LocalCases ==
    UNION {{[f |-> Alike(s.reads[k]), g |-> Default, fill |-> "none", patch |-> FALSE,
             guarded |-> FALSE, order |-> "none", stores |-> FALSE, split |-> FALSE,
             local |-> TRUE] : k \in s.local}
        : s \in {SERVICE_MAPPING[id] : id \in SUPPORTED_DEVICE_SERVICE_IDS}}

MCCases == PutCases \cup BlockCases \cup {ProfileCase} \cup LocalCases
=============================================================================
