--------------------------- MODULE MCModelLoader ---------------------------
(* A disk of ten sectors that two model files may share, each a small      *)
(* model in the format and with the widths one exporter uses by default.   *)
EXTENDS ModelLoader

Small == [layers |-> 2, d |-> 8, heads |-> 2, kv |-> 1, dHead |-> 4,
          vocab |-> 48, ffn |-> 8]

Exported ==
    [test |-> CreateTestModel(2), gemma3 |-> ExportGemma3(10, Small, 2),
     smollm4 |-> ExportSmollmV4(Small, 2), smollm5 |-> ExportSmollmV5(Small, 2, 4, 4),
     smollm6 |-> ExportSmollmV6(Small, 4, 4, 4), gemma7 |-> ExportGemma3V7(Small, 4, 4),
     gemma8 |-> ExportGemma3V8(Small), gemma9 |-> ExportGemma3V9(Small)]
\* TLC computes Exported once, and would compute what a cfg assigns each time.
MCImages == Exported
============================================================================
