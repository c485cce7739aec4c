------------------------------- MODULE Tools -------------------------------
(***************************************************************************)
(* The host scripts side by side, each with the part of the kernel that    *)
(* reads or writes its files.  They share no state, so a behaviour         *)
(* exercises one of them; the exporters of whole models are in             *)
(* ModelLoader.                                                            *)
(***************************************************************************)
EXTENDS Quantizer, KernelTrace, Tokenizer, TestDisk, MemoryMap, IntllmTiny

VARIABLE script     \* the script that is used

Others(s) ==
    /\ s # "quantize" => UNCHANGED quantVars
    /\ s # "trace" => UNCHANGED traceVars
    /\ s # "tokenizer" => UNCHANGED tokVars
    /\ s # "test_disk" => UNCHANGED diskVars
    /\ s # "memory_map" => UNCHANGED mapVars
    /\ s # "intllm" => UNCHANGED v9Vars

(* The script that is used may get any of its inputs, the others have one. *)
InputsOf(s, S) == IF script = s THEN S ELSE {CHOOSE x \in S : TRUE}
ToolsInit ==
    /\ script \in {"quantize", "trace", "tokenizer", "test_disk", "memory_map", "intllm"}
    /\ QuantStart(InputsOf("quantize", Matrices))
    /\ TraceStart(InputsOf("trace", Builds))
    /\ TokInit
    /\ DiskStart(InputsOf("test_disk", Manifests))
    /\ MapStart(InputsOf("memory_map", RegionLists))
    /\ V9Start(InputsOf("intllm", Shapes))

ToolsNext ==
    /\ UNCHANGED script
    /\ Others(script)
    /\ \/ script = "quantize" /\ QuantNext
       \/ script = "trace" /\ TraceNext
       \/ script = "tokenizer" /\ TokNext
       \/ script = "test_disk" /\ DiskNext
       \/ script = "memory_map" /\ MapNext
       \/ script = "intllm" /\ V9Next

toolsVars == <<script, quantVars, traceVars, tokVars, diskVars, mapVars, v9Vars>>
ToolsSpec == ToolsInit /\ [][ToolsNext]_toolsVars
=============================================================================
