---------------------------- MODULE KernelTrace ----------------------------
(***************************************************************************)
(* scripts/parse_kernel_trace.py and the serial log it reads.  A kernel    *)
(* built with FJTRACE_ENABLED writes one record per operation of a forward *)
(* pass to COM1, where the console writes too: the console drops any       *)
(* character the port is not ready for, and prints generated tokens        *)
(* without a newline.  The machine may be reset or switched off.           *)
(***************************************************************************)
EXTENDS Integers, Sequences, FiniteSets

CONSTANTS
    Builds,         \* kernels that may write the log: schema version and ops
    SchemaVersion, OpNames,           \* what the script knows
    MaxGenerations, MaxPasses,        \* bounds: generations, passes of each
    SilentPasses    \* passes over BOS and prompt, which print no token

VARIABLES
    build,          \* the kernel that runs
    lines,          \* closed lines of the log that hold a record
    open,           \* the line the next character goes to
    phase,          \* "shell", "pass", "off", then "parsing", "parsed"
    generation,     \* number of generations
    passes,         \* passes of this generation
    opAt,           \* operation of the pass, past the last one at its end
    traceStep,      \* FJTRACE_ST_STEP
    emitted,        \* every record written as a whole
    report          \* the output and the counters of the script

traceVars == <<build, lines, open, phase, generation, passes, opAt, traceStep,
               emitted, report>>

(* What stands on a line, blanks aside: console text, a record, or the     *)
(* beginning of one.                                                       *)
Text == [kind |-> "text"]
Record(r) == [kind |-> "record", rec |-> r]
Cut == [kind |-> "cut"]
Add(line, f) == IF line # <<>> /\ f = Text /\ line[Len(line)] = Text
                THEN line ELSE Append(line, f)
Close(line) == IF \A i \in DOMAIN line : line[i] = Text
               THEN lines ELSE Append(lines, line)

Log == IF open = <<>> THEN lines ELSE Append(lines, open)

NoReport == [linesRead |-> 0, out |-> <<>>, malformed |-> 0, unknownOp |-> 0,
             nonMonotonic |-> 0, lastStep |-> -1, strict |-> FALSE,
             renumber |-> FALSE, exit |-> -1]

TraceStart(S) ==
    /\ build \in S
    /\ lines = <<>> /\ open = <<>> /\ phase = "shell" /\ generation = 0
    /\ passes = 0 /\ opAt = 1 /\ traceStep = 0 /\ emitted = <<>>
    /\ report = NoReport
TraceInit == TraceStart(Builds)

(* Printing without a newline, and lines of text: any character may be     *)
(* dropped, the newline too.                                               *)
PrintText == /\ open' \in {open, Add(open, Text)}
             /\ UNCHANGED lines
PrintLines == \/ PrintText
              \/ /\ lines' \in {Close(open), Close(Add(open, Text))}
                 /\ open' \in {<<>>, <<Text>>}
----------------------------------------------------------------------------
(* ask, infer: "Output: ", then tfm_generate_stream resets the step.       *)
Ask ==
    /\ phase = "shell" /\ generation < MaxGenerations
    /\ generation' = generation + 1 /\ traceStep' = 0
    /\ phase' = "pass" /\ passes' = 0 /\ opAt' = 1
    /\ PrintText
    /\ UNCHANGED <<build, emitted, report>>

(* A record goes to the open line and ends it.                             *)
NextRecord == [generation |-> generation, step |-> traceStep,
               version |-> build.version, op |-> build.ops[opAt]]
Emit ==
    /\ phase = "pass" /\ opAt <= Len(build.ops)
    /\ emitted' = Append(emitted, NextRecord)
    /\ lines' = Close(Append(open, Record(NextRecord))) /\ open' = <<>>
    /\ traceStep' = traceStep + 1 /\ opAt' = opAt + 1
    /\ UNCHANGED <<build, phase, generation, passes, report>>

(* A layer that cannot be loaded is left out, a pass that finds no         *)
(* embedding or no layer 0 emits nothing at all.                           *)
SkipLayer ==
    /\ phase = "pass" /\ opAt \in 2 .. Len(build.ops) - 1
    /\ opAt' = opAt + 1
    /\ UNCHANGED <<build, lines, open, phase, generation, passes, traceStep,
                   emitted, report>>
FailPass ==
    /\ phase = "pass" /\ opAt = 1
    /\ opAt' = Len(build.ops) + 1
    /\ UNCHANGED <<build, lines, open, phase, generation, passes, traceStep,
                   emitted, report>>

(* A pass of the decoding prints its token, a newline maybe among it; the  *)
(* end-of-text token is not printed.  The statistics end the generation.   *)
NextPass ==
    /\ phase = "pass" /\ opAt = Len(build.ops) + 1 /\ passes + 1 < MaxPasses
    /\ passes' = passes + 1 /\ opAt' = 1
    /\ IF passes < SilentPasses THEN UNCHANGED <<lines, open>> ELSE PrintLines
    /\ UNCHANGED <<build, phase, generation, traceStep, emitted, report>>
EndGeneration ==
    /\ phase = "pass" /\ opAt = Len(build.ops) + 1 /\ passes >= SilentPasses
    /\ phase' = "shell"
    /\ PrintLines
    /\ UNCHANGED <<build, generation, passes, opAt, traceStep, emitted, report>>

(* The machine stops within a record, maybe before the first key is out,   *)
(* or behind its closing brace; the log ends there or goes on with the     *)
(* messages of the next boot.                                              *)
Crash ==
    /\ phase = "pass" /\ opAt <= Len(build.ops)
    /\ phase' = "off"
    /\ \/ open' \in {Add(open, Text), Append(open, Cut)} /\ UNCHANGED emitted
       \/ /\ open' = Append(open, Record(NextRecord))
          /\ emitted' = Append(emitted, NextRecord)
    /\ UNCHANGED <<build, lines, generation, passes, opAt, traceStep, report>>
Boot ==
    /\ phase = "off" /\ phase' = "shell"
    /\ PrintLines
    /\ UNCHANGED <<build, generation, passes, opAt, traceStep, emitted, report>>
----------------------------------------------------------------------------
(* _validate_record                                                        *)
ValidateRecord(r) == IF r.version # SchemaVersion THEN "malformed"
                     ELSE IF r.op \notin OpNames THEN "unknown op" ELSE "valid"

\* Mutant: a step that repeats the last one does not go back.
RestartedLess(stats, r) == stats.lastStep # -1 /\ r.step < stats.lastStep

Restarted(stats, r) == stats.lastStep # -1 /\ r.step <= stats.lastStep

(* A line is a candidate if it starts with a record; what follows the      *)
(* record makes it malformed.                                              *)
Candidate(line) == line[1] # Text
Verdict(line) == IF Len(line) > 1 \/ line[1] = Cut THEN "malformed"
                 ELSE ValidateRecord(line[1].rec)
Output(stats, r) == IF stats.renumber THEN [r EXCEPT !.step = Len(stats.out)] ELSE r
ParseLine(stats, line) ==
    CASE ~Candidate(line) -> stats
      [] Candidate(line) /\ Verdict(line) = "malformed" -> [stats EXCEPT !.malformed = @ + 1]
      [] Candidate(line) /\ Verdict(line) = "unknown op" -> [stats EXCEPT !.unknownOp = @ + 1]
      [] OTHER -> [stats EXCEPT
                     !.nonMonotonic = IF Restarted(stats, line[1].rec) THEN @ + 1 ELSE @,
                     !.lastStep = line[1].rec.step,
                     !.out = Append(@, Output(stats, line[1].rec))]

\* Mutant: a last line that no newline ends is left out.
LinesClosed == Len(lines)

LinesToRead == Len(Log)

(* _main opens the log, as far as it was written; parse_stream goes over   *)
(* it line by line.                                                        *)
Main ==
    /\ phase \in {"shell", "off"} /\ phase' = "parsing"
    /\ \E renumber \in BOOLEAN : report' = [NoReport EXCEPT !.renumber = renumber]
    /\ UNCHANGED <<build, lines, open, generation, passes, opAt, traceStep, emitted>>
ParseStream ==
    /\ phase = "parsing" /\ report.linesRead < LinesToRead
    /\ report' = [ParseLine(report, Log[report.linesRead + 1]) EXCEPT !.linesRead = @ + 1]
    /\ UNCHANGED <<build, lines, open, phase, generation, passes, opAt, traceStep, emitted>>

(* Only here --strict makes a difference.                                  *)
ExitCode(stats) == IF stats.strict /\ (stats.malformed > 0 \/ stats.unknownOp > 0) THEN 2
                   ELSE IF stats.out = <<>> THEN 3 ELSE 0
Exit ==
    /\ phase = "parsing" /\ report.linesRead = LinesToRead /\ phase' = "parsed"
    /\ \E strict \in BOOLEAN :
          LET stats == [report EXCEPT !.strict = strict]
          IN report' = [stats EXCEPT !.exit = ExitCode(stats)]
    /\ UNCHANGED <<build, lines, open, generation, passes, opAt, traceStep, emitted>>

TraceNext ==
    \/ Ask \/ Emit \/ SkipLayer \/ FailPass \/ NextPass \/ EndGeneration
    \/ Crash \/ Boot \/ Main \/ ParseStream \/ Exit

TraceSpec == TraceInit /\ [][TraceNext]_traceVars
----------------------------------------------------------------------------
(* A record is lost when it does not stand alone on its line.              *)
Alone(r) == \E i \in DOMAIN Log : Log[i] = <<Record(r)>>
Lost == {i \in DOMAIN emitted : ~Alone(emitted[i])}

(* What the script writes is what the kernel emitted, in the order it did, *)
(* short of the records the console spoiled and of those of another        *)
(* schema: no reset, cut record or failed pass removes or swaps another.   *)
(* Renumbered steps count the records that are left, from 0.               *)
Kept == {i \in DOMAIN emitted :
            Alone(emitted[i]) /\ ValidateRecord(emitted[i]) = "valid"}
Rank(i) == Cardinality({j \in Kept : j <= i})
OutputExact ==
    phase = "parsed" =>
        /\ Len(report.out) = Cardinality(Kept)
        /\ \A i \in Kept :
              report.out[Rank(i)] = IF report.renumber
                                    THEN [emitted[i] EXCEPT !.step = Rank(i) - 1]
                                    ELSE emitted[i]

(* The warning about steps that go back tells how often generation started *)
(* over, provided no record was lost, and is never given for a log of one  *)
(* generation, whatever was lost.                                          *)
RestartsNoticed ==
    phase = "parsed" /\ report.out # <<>> =>
        LET restarts == Cardinality({report.out[i].generation : i \in DOMAIN report.out}) - 1
        IN /\ report.nonMonotonic <= restarts
           /\ Lost = {} => report.nonMonotonic = restarts

(* "one complete object per line, with no prefix": an export that --strict *)
(* accepts holds every record of the kernel's.                             *)
TraceComplete ==
    phase = "parsed" /\ report.strict /\ report.exit = 0
        => Len(report.out) = Len(emitted)
============================================================================
