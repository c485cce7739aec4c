----------------------------- MODULE Quantizer -----------------------------
(***************************************************************************)
(* What the exporters do to the weights of one matrix, and what the kernel *)
(* makes of the result.  A matrix is compressed to indices into a codebook *)
(* of 2^bits centroids found by Lloyd-Max (v4 to v7), or to indices with a *)
(* scale and a zero point for every group of weights (v8, v9).             *)
(*                                                                         *)
(* Weights are multiples of 1/WeightUnit, centroids of 1/(WeightUnit*Unit) *)
(* with Unit divisible by whatever the means and the percentiles divide    *)
(* by.  Two codebooks are close, as allclose has it, if they are equal.    *)
(***************************************************************************)
EXTENDS Integers, Sequences, FiniteSets

CONSTANTS
    Matrices,          \* the weights that are exported
    Exporters,         \* name -> [iters, final], see the table below
    BitsSet,           \* --bits
    SampleSize,        \* weights the percentiles are taken from (5,000,000)
    Unit, WeightUnit,  \* fractions of a weight, see above
    GroupSize,         \* GROUP_SIZE, and 128 in the kernel
    ScaleFixedPoint    \* SCALE_FIXED_POINT (1,000,000)

(* km_vecmat_packed_v8 looks for the scales behind total/2 bytes of v8, so *)
(* a matrix has an even number of weights, as all of the exported ones do. *)
ASSUME MatrixAssumption ==
    \A w \in Matrices : w \in Seq(Int) /\ w # <<>> /\ Len(w) % 2 = 0
ASSUME UnitAssumption ==
    /\ GroupSize \in Nat \ {0} /\ WeightUnit \in Nat \ {0}
    /\ ScaleFixedPoint \in Nat \ {0} /\ SampleSize \in Nat \ {0}
    /\ Unit \in Nat \ {0}
(* A mean of weights, of which there are Len(w) at most, is then exact.    *)
ASSUME MeanAssumption == \A w \in Matrices : \A k \in 1 .. Len(w) : Unit % k = 0
(* An index of more bits than a byte has no place in one.                  *)
ASSUME BitsAssumption == BitsSet \subseteq 1 .. 8

VARIABLES
    matrix,      \* the weights
    exporter,    \* the script
    width,       \* bits of an index
    stage,       \* "read", "iterate", "packed", "grouped"
    rounds,      \* iterations done
    centroids,   \* the codebook
    converged,   \* the loop was left by its break
    indices,     \* index of every weight
    packed,      \* the bytes of the indices
    groups,      \* scale and zero of every group
    gate         \* what validate_roundtrip says of the matrix

quantVars == <<matrix, exporter, width, stage, rounds, centroids, converged,
               indices, packed, groups, gate>>

QuantStart(S) ==
    /\ matrix \in S /\ stage = "read"
    /\ exporter = "none" /\ width = 0 /\ rounds = 0 /\ centroids = <<>>
    /\ converged = FALSE /\ indices = <<>> /\ packed = <<>> /\ groups = <<>>
    /\ gate = "none"
QuantInit == QuantStart(Matrices)
----------------------------------------------------------------------------
(* Lloyd-Max: percentiles of a sample to begin with, interpolated between  *)
(* the weights that are next to each other in the order of their size; the *)
(* r-th of these is the least that r of them do not exceed.                *)
Ranked(w, sample, r) ==
    LET Reached(x) == r <= Cardinality({n \in sample : w[n] <= x})
    IN CHOOSE x \in {w[n] : n \in sample} :
          Reached(x) /\ \A n \in sample : Reached(w[n]) => x <= w[n]
Percentiles(w, sample, k) ==
    LET Position(i) == (i + 1) * (Cardinality(sample) - 1)
        Low(i) == Ranked(w, sample, Position(i) \div (k + 1) + 1)
        High(i) == Ranked(w, sample, Position(i) \div (k + 1) + 2)
        Rest(i) == Position(i) % (k + 1)
    IN [i \in 0 .. k - 1 |->
          Low(i) * Unit
            + (IF Rest(i) = 0 THEN 0
               ELSE ((High(i) - Low(i)) * Unit * Rest(i)) \div (k + 1))]

Samples(w) ==     \* by position
    IF Len(w) <= SampleSize THEN {DOMAIN w}
    ELSE {S \in SUBSET DOMAIN w : Cardinality(S) = SampleSize}

Sums(s) ==        \* of the first n numbers of s
    LET sum[n \in 0 .. Len(s)] == IF n = 0 THEN 0 ELSE sum[n - 1] + s[n] IN sum
SumOf(s) == Sums(s)[Len(s)]

Square(x) == x * x
Distance(w, c) == Square(w * Unit - c)
Nearest(w, book) ==      \* argmin: the first of the nearest
    CHOOSE i \in DOMAIN book :
        /\ \A j \in DOMAIN book : Distance(w, book[i]) <= Distance(w, book[j])
        /\ \A j \in 0 .. i - 1 : Distance(w, book[i]) # Distance(w, book[j])
Assign(ws, book) == [n \in DOMAIN ws |-> Nearest(ws[n], book)]

\* Mutant: the count begins at one, so that it never divides by zero.
MeansShrunk(ws, ix, book) ==
    [i \in DOMAIN book |->
        LET mine == {n \in DOMAIN ws : ix[n] = i}
        IN (SumOf([n \in DOMAIN ws |-> IF n \in mine THEN ws[n] ELSE 0]) * Unit)
              \div (1 + Cardinality(mine))]

(* A centroid moves to the mean of its weights, and stays if it has none.  *)
Means(ws, ix, book) ==
    [i \in DOMAIN book |->
        LET mine == {n \in DOMAIN ws : ix[n] = i}
        IN IF mine = {} THEN book[i]
           ELSE (SumOf([n \in DOMAIN ws |-> IF n \in mine THEN ws[n] ELSE 0]) * Unit)
                  \div Cardinality(mine)]

\* Mutant: the first index goes to the highest bits.
PackIndicesHigh(ix, bits) ==
    LET each == 8 \div bits
        Part(b, i) == LET n == b * each + i
                      IN IF n <= Len(ix) THEN (ix[n] % 2^bits) * 2^((each - i) * bits) ELSE 0
    IN [b \in 0 .. (Len(ix) + each - 1) \div each - 1 |-> SumOf([i \in 1 .. each |-> Part(b, i)])]

(* pack_quantized, and how the kernel reads an index back.                 *)
PackIndices(ix, bits) ==
    LET each == 8 \div bits
        Part(b, i) == LET n == b * each + i
                      IN IF n <= Len(ix) THEN (ix[n] % 2^bits) * 2^((i - 1) * bits) ELSE 0
    IN [b \in 0 .. (Len(ix) + each - 1) \div each - 1 |-> SumOf([i \in 1 .. each |-> Part(b, i)])]
ReadIndex(bytes, n, bits) ==
    LET each == 8 \div bits
        raw == bytes[(n - 1) \div each]
    IN (raw \div 2^(((n - 1) % each) * bits)) % 2^bits

BeginLloyd(e, bits) ==
    /\ stage = "read" /\ stage' = "iterate"
    /\ exporter' = e /\ width' = bits
    /\ \E s \in Samples(matrix) :
          centroids' = Percentiles(matrix, s, 2^bits)
    /\ UNCHANGED <<matrix, rounds, converged, indices, packed, groups, gate>>

Iterate ==
    /\ stage = "iterate" /\ ~converged /\ rounds < Exporters[exporter].iters
    /\ rounds' = rounds + 1
    /\ indices' = Assign(matrix, centroids)
    /\ centroids' = Means(matrix, indices', centroids)
    /\ converged' = (centroids' = centroids)
    /\ UNCHANGED <<matrix, exporter, width, stage, packed, groups, gate>>

(* The assignment to the last centroids, which export_gemma3_v7.py leaves  *)
(* out, and the packing.                                                   *)
PackMatrix ==
    /\ stage = "iterate" /\ (converged \/ rounds = Exporters[exporter].iters)
    /\ stage' = "packed"
    /\ indices' = IF Exporters[exporter].final THEN Assign(matrix, centroids) ELSE indices
    /\ packed' = PackIndices(indices', width)
    /\ UNCHANGED <<matrix, exporter, width, rounds, centroids, converged, groups, gate>>
----------------------------------------------------------------------------
(* round(): to the nearest integer, a half to the even one.                *)
RoundHalfEven(num, den) ==
    LET low == num \div den
        twice == 2 * (num - low * den)
    IN IF twice < den \/ (twice = den /\ low % 2 = 0) THEN low ELSE low + 1
Clip(x, levels) == IF x < 0 THEN 0 ELSE IF x > levels THEN levels ELSE x

LowestOf(ws) == CHOOSE x \in {ws[n] : n \in DOMAIN ws} : \A n \in DOMAIN ws : x <= ws[n]
HighestOf(ws) == CHOOSE x \in {ws[n] : n \in DOMAIN ws} : \A n \in DOMAIN ws : ws[n] <= x
SpreadOf(ws) == HighestOf(ws) - LowestOf(ws)
GroupOf(ws, g) == SubSeq(ws, g * GroupSize + 1,
                         IF (g + 1) * GroupSize < Len(ws) THEN (g + 1) * GroupSize ELSE Len(ws))

(* A group of equal weights has scale 1 and one index for all of them.     *)
QuantizeGroup(ws, levels) ==
    LET spread == SpreadOf(ws)
        lowest == LowestOf(ws)
        zero == IF spread = 0 THEN Clip(RoundHalfEven(-lowest, WeightUnit), levels)
                ELSE Clip(RoundHalfEven(-lowest * levels, spread), levels)
    IN [zero |-> zero,
        scale |-> IF spread = 0 THEN ScaleFixedPoint
                  ELSE RoundHalfEven(spread * ScaleFixedPoint, levels * WeightUnit),
        q |-> [n \in DOMAIN ws |->
                 IF spread = 0 THEN zero
                 ELSE Clip(RoundHalfEven(ws[n] * levels + zero * spread, spread), levels)]]
QuantizeGroups(ws, levels) ==
    [g \in 0 .. (Len(ws) + GroupSize - 1) \div GroupSize - 1 |->
        QuantizeGroup(GroupOf(ws, g), levels)]
GroupNumber(n) == (n - 1) \div GroupSize
GroupIndices(ws, gs) ==
    [n \in DOMAIN ws |-> gs[GroupNumber(n)].q[((n - 1) % GroupSize) + 1]]

\* Mutant: the first index of a byte goes to its high half.
PackIndicesSwapped(ix) ==
    [b \in 0 .. (Len(ix) + 1) \div 2 - 1 |->
        16 * ix[2 * b + 1] + (IF 2 * b + 2 <= Len(ix) THEN ix[2 * b + 2] ELSE 0)]

(* v8 packs two indices to a byte, v9 keeps a byte each.                   *)
PackIndices4bit(ix) ==
    [b \in 0 .. (Len(ix) + 1) \div 2 - 1 |->
        ix[2 * b + 1] + (IF 2 * b + 2 <= Len(ix) THEN 16 * ix[2 * b + 2] ELSE 0)]
RawIndices(ix) == [b \in 0 .. Len(ix) - 1 |-> ix[b + 1]]

(* dequantize, and km_vecmat_packed_v8 on the packed bytes.                *)
Dequantized(q, group) == (q - group.zero) * group.scale
Dequantize(ix, gs) == [n \in DOMAIN ix |-> Dequantized(ix[n], gs[GroupNumber(n)])]
KernelWeight(bytes, gs, n, bits) ==
    Dequantized(IF bits = 8 THEN bytes[n - 1] ELSE ReadIndex(bytes, n, 4),
                gs[GroupNumber(n)])

(* validate_roundtrip: the worst error is less than 5 % (v8) or 1 % (v9)   *)
(* of the range of the matrix.                                             *)
AbsErr(x, w) == LET e == x * WeightUnit - w * ScaleFixedPoint IN IF e < 0 THEN -e ELSE e
Within(x, w, percent) ==
    100 * AbsErr(x, w) < percent * SpreadOf(matrix) * ScaleFixedPoint
Percent(bits) == IF bits = 4 THEN 5 ELSE 1
ValidateRoundtrip(values, bits) ==
    IF \A n \in DOMAIN matrix : Within(values[n], matrix[n], Percent(bits))
    THEN "pass" ELSE "fail"

QuantizeMatrix(bits) ==
    LET gs == QuantizeGroups(matrix, 2^bits - 1)
        ix == GroupIndices(matrix, gs)
    IN /\ stage = "read" /\ stage' = "grouped"
       /\ width' = bits /\ exporter' = "grouped"
       /\ indices' = ix
       /\ groups' = [g \in DOMAIN gs |-> [zero |-> gs[g].zero, scale |-> gs[g].scale]]
       /\ packed' = IF bits = 4 THEN PackIndices4bit(ix) ELSE RawIndices(ix)
       /\ gate' = ValidateRoundtrip(Dequantize(ix, gs), bits)
       /\ UNCHANGED <<matrix, rounds, centroids, converged>>

QuantNext ==
    \/ \E e \in DOMAIN Exporters, bits \in BitsSet : BeginLloyd(e, bits)
    \/ Iterate \/ PackMatrix
    \/ \E bits \in {4, 8} : QuantizeMatrix(bits)

QuantSpec == QuantInit /\ [][QuantNext]_quantVars
----------------------------------------------------------------------------
(* The kernel looks every weight up at the centroid nearest to it, also    *)
(* where a packed byte is not full and where a centroid has no weights.    *)
(* Only a script that stops before it converged and assigns no more may    *)
(* leave a weight elsewhere.                                               *)
DecodedNearest ==
    stage = "packed" /\ (converged \/ Exporters[exporter].final) =>
        \A n \in DOMAIN matrix, j \in DOMAIN centroids :
            Distance(matrix[n], centroids[ReadIndex(packed, n, width)])
                <= Distance(matrix[n], centroids[j])

(* No iteration makes the codebook worse: what the weights lie off their   *)
(* nearest centroids, squared and summed, never grows.                     *)
Distortion(book) ==
    SumOf([n \in DOMAIN matrix |-> Distance(matrix[n], book[Nearest(matrix[n], book)])])
DistortionFalls == [][Iterate => Distortion(centroids') <= Distortion(centroids)]_quantVars

(* The weights the kernel computes are within half a step of the exported  *)
(* ones, more only by what the scale is rounded and by the distance of a   *)
(* group from 0, as zero points end at 0 and at the last level.  So the    *)
(* round trip of a matrix whose groups all reach to 0 passes the gate if   *)
(* its range is not too small for the fixed point the scales are stored    *)
(* in, and a matrix that passes it is as good in the kernel.               *)
GapOf(ws) == IF LowestOf(ws) > 0 THEN LowestOf(ws)
             ELSE IF HighestOf(ws) < 0 THEN -HighestOf(ws) ELSE 0
ErrorBound(ws, levels) ==
    SpreadOf(ws) * ScaleFixedPoint + 2 * levels * GapOf(ws) * ScaleFixedPoint
        + levels * levels * WeightUnit
SpansEnough == 16000 * WeightUnit <= SpreadOf(matrix) * ScaleFixedPoint
GroupwiseDecoded ==
    stage = "grouped" =>
        /\ \A n \in DOMAIN matrix :
              LET x == KernelWeight(packed, groups, n, width)
                  levels == 2^width - 1
              IN /\ 2 * levels * AbsErr(x, matrix[n])
                       <= ErrorBound(GroupOf(matrix, GroupNumber(n)), levels)
                 /\ gate = "pass" => Within(x, matrix[n], Percent(width))
        /\ SpansEnough /\ (\A g \in DOMAIN groups : GapOf(GroupOf(matrix, g)) = 0)
              => gate = "pass"
============================================================================
