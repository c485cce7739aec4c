------------------------- MODULE ModelLoaderProofs -------------------------
(***************************************************************************)
(* What the loader derives from a header is where the exporter put it, for *)
(* every model whose matrices fill their last byte, and whatever is        *)
(* written, loaded or failed to load before, no other model's layer is     *)
(* used.                                                                   *)
(***************************************************************************)
EXTENDS ModelLoader, TLAPS

Positive == Nat \ {0}
Models == [layers : Positive, d : Positive, heads : Positive, kv : Positive,
           dHead : Positive, vocab : Positive, ffn : Positive]
Widths == {1, 2, 4, 8}

(* n indices of the given width fill their last byte.                      *)
FillsBytes(n, bits) == n % (8 \div bits) = 0
LayersFill(c, bits) ==
    /\ FillsBytes(QElements(c), bits) /\ FillsBytes(KvElements(c), bits)
    /\ FillsBytes(OElements(c), bits) /\ FillsBytes(FfnElements(c), bits)
EmbedFills(c, bits) == FillsBytes(EmbedElements(c), bits)

----------------------------------------------------------------------------
(* Sizes                                                                   *)

(* The bytes of packed indices, as the exporter counts them and as the     *)
(* loader does.                                                            *)
LEMMA PackedSize ==
    ASSUME NEW n \in Nat, NEW bits \in Widths, FillsBytes(n, bits)
    PROVE  /\ (n * bits) \div 8 = PackQuantized(n, bits)
           /\ PackQuantized(n, bits) \in Nat
  <1>1. CASE bits = 1
    BY <1>1 DEF FillsBytes, PackQuantized, CeilDiv
  <1>2. CASE bits = 2
    BY <1>2 DEF FillsBytes, PackQuantized, CeilDiv
  <1>3. CASE bits = 4
    BY <1>3 DEF FillsBytes, PackQuantized, CeilDiv
  <1>4. CASE bits = 8
    BY <1>4 DEF FillsBytes, PackQuantized, CeilDiv
  <1> QED
    BY <1>1, <1>2, <1>3, <1>4 DEF Widths

(* The same of group-wise matrices of four and of eight bits.              *)
LEMMA GroupedSize ==
    ASSUME NEW n \in Nat
    PROVE  /\ FillsBytes(n, 4) =>
                n \div 2 + ((n + 127) \div 128) * 5 = SerializeMatrixV8(n)
           /\ n + ((n + 127) \div 128) * 5 = SerializeMatrixV9(n)
           /\ SerializeMatrixV8(n) \in Nat
           /\ SerializeMatrixV9(n) \in Nat
  <1>1. (n + 127) \div 128 = Groups(n) /\ Groups(n) \in Nat
    BY DEF Groups, CeilDiv
  <1>2. FillsBytes(n, 4) => n \div 2 = CeilDiv(n, 2)
    BY DEF FillsBytes, CeilDiv
  <1>3. CeilDiv(n, 2) \in Nat /\ n \div 2 \in Nat
    BY DEF CeilDiv
  <1> QED
    BY <1>1, <1>2, <1>3 DEF SerializeMatrixV8, SerializeMatrixV9

(* Products of positive numbers, which the provers handle one at a time.   *)
LEMMA ProductPositive ==
    ASSUME NEW a \in Positive, NEW b \in Positive
    PROVE  a * b \in Positive
  BY DEF Positive

(* The distance of two layers from the length of all of them.              *)
LEMMA LayerDistance ==
    ASSUME NEW n \in Positive, NEW s \in Nat
    PROVE  (n * s) \div n = s
  <1> DEFINE q == (n * s) \div n
             r == (n * s) % n
  <1>1. q \in Int /\ r \in 0 .. n - 1 /\ n * s = n * q + r
    BY DEF Positive
  <1>2. n * (s - q) = r
    BY <1>1 DEF Positive
  <1>3. ASSUME s - q >= 1 PROVE FALSE
    BY <1>1, <1>2, <1>3 DEF Positive
  <1>4. ASSUME s - q <= -1 PROVE FALSE
    BY <1>1, <1>2, <1>4 DEF Positive
  <1> QED
    BY <1>1, <1>3, <1>4

(* How many weights a matrix has is a positive number.                     *)
LEMMA ElementCounts ==
    ASSUME NEW c \in Models
    PROVE  /\ QElements(c) \in Nat /\ KvElements(c) \in Nat
           /\ OElements(c) \in Nat /\ FfnElements(c) \in Nat
           /\ EmbedElements(c) \in Nat
  <1>1. /\ c.d \in Positive /\ c.heads \in Positive /\ c.kv \in Positive
        /\ c.dHead \in Positive /\ c.vocab \in Positive /\ c.ffn \in Positive
    BY DEF Models
  <1>2. c.heads * c.dHead \in Positive /\ c.kv * c.dHead \in Positive
    BY <1>1, ProductPositive
  <1>3. /\ c.d * (c.heads * c.dHead) \in Positive /\ c.d * (c.kv * c.dHead) \in Positive
        /\ (c.heads * c.dHead) * c.d \in Positive /\ c.d * c.ffn \in Positive
        /\ c.vocab * c.d \in Positive
    BY <1>1, <1>2, ProductPositive
  <1> QED
    BY <1>3 DEF QElements, KvElements, OElements, FfnElements, EmbedElements, Positive

----------------------------------------------------------------------------
(* Layouts                                                                 *)

(* The dimensions of a header are those of the model.                      *)
Describes(h, c) ==
    /\ h.layers = c.layers /\ h.d = c.d /\ h.heads = c.heads /\ h.dHead = c.dHead
    /\ h.vocab = c.vocab /\ h.kv = c.kv /\ h.ffn = c.ffn /\ h.ffnType = 1

(* The loader sizes the matrices of a header as b.                         *)
SizesAre(h, b) ==
    /\ b.q \in Nat /\ b.k \in Nat /\ b.o \in Nat /\ b.gate \in Nat
    /\ b.v = b.k /\ b.up = b.gate /\ b.down = b.gate
    /\ QSize(h) = b.q /\ KvSize(h) = b.k /\ OSize(h) = b.o
    /\ MatrixSize(h, h.d, FfnDim(h)) = b.gate

(* With one width for all layers the loader sizes them as the exporter.    *)
LEMMA PackedSizesAre ==
    ASSUME NEW c \in Models, NEW bits \in Widths, NEW h,
           LayersFill(c, bits), Describes(h, c), h.bits = bits, ~IsGroupwise(h)
    PROVE  SizesAre(h, Packed(c, bits))
  <1> DEFINE size(n) == PackQuantized(n, bits)
  <1>1. \A n \in {QElements(c), KvElements(c), OElements(c), FfnElements(c)} :
            (n * bits) \div 8 = size(n) /\ size(n) \in Nat
    BY PackedSize, ElementCounts DEF LayersFill
  <1>2. NKvHeads(h) = c.kv /\ FfnDim(h) = c.ffn
    BY DEF NKvHeads, FfnDim, Describes, Models, Positive
  <1>3. /\ QSize(h) = (QElements(c) * bits) \div 8
        /\ KvSize(h) = (KvElements(c) * bits) \div 8
        /\ OSize(h) = (OElements(c) * bits) \div 8
        /\ MatrixSize(h, h.d, FfnDim(h)) = (FfnElements(c) * bits) \div 8
    BY <1>2 DEF QSize, KvSize, OSize, MatrixSize, Describes, QElements, KvElements,
                OElements, FfnElements
  <1> QED
    BY <1>1, <1>3 DEF SizesAre, Packed

(* So does it with group-wise matrices.                                    *)
LEMMA GroupedSizesAre ==
    ASSUME NEW c \in Models, NEW bits \in {4, 8}, NEW h,
           bits = 4 => LayersFill(c, 4),
           Describes(h, c), IsGroupwise(h), EmbedBits(h) = bits
    PROVE  SizesAre(h, IF bits = 4 THEN GroupedV8(c) ELSE GroupedV9(c))
  <1> DEFINE loaded(n) == (IF bits = 8 THEN n ELSE n \div 2) + ((n + 127) \div 128) * 5
             size(n) == IF bits = 4 THEN SerializeMatrixV8(n) ELSE SerializeMatrixV9(n)
             b == IF bits = 4 THEN GroupedV8(c) ELSE GroupedV9(c)
  <1>1. \A n \in {QElements(c), KvElements(c), OElements(c), FfnElements(c)} :
            loaded(n) = size(n) /\ size(n) \in Nat
    <2> SUFFICES ASSUME NEW n \in {QElements(c), KvElements(c), OElements(c), FfnElements(c)}
                 PROVE  loaded(n) = size(n) /\ size(n) \in Nat
      OBVIOUS
    <2>1. n \in Nat
      BY ElementCounts
    <2>2. bits = 4 => FillsBytes(n, 4)
      BY DEF LayersFill
    <2>3. /\ FillsBytes(n, 4) =>
                n \div 2 + ((n + 127) \div 128) * 5 = SerializeMatrixV8(n)
          /\ n + ((n + 127) \div 128) * 5 = SerializeMatrixV9(n)
          /\ SerializeMatrixV8(n) \in Nat /\ SerializeMatrixV9(n) \in Nat
      BY <2>1, GroupedSize
    <2>4. CASE bits = 4
      BY <2>2, <2>3, <2>4
    <2>5. CASE bits = 8
      BY <2>3, <2>5
    <2> QED
      BY <2>4, <2>5
  <1>2. NKvHeads(h) = c.kv /\ FfnDim(h) = c.ffn
    BY DEF NKvHeads, FfnDim, Describes, Models, Positive
  <1>3. /\ QSize(h) = loaded(QElements(c)) /\ KvSize(h) = loaded(KvElements(c))
        /\ OSize(h) = loaded(OElements(c))
        /\ MatrixSize(h, h.d, FfnDim(h)) = loaded(FfnElements(c))
    BY <1>2 DEF QSize, KvSize, OSize, MatrixSize, Describes, QElements, KvElements,
                OElements, FfnElements
  <1>4. /\ b.q = size(QElements(c)) /\ b.k = size(KvElements(c))
        /\ b.v = size(KvElements(c)) /\ b.o = size(OElements(c))
        /\ b.gate = size(FfnElements(c)) /\ b.up = size(FfnElements(c))
        /\ b.down = size(FfnElements(c))
    BY DEF GroupedV8, GroupedV9
  <1> HIDE DEF loaded, size
  <1> QED
    BY <1>1, <1>3, <1>4 DEF SizesAre

(* A layer as the loader addresses it, once it sizes the matrices as b:    *)
(* the matrices, and the two norms or, for Gemma, the six.                 *)
LEMMA LayerAddressed ==
    ASSUME NEW c \in Models, NEW h, NEW b, Describes(h, c), SizesAre(h, b)
    PROVE  /\ WeightAddrs(h) = Weights(b)
           /\ ~GemmaNorms(h) => NormAddrs(h) = TwoNorms(b, c)
           /\ GemmaNorms(h) => NormAddrs(h) = SixNorms(b, c)
  <1>1. c.d \in Nat /\ c.dHead \in Nat /\ h.d = c.d /\ h.dHead = c.dHead
    BY DEF Describes, Models, Positive
  <1>2. QkvTotal(h) = Qkvo(b) /\ Qkvo(b) \in Nat
    BY DEF QkvTotal, Qkvo, SizesAre
  <1>3. FfnTotal(h) = Ffn(b) /\ Ffn(b) \in Nat
    BY DEF FfnTotal, Ffn, SizesAre, Describes
  <1>4. WeightAddrs(h) = Weights(b)
    BY <1>2 DEF WeightAddrs, Weights, SizesAre, Qkvo
  <1>5. ~GemmaNorms(h) => NormAddrs(h) = TwoNorms(b, c)
    BY <1>1, <1>2, <1>3 DEF NormAddrs, NormAddr, TwoNorms, SerializeNorm
  <1>6. GemmaNorms(h) => NormAddrs(h) = SixNorms(b, c)
    BY <1>1, <1>2, <1>3 DEF NormAddrs, NormAddr, SixNorms, SerializeNorm
  <1> QED
    BY <1>4, <1>5, <1>6

(* The layers of a file whose final norm follows them.                     *)
LEMMA LayersMeasured ==
    ASSUME NEW h, NEW size \in Nat, h.layers \in Positive, h.layer0Off \in Nat,
           h.finalNormOff = h.layer0Off + h.layers * size, h.finalNormOff > 0
    PROVE  LayerBlockSize(h) = size
  <1>1. h.finalNormOff - h.layer0Off = h.layers * size
    BY DEF Positive
  <1> QED
    BY <1>1, LayerDistance DEF LayerBlockSize

----------------------------------------------------------------------------
(* The files of the exporters                                              *)

(* What the theorems need of a file f: the loader finds the sections and   *)
(* the parts of its layers, and the layers end within the file.            *)
Sound(f) ==
    /\ f.header.layers \in Positive /\ f.header.layer0Off \in Nat
    /\ f.header.finalNormOff \in Nat
    /\ f.layerSize \in Nat /\ f.layerSize >= LayerHeader /\ f.header.total \in Nat
    /\ f.header.layer0Off + f.header.layers * f.layerSize < f.header.total
    /\ LayerBlockSize(f.header) = f.layerSize
    /\ InlineBooks(f.header) => /\ EmbedBookOff(f.header) = f.embedBook
                                /\ LmheadBookOff(f.header) = f.lmheadBook
    /\ WeightAddrs(f.header) = f.weights
    /\ (GemmaNorms(f.header) <=> "q" \in DOMAIN f.norms)
          => NormAddrs(f.header) = f.norms

(* The sizes of what is not a matrix.                                      *)
LEMMA SmallSizes ==
    ASSUME NEW c \in Models, NEW bits \in Widths
    PROVE  /\ SerializeNorm(c.d) \in Positive /\ SerializeNorm(c.dHead) \in Positive
           /\ SerializeCodebook(bits) \in Nat /\ c.layers \in Positive
  <1>1. c.d \in Positive /\ c.dHead \in Positive /\ c.layers \in Positive
    BY DEF Models
  <1>2. SerializeCodebook(bits) \in Nat
    <2>1. /\ SerializeCodebook(1) = 8 * 2 /\ SerializeCodebook(2) = 8 * 4
          /\ SerializeCodebook(4) = 8 * 16 /\ SerializeCodebook(8) = 8 * 256
      BY DEF SerializeCodebook
    <2> QED
      BY <2>1 DEF Widths
  <1> QED
    BY <1>1, <1>2 DEF SerializeNorm, Positive

(* A file whose sections follow one another and whose layers are made of   *)
(* matrices the loader sizes as they are is sound.                         *)
LEMMA FileSound ==
    ASSUME NEW c \in Models, NEW f, NEW b,
           NEW header \in Positive, NEW embedding \in Nat, NEW norm \in Positive,
           NEW lmhead \in Nat,
           Describes(f.header, c), SizesAre(f.header, b),
           f.layerSize \in Nat, f.layerSize >= LayerHeader,
           f.header.layer0Off = header + embedding,
           f.header.finalNormOff = f.header.layer0Off + c.layers * f.layerSize,
           f.header.total = f.header.finalNormOff + norm + lmhead,
           f.weights = Weights(b),
           f.norms \in {TwoNorms(b, c), SixNorms(b, c)},
           InlineBooks(f.header) => /\ EmbedBookOff(f.header) = f.embedBook
                                    /\ LmheadBookOff(f.header) = f.lmheadBook
    PROVE  Sound(f)
  <1> DEFINE h == f.header
             end == h.layer0Off + c.layers * f.layerSize
  <1>1. h.layers = c.layers /\ c.layers \in Positive
    BY DEF Describes, Models
  <1>2. h.layer0Off \in Nat /\ h.layer0Off > 0
    BY DEF Positive
  <1>3. c.layers * f.layerSize \in Nat
    BY <1>1 DEF Positive
  <1>4. end \in Nat /\ end > 0 /\ h.finalNormOff = end
    BY <1>2, <1>3
  <1>5. h.total \in Nat /\ end < h.total
    BY <1>4 DEF Positive
  <1>6. LayerBlockSize(h) = f.layerSize
    BY <1>1, <1>2, <1>4, LayersMeasured
  <1>7. /\ WeightAddrs(h) = Weights(b)
        /\ ~GemmaNorms(h) => NormAddrs(h) = TwoNorms(b, c)
        /\ GemmaNorms(h) => NormAddrs(h) = SixNorms(b, c)
    BY LayerAddressed
  <1>8. "q" \notin DOMAIN TwoNorms(b, c) /\ "q" \in DOMAIN SixNorms(b, c)
    BY DEF TwoNorms, SixNorms
  <1>9. (GemmaNorms(h) <=> "q" \in DOMAIN f.norms) => NormAddrs(h) = f.norms
    BY <1>7, <1>8
  <1> QED
    BY <1>1, <1>2, <1>4, <1>5, <1>6, <1>7, <1>9 DEF Sound

(* The parts of a v4 file follow one another.                              *)
LEMMA V4Parts ==
    ASSUME NEW c, NEW type, NEW f, f = V4Image(type, c, 2)
    PROVE  /\ f.header.layer0Off = 160 + PackQuantized(EmbedElements(c), 2)
           /\ f.header.finalNormOff = f.header.layer0Off + c.layers * f.layerSize
           /\ f.header.total = f.header.finalNormOff + SerializeNorm(c.d)
                                   + PackQuantized(EmbedElements(c), 2)
           /\ f.layerSize = LayerHeader + (Qkvo(Packed(c, 2)) + Ffn(Packed(c, 2))
                                + 2 * SerializeNorm(c.d)) + 7 * SerializeCodebook(2)
           /\ f.weights = Weights(Packed(c, 2)) /\ f.norms = TwoNorms(Packed(c, 2), c)
           /\ Describes(f.header, c) /\ f.header.bits = 2 /\ f.header.version = 4
  BY DEF V4Image, BuildV3Header, Sections, Describes

(* Files with one width and the codebooks of embedding and LM head in the  *)
(* header: export_fjm.py and export_smollm_v4.py.                          *)
LEMMA V4Sound ==
    ASSUME NEW c \in Models, NEW type, LayersFill(c, 2), EmbedFills(c, 2)
    PROVE  Sound(V4Image(type, c, 2))
  <1> DEFINE b == Packed(c, 2)
             embedding == PackQuantized(EmbedElements(c), 2)
             f == V4Image(type, c, 2)
  <1>1. /\ f.header.layer0Off = 160 + embedding
        /\ f.header.finalNormOff = f.header.layer0Off + c.layers * f.layerSize
        /\ f.header.total = f.header.finalNormOff + SerializeNorm(c.d) + embedding
        /\ f.layerSize = LayerHeader + (Qkvo(b) + Ffn(b) + 2 * SerializeNorm(c.d))
                              + 7 * SerializeCodebook(2)
        /\ f.weights = Weights(b) /\ f.norms = TwoNorms(b, c)
        /\ Describes(f.header, c) /\ f.header.bits = 2 /\ f.header.version = 4
    BY V4Parts
  <1>2. ~IsGroupwise(f.header) /\ ~InlineBooks(f.header)
    BY <1>1 DEF IsGroupwise, InlineBooks
  <1>3. SizesAre(f.header, b)
    BY <1>1, <1>2, PackedSizesAre DEF Widths
  <1>4. embedding \in Nat
    BY PackedSize, ElementCounts DEF EmbedFills, Widths
  <1>5. SerializeNorm(c.d) \in Positive /\ SerializeCodebook(2) \in Nat
    BY SmallSizes DEF Widths
  <1>6. f.layerSize \in Nat /\ f.layerSize >= LayerHeader
    BY <1>1, <1>3, <1>5 DEF SizesAre, Qkvo, Ffn, LayerHeader, Positive
  <1>7. 160 \in Positive
    BY DEF Positive
  <1> HIDE DEF f, embedding, b
  <1>8. Sound(f)
    BY <1>1, <1>2, <1>3, <1>4, <1>5, <1>6, <1>7, FileSound
  <1> QED
    BY <1>8 DEF f

(* The parts of a v5 or v6 file.                                           *)
LEMMA InlineParts ==
    ASSUME NEW version, NEW c, NEW lb, NEW eb, NEW hb,
           NEW f, f = InlineImage(version, c, lb, eb, hb)
    PROVE  /\ f.header.layer0Off =
                  160 + (PackQuantized(EmbedElements(c), eb) + SerializeCodebook(eb))
           /\ f.header.finalNormOff = f.header.layer0Off + c.layers * f.layerSize
           /\ f.header.total = f.header.finalNormOff + SerializeNorm(c.d)
                 + (PackQuantized(EmbedElements(c), hb) + SerializeCodebook(hb))
           /\ f.layerSize = LayerHeader + (Qkvo(Packed(c, lb)) + Ffn(Packed(c, lb))
                 + 2 * SerializeNorm(c.d)) + 7 * SerializeCodebook(lb)
           /\ f.weights = Weights(Packed(c, lb)) /\ f.norms = TwoNorms(Packed(c, lb), c)
           /\ Describes(f.header, c) /\ f.header.bits = lb /\ f.header.quantFormat = 0
           /\ f.header.embedBits = eb /\ f.header.lmheadBits = hb
           /\ f.embedBook = f.header.embedOff + PackQuantized(EmbedElements(c), eb)
           /\ f.lmheadBook = f.header.lmheadOff + PackQuantized(EmbedElements(c), hb)
  BY DEF InlineImage, Sections, Describes

(* Where the loader expects the codebooks of embedding and LM head.        *)
LEMMA BooksAddressed ==
    ASSUME NEW c \in Models, NEW eb \in Widths, NEW hb \in Widths, NEW h,
           EmbedFills(c, eb), EmbedFills(c, hb), Describes(h, c),
           h.embedBits = eb, h.lmheadBits = hb
    PROVE  /\ EmbedBookOff(h) = h.embedOff + PackQuantized(EmbedElements(c), eb)
           /\ LmheadBookOff(h) = h.lmheadOff + PackQuantized(EmbedElements(c), hb)
  <1>1. EmbedBits(h) = eb /\ LmheadBits(h) = hb
    BY DEF EmbedBits, LmheadBits, Widths
  <1>2. h.vocab * h.d = EmbedElements(c)
    BY DEF Describes, EmbedElements
  <1>3. EmbedElements(c) \in Nat
    BY ElementCounts
  <1>4. (EmbedElements(c) * eb) \div 8 = PackQuantized(EmbedElements(c), eb)
    BY <1>3, PackedSize DEF EmbedFills
  <1>5. (EmbedElements(c) * hb) \div 8 = PackQuantized(EmbedElements(c), hb)
    BY <1>3, PackedSize DEF EmbedFills
  <1> QED
    BY <1>1, <1>2, <1>4, <1>5 DEF EmbedBookOff, LmheadBookOff

(* Files with a width for each section and the codebooks behind the        *)
(* indices: export_smollm_v5.py and export_smollm_v6.py.                   *)
LEMMA InlineSound ==
    ASSUME NEW version, NEW c \in Models,
           NEW lb \in Widths, NEW eb \in Widths, NEW hb \in Widths,
           LayersFill(c, lb), EmbedFills(c, eb), EmbedFills(c, hb)
    PROVE  Sound(InlineImage(version, c, lb, eb, hb))
  <1> DEFINE b == Packed(c, lb)
             embedding == PackQuantized(EmbedElements(c), eb)
             lmhead == PackQuantized(EmbedElements(c), hb)
             f == InlineImage(version, c, lb, eb, hb)
  <1>1. /\ f.header.layer0Off = 160 + (embedding + SerializeCodebook(eb))
        /\ f.header.finalNormOff = f.header.layer0Off + c.layers * f.layerSize
        /\ f.header.total = f.header.finalNormOff + SerializeNorm(c.d)
                                + (lmhead + SerializeCodebook(hb))
        /\ f.layerSize = LayerHeader + (Qkvo(b) + Ffn(b) + 2 * SerializeNorm(c.d))
                              + 7 * SerializeCodebook(lb)
        /\ f.weights = Weights(b) /\ f.norms = TwoNorms(b, c)
        /\ Describes(f.header, c) /\ f.header.bits = lb /\ f.header.quantFormat = 0
        /\ f.header.embedBits = eb /\ f.header.lmheadBits = hb
        /\ f.embedBook = f.header.embedOff + embedding
        /\ f.lmheadBook = f.header.lmheadOff + lmhead
    BY InlineParts
  <1>2. ~IsGroupwise(f.header)
    BY <1>1 DEF IsGroupwise
  <1>3. SizesAre(f.header, b)
    BY <1>1, <1>2, PackedSizesAre
  <1>4. embedding \in Nat /\ lmhead \in Nat
    BY PackedSize, ElementCounts DEF EmbedFills
  <1>5. /\ SerializeNorm(c.d) \in Positive /\ SerializeCodebook(lb) \in Nat
        /\ SerializeCodebook(eb) \in Nat /\ SerializeCodebook(hb) \in Nat
    BY SmallSizes
  <1>6. f.layerSize \in Nat /\ f.layerSize >= LayerHeader
    BY <1>1, <1>3, <1>5 DEF SizesAre, Qkvo, Ffn, LayerHeader, Positive
  <1>7. /\ 160 \in Positive /\ embedding + SerializeCodebook(eb) \in Nat
        /\ lmhead + SerializeCodebook(hb) \in Nat
    BY <1>4, <1>5 DEF Positive
  <1>8. EmbedBookOff(f.header) = f.embedBook /\ LmheadBookOff(f.header) = f.lmheadBook
    BY <1>1, BooksAddressed
  <1> HIDE DEF f, embedding, lmhead, b
  <1>9. Sound(f)
    BY <1>1, <1>3, <1>5, <1>6, <1>7, <1>8, FileSound
  <1> QED
    BY <1>9 DEF f

(* The parts of a v7 file, of one width for layers and embedding.          *)
LEMMA V7Parts ==
    ASSUME NEW c, NEW bits, NEW f, f = ExportGemma3V7(c, bits, bits)
    PROVE  /\ f.header.layer0Off =
                  176 + (PackQuantized(EmbedElements(c), bits) + SerializeCodebook(bits))
           /\ f.header.finalNormOff = f.header.layer0Off + c.layers * f.layerSize
           /\ f.header.total = f.header.finalNormOff + SerializeNorm(c.d) + 0
           /\ f.layerSize = LayerHeader + (Qkvo(Packed(c, bits)) + Ffn(Packed(c, bits))
                 + (4 * SerializeNorm(c.d) + 2 * SerializeNorm(c.dHead)))
                 + 7 * SerializeCodebook(bits)
           /\ f.weights = Weights(Packed(c, bits)) /\ f.norms = SixNorms(Packed(c, bits), c)
           /\ Describes(f.header, c) /\ f.header.bits = bits /\ f.header.quantFormat = 0
           /\ f.header.embedBits = bits /\ f.header.lmheadBits = bits
           /\ f.header.lmheadOff = f.header.embedOff
           /\ f.embedBook = f.header.embedOff + PackQuantized(EmbedElements(c), bits)
           /\ f.lmheadBook = f.embedBook
  BY DEF ExportGemma3V7, GemmaHeader, TiedSections, Sections, Describes

(* Gemma 3 with codebooks: export_gemma3_v7.py.                            *)
LEMMA V7Sound ==
    ASSUME NEW c \in Models, NEW bits \in Widths, LayersFill(c, bits), EmbedFills(c, bits)
    PROVE  Sound(ExportGemma3V7(c, bits, bits))
  <1> DEFINE b == Packed(c, bits)
             embedding == PackQuantized(EmbedElements(c), bits)
             norms == 4 * SerializeNorm(c.d) + 2 * SerializeNorm(c.dHead)
             f == ExportGemma3V7(c, bits, bits)
  <1>1. /\ f.header.layer0Off = 176 + (embedding + SerializeCodebook(bits))
        /\ f.header.finalNormOff = f.header.layer0Off + c.layers * f.layerSize
        /\ f.header.total = f.header.finalNormOff + SerializeNorm(c.d) + 0
        /\ f.layerSize = LayerHeader + (Qkvo(b) + Ffn(b) + norms)
                              + 7 * SerializeCodebook(bits)
        /\ f.weights = Weights(b) /\ f.norms = SixNorms(b, c)
        /\ Describes(f.header, c) /\ f.header.bits = bits /\ f.header.quantFormat = 0
        /\ f.header.embedBits = bits /\ f.header.lmheadBits = bits
        /\ f.header.lmheadOff = f.header.embedOff
        /\ f.embedBook = f.header.embedOff + embedding
        /\ f.lmheadBook = f.embedBook
    BY V7Parts
  <1>2. ~IsGroupwise(f.header)
    BY <1>1 DEF IsGroupwise
  <1>3. SizesAre(f.header, b)
    BY <1>1, <1>2, PackedSizesAre
  <1>4. embedding \in Nat
    BY PackedSize, ElementCounts DEF EmbedFills
  <1>5. /\ SerializeNorm(c.d) \in Positive /\ SerializeNorm(c.dHead) \in Positive
        /\ SerializeCodebook(bits) \in Nat
    BY SmallSizes
  <1>6. f.layerSize \in Nat /\ f.layerSize >= LayerHeader
    BY <1>1, <1>3, <1>5 DEF SizesAre, Qkvo, Ffn, LayerHeader, Positive
  <1>7. 176 \in Positive /\ embedding + SerializeCodebook(bits) \in Nat
    BY <1>4, <1>5 DEF Positive
  <1>8. EmbedBookOff(f.header) = f.embedBook /\ LmheadBookOff(f.header) = f.lmheadBook
    BY <1>1, BooksAddressed
  <1> HIDE DEF f, embedding, b
  <1>9. Sound(f)
    BY <1>1, <1>3, <1>5, <1>6, <1>7, <1>8, FileSound
  <1> QED
    BY <1>9 DEF f

(* The parts of a group-wise file.                                         *)
LEMMA GroupedParts ==
    ASSUME NEW c, NEW b, NEW embedding, NEW bits,
           NEW f, f = GroupedImage(c, b, embedding, bits)
    PROVE  /\ f.header.layer0Off = 176 + embedding
           /\ f.header.finalNormOff = f.header.layer0Off + c.layers * f.layerSize
           /\ f.header.total = f.header.finalNormOff + SerializeNorm(c.d) + 0
           /\ f.layerSize = LayerHeader + Qkvo(b) + Ffn(b)
                 + (4 * SerializeNorm(c.d) + 2 * SerializeNorm(c.dHead))
           /\ f.weights = Weights(b) /\ f.norms = SixNorms(b, c)
           /\ Describes(f.header, c) /\ f.header.version = 8 /\ f.header.quantFormat = 1
           /\ f.header.embedBits = bits
  BY DEF GroupedImage, GemmaHeader, TiedSections, Sections, Describes

(* Gemma 3 without codebooks: export_gemma3_v8.py and export_gemma3_v9.py. *)
LEMMA GroupedSound ==
    ASSUME NEW c \in Models, NEW bits \in {4, 8}, NEW embedding \in Nat,
           bits = 4 => LayersFill(c, 4)
    PROVE  Sound(GroupedImage(c, IF bits = 4 THEN GroupedV8(c) ELSE GroupedV9(c),
                              embedding, bits))
  <1> DEFINE b == IF bits = 4 THEN GroupedV8(c) ELSE GroupedV9(c)
             norms == 4 * SerializeNorm(c.d) + 2 * SerializeNorm(c.dHead)
             f == GroupedImage(c, b, embedding, bits)
  <1>1. /\ f.header.layer0Off = 176 + embedding
        /\ f.header.finalNormOff = f.header.layer0Off + c.layers * f.layerSize
        /\ f.header.total = f.header.finalNormOff + SerializeNorm(c.d) + 0
        /\ f.layerSize = LayerHeader + Qkvo(b) + Ffn(b) + norms
        /\ f.weights = Weights(b) /\ f.norms = SixNorms(b, c)
        /\ Describes(f.header, c) /\ f.header.version = 8 /\ f.header.quantFormat = 1
        /\ f.header.embedBits = bits
    BY GroupedParts
  <1>2. IsGroupwise(f.header) /\ ~InlineBooks(f.header) /\ EmbedBits(f.header) = bits
    BY <1>1 DEF IsGroupwise, InlineBooks, EmbedBits
  <1>3. SizesAre(f.header, b)
    BY <1>1, <1>2, GroupedSizesAre
  <1>4. SerializeNorm(c.d) \in Positive /\ SerializeNorm(c.dHead) \in Positive
    BY SmallSizes DEF Widths
  <1>5. f.layerSize \in Nat /\ f.layerSize >= LayerHeader
    BY <1>1, <1>3, <1>4 DEF SizesAre, Qkvo, Ffn, LayerHeader, Positive
  <1>6. 176 \in Positive /\ 0 \in Nat
    BY DEF Positive
  <1> HIDE DEF f, b, norms
  <1>7. /\ f.header.layer0Off = 176 + embedding
        /\ f.header.finalNormOff = f.header.layer0Off + c.layers * f.layerSize
        /\ f.header.total = f.header.finalNormOff + SerializeNorm(c.d) + 0
        /\ f.weights = Weights(b) /\ f.norms \in {TwoNorms(b, c), SixNorms(b, c)}
        /\ Describes(f.header, c)
    BY <1>1
  <1>8. Sound(f)
    BY <1>2, <1>3, <1>4, <1>5, <1>6, <1>7, FileSound
  <1> QED
    BY <1>8 DEF f, b

----------------------------------------------------------------------------
(* What is assumed of the files: each was written by an exporter, from a   *)
(* model whose matrices fill their last byte, v4 with the two-bit codebook *)
(* its header has room for, v7 with the same width for layers and          *)
(* embedding.                                                              *)
ExportedFrom(c, f) ==
    \/ /\ LayersFill(c, 2) /\ EmbedFills(c, 2)
       /\ f = ExportSmollmV4(c, 2) \/ \E type \in {1, 10} : f = ExportGemma3(type, c, 2)
    \/ \E lb, eb, hb \in Widths :
          /\ LayersFill(c, lb) /\ EmbedFills(c, eb) /\ EmbedFills(c, hb)
          /\ f = ExportSmollmV5(c, lb, eb, hb) \/ f = ExportSmollmV6(c, lb, eb, hb)
    \/ \E bits \in Widths :
          LayersFill(c, bits) /\ EmbedFills(c, bits) /\ f = ExportGemma3V7(c, bits, bits)
    \/ LayersFill(c, 4) /\ f = ExportGemma3V8(c)
    \/ f = ExportGemma3V9(c)
Exported(f) == f = CreateTestModel(2) \/ \E c \in Models : ExportedFrom(c, f)

(* The model of the self-test.                                             *)
LEMMA TestModelSound == Sound(CreateTestModel(2))
  <1> DEFINE c == [layers |-> 2, d |-> 16, heads |-> 4, kv |-> 1, dHead |-> 4,
                   vocab |-> 64, ffn |-> 32]
  <1>1. c \in Models
    BY DEF Models, Positive
  <1>2. /\ QElements(c) = 256 /\ KvElements(c) = 64 /\ OElements(c) = 256
        /\ FfnElements(c) = 512 /\ EmbedElements(c) = 1024
    BY DEF QElements, KvElements, OElements, FfnElements, EmbedElements
  <1>3. LayersFill(c, 2) /\ EmbedFills(c, 2)
    BY <1>2 DEF LayersFill, EmbedFills, FillsBytes
  <1> QED
    BY <1>1, <1>3, V4Sound DEF CreateTestModel

(* Every file of the exporters is sound.                                   *)
LEMMA ExportedSound ==
    ASSUME NEW f, Exported(f)
    PROVE  Sound(f)
  <1>1. CASE f = CreateTestModel(2)
    BY <1>1, TestModelSound
  <1>2. ASSUME NEW c \in Models, ExportedFrom(c, f)
        PROVE  Sound(f)
    <2>1. CASE /\ LayersFill(c, 2) /\ EmbedFills(c, 2)
               /\ \/ f = ExportSmollmV4(c, 2)
                  \/ \E type \in {1, 10} : f = ExportGemma3(type, c, 2)
      BY <2>1, V4Sound DEF ExportSmollmV4, ExportGemma3
    <2>2. CASE \E lb, eb, hb \in Widths :
                  /\ LayersFill(c, lb) /\ EmbedFills(c, eb) /\ EmbedFills(c, hb)
                  /\ \/ f = ExportSmollmV5(c, lb, eb, hb)
                     \/ f = ExportSmollmV6(c, lb, eb, hb)
      BY <2>2, InlineSound DEF ExportSmollmV5, ExportSmollmV6
    <2>3. CASE \E bits \in Widths : /\ LayersFill(c, bits) /\ EmbedFills(c, bits)
                                    /\ f = ExportGemma3V7(c, bits, bits)
      BY <2>3, V7Sound
    <2>4. SerializeMatrixV8(EmbedElements(c)) \in Nat
          /\ SerializeMatrixV9(EmbedElements(c)) \in Nat
      BY ElementCounts, GroupedSize
    <2>5. CASE LayersFill(c, 4) /\ f = ExportGemma3V8(c)
      <3>1. Sound(GroupedImage(c, IF 4 = 4 THEN GroupedV8(c) ELSE GroupedV9(c),
                               SerializeMatrixV8(EmbedElements(c)), 4))
        BY <2>4, <2>5, GroupedSound
      <3> QED
        BY <2>5, <3>1 DEF ExportGemma3V8
    <2>6. CASE f = ExportGemma3V9(c)
      <3>1. Sound(GroupedImage(c, IF 8 = 4 THEN GroupedV8(c) ELSE GroupedV9(c),
                               SerializeMatrixV9(EmbedElements(c)), 8))
        BY <2>4, GroupedSound
      <3> QED
        BY <2>6, <3>1 DEF ExportGemma3V9
    <2> QED
      BY <1>2, <2>1, <2>2, <2>3, <2>5, <2>6 DEF ExportedFrom
  <1> QED
    BY <1>1, <1>2 DEF Exported

----------------------------------------------------------------------------
(* The loader                                                              *)

(* Whatever the disk holds, the loader and its header are of files.        *)
Names ==
    /\ \A s \in DOMAIN disk : disk[s] = NoImage \/ disk[s].img \in DOMAIN Images
    /\ model \in DOMAIN Images \cup {NoImage}

LEMMA NamesInvariant == Spec => []Names
  <1>1. Init => Names
    BY DEF Init, Names
  <1>2. Names /\ [Next]_vars => Names'
    <2> SUFFICES ASSUME Names, [Next]_vars PROVE Names'
      OBVIOUS
    <2>1. ASSUME NEW img \in DOMAIN Images, NEW lba \in Lbas, WriteToDisk(img, lba)
          PROVE  Names'
      BY <2>1 DEF Names, WriteToDisk
    <2>2. ASSUME NEW lba \in Lbas, ModelLoad(lba) PROVE Names'
      BY <2>2 DEF Names, ModelLoad, HasHeader, Sector
    <2>3. CASE UNCHANGED <<disk, model>>
      BY <2>3 DEF Names
    <2>4. ASSUME NEW l \in 0 .. 31, LayerLoad(l) PROVE UNCHANGED <<disk, model>>
      BY <2>4 DEF LayerLoad
    <2>5. CASE \/ EmbedLoad \/ EmbedLoadFails \/ RamLoad \/ RamLoadFails
               \/ BeginPass \/ RunLayer \/ EndPass \/ UNCHANGED vars
      BY <2>3, <2>5 DEF EmbedLoad, EmbedLoadFails, RamLoad, RamLoadFails, BeginPass,
                        RunLayer, EndPass, vars, kernelVars
    <2> QED
      BY <2>1, <2>2, <2>3, <2>4, <2>5 DEF Next
  <1> QED
    BY <1>1, <1>2, PTL DEF Spec

(* SectionsFound of every exported model: the layer size derived from two  *)
(* offsets and the codebooks behind the indices are the exporter's.        *)
THEOREM SectionsAlwaysFound ==
    ASSUME \A img \in DOMAIN Images : Exported(Images[img])
    PROVE  Spec => []SectionsFound
  <1>1. Names => SectionsFound
    BY ExportedSound DEF Names, SectionsFound, SectionsOf, Sound
  <1> QED
    BY <1>1, NamesInvariant, PTL

(* LayerPartsFound of every exported model: each matrix and each norm of a *)
(* layer is addressed where the exporter wrote it.                         *)
THEOREM LayerPartsAlwaysFound ==
    ASSUME \A img \in DOMAIN Images : Exported(Images[img])
    PROVE  Spec => []LayerPartsFound
  <1>1. Names => LayerPartsFound
    BY ExportedSound DEF Names, LayerPartsFound, PartsOf, NormsComplete, Sound
  <1> QED
    BY <1>1, NamesInvariant, PTL

----------------------------------------------------------------------------
(* The layer buffer                                                        *)

(* The bytes of a layer begin inside the file.                             *)
LEMMA LayerInside ==
    ASSUME NEW layers \in Positive, NEW size \in Nat, NEW first \in Nat, NEW total \in Nat,
           NEW l \in Nat, l < layers, size >= 16, first + layers * size < total
    PROVE  (first + l * size + 16) \div 512 \in 0 .. CeilDiv(total, 512) - 1
  <1> DEFINE at == first + l * size + 16
  <1>1. l * size \in Nat /\ layers * size \in Nat /\ layers - l - 1 \in Nat
    BY DEF Positive
  <1>2. (layers - l - 1) * size \in Nat
    BY <1>1
  <1>3. layers * size = l * size + size + (layers - l - 1) * size
    BY DEF Positive
  <1>4. at \in Nat /\ at < total
    BY <1>1, <1>2, <1>3
  <1> HIDE DEF at
  <1>5. at \div 512 \in 0 .. CeilDiv(total, 512) - 1
    BY <1>4 DEF CeilDiv
  <1> QED
    BY <1>5 DEF at

(* A buffer holds a part of the loaded model, or is torn.                  *)
OwnBuffer(buf) == buf = Torn \/ \E at \in {buf.at} : buf = Of(at)

(* With the loaded model whole on the disk, reading one of its layers      *)
(* yields a part of it or a torn buffer.                                   *)
LEMMA LayerRead ==
    ASSUME \A img \in DOMAIN Images : Exported(Images[img]),
           NoImage \notin [img : DOMAIN Images, part : Nat],
           Names, Whole, NEW l \in Nat, l < Header(model).layers
    PROVE  OwnBuffer(Read(src, LayerSpan(l), LayerBytes))
  <1> DEFINE h == Header(model)
             at == LayerSpan(l)
             part == at \div 512
             first == Sector(src + part)
             buf == Read(src, at, LayerBytes)
  <1>1. model \in DOMAIN Images /\ Sound(Images[model])
    BY ExportedSound DEF Names, Whole
  <1>2. /\ h.layers \in Positive /\ h.layer0Off \in Nat /\ h.total \in Nat
        /\ LayerBlockSize(h) \in Nat /\ LayerBlockSize(h) >= 16
        /\ h.layer0Off + h.layers * LayerBlockSize(h) < h.total
    BY <1>1 DEF Sound, Header, LayerHeader
  <1>3. part \in 0 .. CeilDiv(h.total, 512) - 1
    <2>1. at = h.layer0Off + l * LayerBlockSize(h) + 16
      BY DEF LayerSpan, LayerOff, LayerHeader
    <2> HIDE DEF at, h
    <2> QED
      BY <1>2, <2>1, LayerInside DEF h
  <1>4. first = [img |-> model, part |-> part]
    BY <1>3 DEF Whole
  <1>5. part \in Nat
    BY <1>3
  <1>6. first # NoImage /\ first.img = model
    BY <1>1, <1>4, <1>5
  <1>7. buf = [img |-> model, at |-> at] \/ buf = Torn
    BY <1>6 DEF Read
  <1> HIDE DEF buf, at
  <1>8. OwnBuffer(buf)
    BY <1>7 DEF OwnBuffer, Of
  <1> QED
    BY <1>8 DEF buf, at

(* The inductive form of StreamOwnModel.                                   *)
OwnLayer ==
    /\ pass \in Nat \cup {None}
    /\ layer = [number |-> layer.number, buf |-> layer.buf]
    /\ layer.number # None /\ Whole => OwnBuffer(layer.buf)

(* StreamOwnModel of every exported model: as long as the model's file is  *)
(* intact on the disk, a layer that counts as loaded is one of its own or  *)
(* torn, whatever was loaded before and whichever loads failed.            *)
THEOREM StreamAlwaysOwnModel ==
    ASSUME \A img \in DOMAIN Images : Exported(Images[img]),
           NoImage \notin [img : DOMAIN Images, part : Nat]
    PROVE  Spec => []StreamOwnModel
  <1>1. Init => OwnLayer
    BY DEF Init, OwnLayer, NoLayer
  <1>2. ASSUME Names, OwnLayer, [Next]_vars PROVE OwnLayer'
    <2> USE <1>2
    <2>1. ASSUME NEW img \in DOMAIN Images, NEW lba \in Lbas, WriteToDisk(img, lba)
          PROVE  OwnLayer'
      BY <2>1 DEF OwnLayer, WriteToDisk, NoLayer
    <2>2. ASSUME NEW lba \in Lbas, ModelLoad(lba) PROVE OwnLayer'
      <3>1. layer' = [number |-> None, buf |-> layer.buf] /\ pass' = pass
        BY <2>2 DEF ModelLoad, OwnLayer
      <3> QED
        BY <3>1 DEF OwnLayer
    <2>3. CASE UNCHANGED <<disk, model, src, layer>> /\ pass' \in Nat \cup {None}
      BY <2>3 DEF OwnLayer, Whole, OwnBuffer, Of, Sector, Header
    <2>4. ASSUME NEW l \in Nat, model # NoImage => l < Header(model).layers,
                 LayerLoaded(l), UNCHANGED <<disk, model, src>>, pass' \in Nat \cup {None}
          PROVE  OwnLayer'
      <3>1. layer' = [number |-> l, buf |-> Read(src, LayerSpan(l), LayerBytes)]
        BY <2>4 DEF LayerLoaded
      <3>2. Whole => OwnBuffer(layer'.buf)
        BY <2>4, <3>1, LayerRead DEF Whole
      <3> QED
        BY <2>4, <3>1, <3>2 DEF OwnLayer, Whole, OwnBuffer, Of, Sector, Header
    <2>5. ASSUME NEW l \in Nat, model # NoImage => l < Header(model).layers,
                 LayerNotLoaded(l), UNCHANGED <<disk, model, src>>, pass' \in Nat \cup {None}
          PROVE  OwnLayer'
      <3>1. PICK buf \in {layer.buf, Torn, Read(src, LayerSpan(l), LayerBytes)} :
                layer' = [number |-> layer.number, buf |-> buf]
        BY <2>5 DEF LayerNotLoaded, AfterFailure, OwnLayer
      <3>2. layer.number # None /\ Whole => OwnBuffer(layer'.buf)
        BY <2>5, <3>1, LayerRead DEF Whole, OwnLayer, OwnBuffer
      <3> QED
        BY <2>5, <3>1, <3>2 DEF OwnLayer, Whole, OwnBuffer, Of, Sector, Header
    <2>6. ASSUME NEW l \in 0 .. 31, LayerLoad(l) PROVE OwnLayer'
      BY <2>4, <2>5, <2>6 DEF LayerLoad, OwnLayer
    <2>7. ASSUME BeginPass PROVE OwnLayer'
      <3>1. UNCHANGED <<disk, model, src>> /\ pass' \in Nat \cup {None} /\ model # NoImage
        BY <2>7 DEF BeginPass
      <3>2. ASSUME model \in DOMAIN Images PROVE 0 < Header(model).layers
        BY <3>2, ExportedSound DEF Sound, Header, Positive
      <3> QED
        BY <2>3, <2>4, <2>5, <2>7, <3>1, <3>2 DEF BeginPass, Names
    <2>8. ASSUME RunLayer PROVE OwnLayer'
      <3>1. UNCHANGED <<disk, model, src>> /\ pass \in Nat /\ pass' \in Nat \cup {None}
            /\ pass < Header(model).layers
        BY <2>8 DEF RunLayer, OwnLayer
      <3> QED
        BY <2>3, <2>4, <2>5, <2>8, <3>1 DEF RunLayer
    <2>9. CASE EmbedLoad \/ EmbedLoadFails \/ RamLoad \/ RamLoadFails \/ EndPass
               \/ UNCHANGED vars
      BY <2>3, <2>9 DEF EmbedLoad, EmbedLoadFails, RamLoad, RamLoadFails, EndPass,
                        OwnLayer, vars, kernelVars
    <2> QED
      BY <2>1, <2>2, <2>6, <2>7, <2>8, <2>9 DEF Next
  <1>3. OwnLayer => StreamOwnModel
    BY DEF OwnLayer, StreamOwnModel, OwnBuffer
  <1> QED
    BY <1>1, <1>2, <1>3, NamesInvariant, PTL DEF Spec

----------------------------------------------------------------------------
(* Embedding and LM head                                                   *)

(* Where a file f keeps its embedding, its LM head and their codebooks:    *)
(* inside the file, in the header of a v4 file, behind the indices of a    *)
(* later one, and those of a tied LM head are the embedding's.             *)
Placed(f) == LET h == f.header IN
    /\ h.embedOff \in Nat /\ h.embedOff < h.layer0Off
    /\ Tied(h) \/ (h.lmheadOff \in Nat /\ h.layer0Off < h.lmheadOff /\ h.lmheadOff < h.total)
    /\ h.version >= 5 \/ (h.version = 4 /\ f.embedBook = 76 /\ f.lmheadBook = 108)
    /\ InlineBooks(h) =>
          /\ f.embedBook \in Nat
          /\ f.embedBook + SerializeCodebook(EmbedBits(h)) <= h.total
          /\ f.lmheadBook \in Nat
          /\ f.lmheadBook + SerializeCodebook(LmheadBits(h)) <= h.total
          /\ EmbedBits(h) \in Widths /\ LmheadBits(h) \in Widths
          /\ Tied(h) => f.lmheadBook = f.embedBook /\ LmheadBits(h) = EmbedBits(h)

(* An embedding takes at least one byte, and so does a codebook.           *)
LEMMA EmbeddingTakesRoom ==
    ASSUME NEW c \in Models, NEW bits \in Widths
    PROVE  /\ PackQuantized(EmbedElements(c), bits) \in Positive
           /\ SerializeMatrixV8(EmbedElements(c)) \in Positive
           /\ SerializeMatrixV9(EmbedElements(c)) \in Positive
           /\ SerializeCodebook(bits) \in Positive
  <1> DEFINE n == EmbedElements(c)
  <1>1. n \in Positive
    BY ProductPositive DEF Models, EmbedElements
  <1> HIDE DEF n
  <1>2. PackQuantized(n, bits) \in Positive
    <2>1. /\ PackQuantized(n, 1) = (n + 8 - 1) \div 8
          /\ PackQuantized(n, 2) = (n + 4 - 1) \div 4
          /\ PackQuantized(n, 4) = (n + 2 - 1) \div 2
          /\ PackQuantized(n, 8) = (n + 1 - 1) \div 1
      BY DEF PackQuantized, CeilDiv
    <2> QED
      BY <1>1, <2>1 DEF Widths, Positive
  <1>3. CeilDiv(n, 2) \in Positive /\ Groups(n) \in Positive
    BY <1>1 DEF CeilDiv, Groups, Positive
  <1>4. SerializeMatrixV8(n) \in Positive /\ SerializeMatrixV9(n) \in Positive
    BY <1>1, <1>3 DEF SerializeMatrixV8, SerializeMatrixV9, Positive
  <1>5. SerializeCodebook(bits) \in Positive
    <2>1. /\ SerializeCodebook(1) = 8 * 2 /\ SerializeCodebook(2) = 8 * 4
          /\ SerializeCodebook(4) = 8 * 16 /\ SerializeCodebook(8) = 8 * 256
      BY DEF SerializeCodebook
    <2> QED
      BY <2>1 DEF Widths, Positive
  <1> QED
    BY <1>2, <1>4, <1>5 DEF n

(* The sections of a file with an LM head of its own.                      *)
LEMMA SectionsOrdered ==
    ASSUME NEW f, Sound(f),
           NEW embedding \in Positive, NEW norm \in Positive, NEW lmhead \in Positive,
           f.header.embedOff = 160,
           f.header.layer0Off = 160 + embedding,
           f.header.finalNormOff = f.header.layer0Off + f.header.layers * f.layerSize,
           f.header.lmheadOff = f.header.finalNormOff + norm,
           f.header.total = f.header.lmheadOff + lmhead
    PROVE  /\ f.header.lmheadOff \in Nat /\ f.header.lmheadOff < f.header.total
           /\ f.header.layer0Off < f.header.lmheadOff /\ ~Tied(f.header)
  <1>1. f.header.layers * f.layerSize \in Nat
    BY DEF Sound, Positive
  <1> QED
    BY <1>1 DEF Tied, Positive

LEMMA V4Placed ==
    ASSUME NEW c \in Models, NEW type, LayersFill(c, 2), EmbedFills(c, 2)
    PROVE  Placed(V4Image(type, c, 2))
  <1> DEFINE f == V4Image(type, c, 2)
             embedding == PackQuantized(EmbedElements(c), 2)
  <1>1. /\ f.header.embedOff = 160 /\ f.header.layer0Off = 160 + embedding
        /\ f.header.finalNormOff = f.header.layer0Off + f.header.layers * f.layerSize
        /\ f.header.lmheadOff = f.header.finalNormOff + SerializeNorm(c.d)
        /\ f.header.total = f.header.lmheadOff + embedding
        /\ f.header.version = 4 /\ f.embedBook = 76
        /\ f.lmheadBook = 76 + SerializeCodebook(2)
    BY DEF V4Image, BuildV3Header, Sections
  <1>2. embedding \in Positive /\ SerializeNorm(c.d) \in Positive
    BY EmbeddingTakesRoom, SmallSizes DEF Widths
  <1>3. SerializeCodebook(2) = 32
    BY DEF SerializeCodebook
  <1>4. Sound(f)
    BY V4Sound
  <1> HIDE DEF f, embedding
  <1>5. /\ f.header.lmheadOff \in Nat /\ f.header.lmheadOff < f.header.total
        /\ f.header.layer0Off < f.header.lmheadOff
    BY <1>1, <1>2, <1>4, SectionsOrdered
  <1>6. ~InlineBooks(f.header)
    BY <1>1 DEF InlineBooks
  <1>7. Placed(f)
    BY <1>1, <1>2, <1>3, <1>5, <1>6 DEF Placed, Positive
  <1> QED
    BY <1>7 DEF f

LEMMA InlinePlaced ==
    ASSUME NEW version \in Nat, version >= 5, NEW c \in Models,
           NEW lb \in Widths, NEW eb \in Widths, NEW hb \in Widths,
           LayersFill(c, lb), EmbedFills(c, eb), EmbedFills(c, hb)
    PROVE  Placed(InlineImage(version, c, lb, eb, hb))
  <1> DEFINE f == InlineImage(version, c, lb, eb, hb)
             indices == PackQuantized(EmbedElements(c), eb)
             head == PackQuantized(EmbedElements(c), hb)
             embedding == indices + SerializeCodebook(eb)
             lmhead == head + SerializeCodebook(hb)
  <1>1. /\ f.header.embedOff = 160 /\ f.header.layer0Off = 160 + embedding
        /\ f.header.finalNormOff = f.header.layer0Off + f.header.layers * f.layerSize
        /\ f.header.lmheadOff = f.header.finalNormOff + SerializeNorm(c.d)
        /\ f.header.total = f.header.lmheadOff + lmhead
        /\ f.header.version = version
        /\ f.embedBook = 160 + indices /\ f.lmheadBook = f.header.lmheadOff + head
        /\ f.header.embedBits = eb /\ f.header.lmheadBits = hb
    BY DEF InlineImage, Sections
  <1>2. /\ indices \in Positive /\ SerializeCodebook(eb) \in Positive
        /\ head \in Positive /\ SerializeCodebook(hb) \in Positive
        /\ SerializeNorm(c.d) \in Positive
    BY EmbeddingTakesRoom, SmallSizes
  <1>3. embedding \in Positive /\ lmhead \in Positive
    BY <1>2 DEF Positive
  <1>4. Sound(f)
    BY InlineSound
  <1>5. EmbedBits(f.header) = eb /\ LmheadBits(f.header) = hb
    BY <1>1 DEF EmbedBits, LmheadBits, Widths
  <1> HIDE DEF f, embedding, lmhead
  <1>6. /\ f.header.lmheadOff \in Nat /\ f.header.lmheadOff < f.header.total
        /\ f.header.layer0Off < f.header.lmheadOff /\ ~Tied(f.header)
    BY <1>1, <1>2, <1>3, <1>4, SectionsOrdered
  <1>7. /\ f.embedBook + SerializeCodebook(eb) = f.header.layer0Off
        /\ f.lmheadBook + SerializeCodebook(hb) = f.header.total
        /\ f.embedBook \in Nat /\ f.lmheadBook \in Nat
    BY <1>1, <1>2, <1>6 DEF embedding, lmhead, Positive
  <1>8. f.header.layer0Off <= f.header.total /\ f.header.embedOff < f.header.layer0Off
        /\ f.header.embedOff \in Nat
    BY <1>1, <1>3, <1>6 DEF Positive
  <1>9. f.header.total \in Nat
    BY <1>4 DEF Sound
  <1>10. Placed(f)
    BY <1>1, <1>5, <1>6, <1>7, <1>8, <1>9 DEF Placed
  <1> QED
    BY <1>10 DEF f

LEMMA V7Placed ==
    ASSUME NEW c \in Models, NEW bits \in Widths, LayersFill(c, bits), EmbedFills(c, bits)
    PROVE  Placed(ExportGemma3V7(c, bits, bits))
  <1> DEFINE f == ExportGemma3V7(c, bits, bits)
             indices == PackQuantized(EmbedElements(c), bits)
  <1>1. /\ f.header.embedOff = 176
        /\ f.header.layer0Off = 176 + (indices + SerializeCodebook(bits))
        /\ f.header.lmheadOff = 176 /\ f.header.version = 7
        /\ f.embedBook = 176 + indices /\ f.lmheadBook = 176 + indices
        /\ f.header.embedBits = bits /\ f.header.lmheadBits = bits
    BY DEF ExportGemma3V7, GemmaHeader, TiedSections, Sections
  <1>2. indices \in Positive /\ SerializeCodebook(bits) \in Positive
    BY EmbeddingTakesRoom
  <1>3. EmbedBits(f.header) = bits /\ LmheadBits(f.header) = bits /\ Tied(f.header)
    BY <1>1 DEF EmbedBits, LmheadBits, Widths, Tied
  <1>4. Sound(f)
    BY V7Sound
  <1> HIDE DEF f, indices
  <1>5. f.header.layer0Off <= f.header.total
    <2>1. f.header.layers * f.layerSize \in Nat
      BY <1>4 DEF Sound, Positive
    <2> QED
      BY <1>4, <2>1 DEF Sound
  <1>6. f.header.embedOff \in Nat /\ f.header.embedOff < f.header.layer0Off
        /\ f.embedBook \in Nat
        /\ f.embedBook + SerializeCodebook(bits) = f.header.layer0Off
    BY <1>1, <1>2 DEF Positive
  <1>7. Placed(f)
    BY <1>1, <1>3, <1>5, <1>6 DEF Placed
  <1> QED
    BY <1>7 DEF f

LEMMA GroupedPlaced ==
    ASSUME NEW c, NEW b, NEW embedding \in Positive, NEW bits
    PROVE  Placed(GroupedImage(c, b, embedding, bits))
  <1> DEFINE f == GroupedImage(c, b, embedding, bits)
  <1>1. /\ f.header.embedOff = 176 /\ f.header.layer0Off = 176 + embedding
        /\ f.header.lmheadOff = 176
        /\ f.header.version = 8 /\ f.header.quantFormat = 1
    BY DEF GroupedImage, GemmaHeader, TiedSections, Sections
  <1>2. Tied(f.header) /\ ~InlineBooks(f.header)
    BY <1>1 DEF Tied, InlineBooks, IsGroupwise
  <1> HIDE DEF f
  <1>3. Placed(f)
    BY <1>1, <1>2 DEF Placed, Positive
  <1> QED
    BY <1>3 DEF f

(* Every file of the exporters has its parts in place.                     *)
LEMMA ExportedPlaced ==
    ASSUME NEW f, Exported(f)
    PROVE  Placed(f)
  <1>1. CASE f = CreateTestModel(2)
    <2> DEFINE c == [layers |-> 2, d |-> 16, heads |-> 4, kv |-> 1, dHead |-> 4,
                     vocab |-> 64, ffn |-> 32]
    <2>1. c \in Models
      BY DEF Models, Positive
    <2>2. /\ QElements(c) = 256 /\ KvElements(c) = 64 /\ OElements(c) = 256
          /\ FfnElements(c) = 512 /\ EmbedElements(c) = 1024
      BY DEF QElements, KvElements, OElements, FfnElements, EmbedElements
    <2>3. LayersFill(c, 2) /\ EmbedFills(c, 2)
      BY <2>2 DEF LayersFill, EmbedFills, FillsBytes
    <2> QED
      BY <1>1, <2>1, <2>3, V4Placed DEF CreateTestModel
  <1>2. ASSUME NEW c \in Models, ExportedFrom(c, f)
        PROVE  Placed(f)
    <2>1. CASE /\ LayersFill(c, 2) /\ EmbedFills(c, 2)
               /\ \/ f = ExportSmollmV4(c, 2)
                  \/ \E type \in {1, 10} : f = ExportGemma3(type, c, 2)
      BY <2>1, V4Placed DEF ExportSmollmV4, ExportGemma3
    <2>2. CASE \E lb, eb, hb \in Widths :
                  /\ LayersFill(c, lb) /\ EmbedFills(c, eb) /\ EmbedFills(c, hb)
                  /\ \/ f = ExportSmollmV5(c, lb, eb, hb)
                     \/ f = ExportSmollmV6(c, lb, eb, hb)
      BY <2>2, InlinePlaced DEF ExportSmollmV5, ExportSmollmV6
    <2>3. CASE \E bits \in Widths : /\ LayersFill(c, bits) /\ EmbedFills(c, bits)
                                    /\ f = ExportGemma3V7(c, bits, bits)
      BY <2>3, V7Placed
    <2>4. CASE f = ExportGemma3V8(c) \/ f = ExportGemma3V9(c)
      <3>1. /\ SerializeMatrixV8(EmbedElements(c)) \in Positive
            /\ SerializeMatrixV9(EmbedElements(c)) \in Positive
        BY EmbeddingTakesRoom DEF Widths
      <3> QED
        BY <2>4, <3>1, GroupedPlaced DEF ExportGemma3V8, ExportGemma3V9
    <2> QED
      BY <1>2, <2>1, <2>2, <2>3, <2>4 DEF ExportedFrom
  <1> QED
    BY <1>1, <1>2 DEF Exported

(* What a file says of itself: a version the kernel knows, dimensions that *)
(* are positive, a width, and an embedding right behind the header.        *)
Headed(f) == LET h == f.header IN
    /\ h.version \in 1 .. 9 /\ h.bits \in 1 .. 8
    /\ h.layers \in Positive /\ h.d \in Positive
    /\ h.heads \in Positive /\ h.vocab \in Positive
    /\ h.embedOff = HeaderSize(h)

(* The fields of the header, if they are those of the model.               *)
LEMMA HeadedIf ==
    ASSUME NEW f, NEW c \in Models, NEW h, h = f.header,
           h.layers = c.layers, h.d = c.d, h.heads = c.heads, h.vocab = c.vocab,
           h.bits \in Widths, h.version \in 4 .. 8,
           h.embedOff = IF h.version >= 7 THEN 176 ELSE 160
    PROVE  Headed(f)
  <1>1. c.layers \in Positive /\ c.d \in Positive /\ c.heads \in Positive
        /\ c.vocab \in Positive
    BY DEF Models
  <1> QED
    BY <1>1 DEF Headed, HeaderSize, Widths

LEMMA ExportedHeaded ==
    ASSUME NEW f, Exported(f)
    PROVE  Headed(f)
  <1>1. ASSUME NEW c \in Models, NEW type
        PROVE  Headed(V4Image(type, c, 2))
    <2> DEFINE h == V4Image(type, c, 2).header
    <2>1. /\ h.layers = c.layers /\ h.d = c.d /\ h.heads = c.heads /\ h.vocab = c.vocab
          /\ h.bits = 2 /\ h.version = 4 /\ h.embedOff = 160
      BY DEF V4Image, BuildV3Header, Sections
    <2> HIDE DEF h
    <2>2. h.bits \in Widths /\ h.version \in 4 .. 8
          /\ h.embedOff = IF h.version >= 7 THEN 176 ELSE 160
      BY <2>1 DEF Widths
    <2> QED
      BY <2>1, <2>2, HeadedIf DEF h
  <1>2. CASE f = CreateTestModel(2)
    <2> DEFINE c == [layers |-> 2, d |-> 16, heads |-> 4, kv |-> 1, dHead |-> 4,
                     vocab |-> 64, ffn |-> 32]
    <2>1. c \in Models
      BY DEF Models, Positive
    <2> QED
      BY <1>1, <1>2, <2>1 DEF CreateTestModel
  <1>3. ASSUME NEW c \in Models, ExportedFrom(c, f)
        PROVE  Headed(f)
    <2>1. CASE f = ExportSmollmV4(c, 2) \/ \E type \in {1, 10} : f = ExportGemma3(type, c, 2)
      BY <1>1, <2>1 DEF ExportSmollmV4, ExportGemma3
    <2>2. CASE \E lb, eb, hb \in Widths : \/ f = ExportSmollmV5(c, lb, eb, hb)
                                          \/ f = ExportSmollmV6(c, lb, eb, hb)
      <3>1. PICK lb \in Widths, eb \in Widths, hb \in Widths, version \in {5, 6} :
                    f = InlineImage(version, c, lb, eb, hb)
        BY <2>2 DEF ExportSmollmV5, ExportSmollmV6
      <3> DEFINE h == f.header
      <3>2. /\ h.layers = c.layers /\ h.d = c.d /\ h.heads = c.heads /\ h.vocab = c.vocab
            /\ h.bits = lb /\ h.version = version /\ h.embedOff = 160
        BY <3>1 DEF InlineImage, Sections
      <3> HIDE DEF h
      <3>3. h.bits \in Widths /\ h.version \in 4 .. 8
            /\ h.embedOff = IF h.version >= 7 THEN 176 ELSE 160
        BY <3>2
      <3> QED
        BY <3>2, <3>3, HeadedIf DEF h
    <2>3. CASE \E bits \in Widths : f = ExportGemma3V7(c, bits, bits)
      <3>1. PICK bits \in Widths : f = ExportGemma3V7(c, bits, bits)
        BY <2>3
      <3> DEFINE h == f.header
      <3>2. /\ h.layers = c.layers /\ h.d = c.d /\ h.heads = c.heads /\ h.vocab = c.vocab
            /\ h.bits = bits /\ h.version = 7 /\ h.embedOff = 176
        BY <3>1 DEF ExportGemma3V7, GemmaHeader, TiedSections, Sections
      <3> HIDE DEF h
      <3>3. h.bits \in Widths /\ h.version \in 4 .. 8
            /\ h.embedOff = IF h.version >= 7 THEN 176 ELSE 160
        BY <3>2
      <3> QED
        BY <3>2, <3>3, HeadedIf DEF h
    <2>4. CASE f = ExportGemma3V8(c) \/ f = ExportGemma3V9(c)
      <3>1. \E b, embedding : \E bits \in {4, 8} : f = GroupedImage(c, b, embedding, bits)
        BY <2>4 DEF ExportGemma3V8, ExportGemma3V9
      <3>2. PICK b, embedding, bits : f = GroupedImage(c, b, embedding, bits) /\ bits \in {4, 8}
        BY <3>1
      <3> DEFINE h == f.header
      <3>3. /\ h.layers = c.layers /\ h.d = c.d /\ h.heads = c.heads /\ h.vocab = c.vocab
            /\ h.bits = bits /\ h.version = 8 /\ h.embedOff = 176
        BY <3>2 DEF GroupedImage, GemmaHeader, TiedSections, Sections
      <3> HIDE DEF h
      <3>4. h.bits \in Widths /\ h.version \in 4 .. 8
            /\ h.embedOff = IF h.version >= 7 THEN 176 ELSE 160
        BY <3>2, <3>3 DEF Widths
      <3> QED
        BY <3>3, <3>4, HeadedIf DEF h
    <2> QED
      BY <1>3, <2>1, <2>2, <2>3, <2>4 DEF ExportedFrom
  <1> QED
    BY <1>2, <1>3 DEF Exported

(* The largest model the kernel takes.                                     *)
InRange(h) ==
    h.layers <= MaxLayers /\ h.d <= MaxDModel /\ h.heads <= 64 /\ h.vocab <= MaxVocab

(* HeadersAccepted of every exported model that is not too large: the      *)
(* header passes mdl_parse_header, whose length for the version is the one *)
(* the exporter put the embedding behind.                                  *)
THEOREM HeadersAlwaysAccepted ==
    ASSUME \A img \in DOMAIN Images : Exported(Images[img]),
           \A img \in DOMAIN Images : InRange(Images[img].header)
    PROVE  Spec => []HeadersAccepted
  <1>1. ASSUME NEW img \in DOMAIN Images
        PROVE  HeaderAccepted(Header(img))
    <2> DEFINE f == Images[img]
               h == f.header
    <2>1. Sound(f) /\ Placed(f) /\ Headed(f) /\ InRange(h)
      BY ExportedSound, ExportedPlaced, ExportedHeaded
    <2>2. /\ h.layers \in Positive /\ h.layer0Off \in Nat /\ h.total \in Nat
          /\ LayerBlockSize(h) \in Positive
          /\ h.layer0Off + h.layers * LayerBlockSize(h) < h.total
      BY <2>1 DEF Sound, LayerHeader, Positive
    <2>3. h.layers * LayerBlockSize(h) \in Nat
      BY <2>2, ProductPositive DEF Positive
    <2>4. /\ h.embedOff = HeaderSize(h) /\ h.embedOff \in Nat
          /\ h.embedOff < h.layer0Off
          /\ \/ h.lmheadOff = h.embedOff
             \/ h.lmheadOff \in Nat /\ h.layer0Off < h.lmheadOff /\ h.lmheadOff < h.total
      BY <2>1 DEF Placed, Headed, Tied
    <2>5. /\ h.version \in 1 .. 9 /\ h.layers \in 1 .. MaxLayers
          /\ h.d \in 1 .. MaxDModel /\ h.heads \in 1 .. 64
          /\ h.vocab \in 1 .. MaxVocab /\ h.bits \in 1 .. 8
      <3>1. MaxLayers \in Nat /\ MaxDModel \in Nat /\ MaxVocab \in Nat
        BY SMT DEF MaxLayers, MaxDModel, MaxVocab
      <3> QED
        BY <2>1, <3>1, SMT DEF Headed, InRange, Positive
    <2>6. h.layer0Off < h.total
      <3> DEFINE n == h.layers * LayerBlockSize(h)
      <3> HIDE DEF n
      <3> QED
        BY <2>2, <2>3 DEF n
    <2> HIDE DEF h, f
    <2>7. HeaderAccepted(h)
      BY <2>2, <2>4, <2>5, <2>6, SMT DEF HeaderAccepted
    <2> QED
      BY <2>7 DEF Header, h, f
  <1>2. Names => HeadersAccepted
    BY <1>1 DEF Names, HeadersAccepted, HasHeader, Sector
  <1> QED
    BY <1>2, NamesInvariant, PTL

(* With the loaded model whole on the disk, reading bytes inside its file  *)
(* yields them.                                                            *)
LEMMA ReadWhole ==
    ASSUME NoImage \notin [img : DOMAIN Images, part : Nat], model \in DOMAIN Images,
           Whole, Header(model).total \in Nat,
           NEW at \in Nat, NEW size \in Positive, at + size <= Header(model).total
    PROVE  Read(src, at, size) = Of(at)
  <1> DEFINE total == Header(model).total
             first == Sector(src + at \div 512)
  <1>1. ASSUME NEW s \in Span(at, size)
        PROVE  s \in 0 .. CeilDiv(total, 512) - 1
    BY <1>1 DEF Span, CeilDiv, Positive
  <1>2. at \div 512 \in Span(at, size) /\ at \div 512 \in Nat
    BY DEF Span, Positive
  <1> HIDE DEF total
  <1>3. \A s \in Span(at, size) : Sector(src + s) = [img |-> model, part |-> s]
    BY <1>1 DEF Whole, total
  <1>4. first = [img |-> model, part |-> at \div 512]
    BY <1>2, <1>3
  <1>5. first # NoImage /\ first.img = model
    BY <1>2, <1>4
  <1> HIDE DEF first
  <1> QED
    BY <1>3, <1>5 DEF Read, Of, first

(* What a read of the embedding, of its codebook, of the layers, of an LM  *)
(* head and of its codebook yield.                                         *)
LEMMA PartsRead ==
    ASSUME \A img \in DOMAIN Images : Exported(Images[img]),
           NoImage \notin [img : DOMAIN Images, part : Nat],
           Names, Whole, NEW h, h = Header(model)
    PROVE  /\ Read(src, h.embedOff, EmbedSize(h)) = Of(h.embedOff)
           /\ Read(src, h.layer0Off, RamBytes(h)) = Of(h.layer0Off)
           /\ ~Tied(h) => Read(src, h.lmheadOff, HeadBytes(h)) = Of(h.lmheadOff)
           /\ InlineBooks(h) =>
                 /\ Read(src, EmbedBookOff(h), SerializeCodebook(EmbedBits(h)))
                       = Of(Images[model].embedBook)
                 /\ Read(src, LmheadBookOff(h), SerializeCodebook(LmheadBits(h)))
                       = Of(Images[model].lmheadBook)
  <1>1. model \in DOMAIN Images
    BY DEF Names, Whole
  <1>2. Sound(Images[model]) /\ Placed(Images[model]) /\ h = Images[model].header
    BY <1>1, ExportedSound, ExportedPlaced DEF Header
  <1>3. /\ h.layers \in Positive /\ h.layer0Off \in Nat /\ h.total \in Nat
        /\ LayerBlockSize(h) \in Positive
        /\ h.layer0Off + h.layers * LayerBlockSize(h) < h.total
    BY <1>2 DEF Sound, LayerHeader, Positive
  <1>4. RamBytes(h) \in Positive /\ h.layer0Off + RamBytes(h) <= h.total
    <2>1. RamBytes(h) \in Positive
      BY <1>3, ProductPositive DEF RamBytes
    <2> QED
      BY <1>3, <2>1 DEF RamBytes, Positive
  <1>5. h.embedOff \in Nat /\ EmbedSize(h) \in Positive
        /\ h.embedOff + EmbedSize(h) <= h.total
    BY <1>2, <1>3, <1>4 DEF Placed, EmbedSize, Positive
  <1>6. ~Tied(h) => /\ h.lmheadOff \in Nat /\ HeadBytes(h) \in Positive
                    /\ h.lmheadOff + HeadBytes(h) <= h.total
    BY <1>2, <1>3 DEF Placed, HeadBytes, Positive
  <1>7. \A bits \in Widths : SerializeCodebook(bits) \in Positive
    <2>1. /\ SerializeCodebook(1) = 8 * 2 /\ SerializeCodebook(2) = 8 * 4
          /\ SerializeCodebook(4) = 8 * 16 /\ SerializeCodebook(8) = 8 * 256
      BY DEF SerializeCodebook
    <2> QED
      BY <2>1 DEF Widths, Positive
  <1>8. ASSUME InlineBooks(h)
        PROVE  /\ EmbedBookOff(h) = Images[model].embedBook
               /\ LmheadBookOff(h) = Images[model].lmheadBook
               /\ EmbedBookOff(h) \in Nat /\ LmheadBookOff(h) \in Nat
               /\ EmbedBookOff(h) + SerializeCodebook(EmbedBits(h)) <= h.total
               /\ LmheadBookOff(h) + SerializeCodebook(LmheadBits(h)) <= h.total
               /\ SerializeCodebook(EmbedBits(h)) \in Positive
               /\ SerializeCodebook(LmheadBits(h)) \in Positive
    BY <1>2, <1>7, <1>8 DEF Sound, Placed
  <1>9. Read(src, h.embedOff, EmbedSize(h)) = Of(h.embedOff)
    BY <1>1, <1>3, <1>5, ReadWhole
  <1>10. Read(src, h.layer0Off, RamBytes(h)) = Of(h.layer0Off)
    BY <1>1, <1>3, <1>4, ReadWhole
  <1>11. ~Tied(h) => Read(src, h.lmheadOff, HeadBytes(h)) = Of(h.lmheadOff)
    BY <1>1, <1>3, <1>6, ReadWhole
  <1>12. ASSUME InlineBooks(h)
         PROVE  /\ Read(src, EmbedBookOff(h), SerializeCodebook(EmbedBits(h)))
                      = Of(Images[model].embedBook)
                /\ Read(src, LmheadBookOff(h), SerializeCodebook(LmheadBits(h)))
                      = Of(Images[model].lmheadBook)
    BY <1>1, <1>3, <1>8, <1>12, ReadWhole
  <1> QED
    BY <1>9, <1>10, <1>11, <1>12

(* The widths for which the kernel reads a codebook of embedding or LM     *)
(* head where it stores it: not eight bits, which it stores as of four and *)
(* reads as of two, and four if the LM head is tied, whose codebook is     *)
(* copied as of four.                                                      *)
ReadableEmbed(h) == InlineBooks(h) => EmbedBits(h) # 8
ReadableHead(h) == InlineBooks(h) => /\ LmheadBits(h) # 8
                                     /\ Tied(h) => EmbedBits(h) = 4

(* The inductive form of EmbedServed: the codebooks of a v4 model are in   *)
(* place from model-load on, those of a later one from embed-load on.      *)
EmbedInPlace ==
    /\ embed.buf = Of(Header(model).embedOff)
    /\ InlineBooks(Header(model)) => EmbedBook(books) = Of(Images[model].embedBook)
HeaderBooksKept ==
    model # NoImage /\ Header(model).version = 4
        => books.embed = Of(76) /\ books.lmhead = Of(108)
OwnEmbed ==
    /\ embed = [loaded |-> embed.loaded, buf |-> embed.buf, norm |-> embed.norm]
    /\ books = [embed |-> books.embed, embed5 |-> books.embed5,
                lmhead |-> books.lmhead, lmhead5 |-> books.lmhead5]
    /\ HeaderBooksKept
    /\ embed.loaded /\ Whole => EmbedInPlace

LEMMA OwnEmbedInvariant ==
    ASSUME \A img \in DOMAIN Images : Exported(Images[img]),
           \A img \in DOMAIN Images : ReadableEmbed(Images[img].header),
           NoImage \notin [img : DOMAIN Images, part : Nat]
    PROVE  Spec => []OwnEmbed
  <1>1. Init => OwnEmbed
    BY DEF Init, OwnEmbed, NoEmbed, NoBooks, HeaderBooksKept
  <1>2. ASSUME Names, OwnEmbed, [Next]_vars PROVE OwnEmbed'
    <2> USE <1>2
    <2> DEFINE h == Header(model)
    <2>1. model # NoImage => model \in DOMAIN Images
      BY DEF Names
    <2>2. ASSUME NEW img \in DOMAIN Images, NEW lba \in Lbas, WriteToDisk(img, lba)
          PROVE  OwnEmbed'
      BY <2>2 DEF OwnEmbed, WriteToDisk, NoEmbed, NoBooks, HeaderBooksKept
    <2>3. ASSUME NEW lba \in Lbas, ModelLoad(lba) PROVE OwnEmbed'
      <3>1. embed' = [loaded |-> FALSE, buf |-> embed.buf, norm |-> embed.norm]
        BY <2>3 DEF ModelLoad, OwnEmbed
      <3>2. books' = HeaderBooks(model')
        BY <2>3 DEF ModelLoad
      <3>3. Header(model').version = 4 =>
              books'.embed = [img |-> model', at |-> 76]
              /\ books'.lmhead = [img |-> model', at |-> 108]
        <4>1. 4 \in 3 .. 4
          OBVIOUS
        <4>2. Header(model').version = 4 =>
                books' = [books EXCEPT !.embed = [img |-> model', at |-> 76],
                                       !.lmhead = [img |-> model', at |-> 108]]
          BY <3>2, <4>1 DEF HeaderBooks
        <4>3. "embed" \in DOMAIN books /\ "lmhead" \in DOMAIN books
          <5>1. DOMAIN books = {"embed", "embed5", "lmhead", "lmhead5"}
            BY DEF OwnEmbed
          <5> QED
            BY <5>1
        <4> QED
          BY <4>2, <4>3
      <3>4. books' = [embed |-> books'.embed, embed5 |-> books'.embed5,
                      lmhead |-> books'.lmhead, lmhead5 |-> books'.lmhead5]
        BY <3>2 DEF HeaderBooks, OwnEmbed
      <3>5. HeaderBooksKept'
        BY <3>3 DEF HeaderBooksKept, Of, Header
      <3> QED
        BY <3>1, <3>4, <3>5 DEF OwnEmbed
    <2>4. CASE UNCHANGED <<disk, model, src, embed, books>>
      BY <2>4 DEF OwnEmbed, EmbedInPlace, HeaderBooksKept, Whole, Of, Sector, Header,
                  EmbedBook
    <2>5. ASSUME EmbedLoad PROVE OwnEmbed'
      <3> DEFINE book == Read(src, EmbedBookOff(h), SerializeCodebook(EmbedBits(h)))
      <3>1. UNCHANGED <<disk, model, src>> /\ model # NoImage
        BY <2>5 DEF EmbedLoad
      <3>2. /\ embed'.buf = Read(src, h.embedOff, EmbedSize(h))
            /\ embed' = [loaded |-> embed'.loaded, buf |-> embed'.buf, norm |-> embed'.norm]
        BY <2>5 DEF EmbedLoad
      <3>3. books' = IF ~InlineBooks(h) THEN books
                     ELSE IF EmbedBits(h) <= 2 THEN [books EXCEPT !.embed = book]
                     ELSE [books EXCEPT !.embed5 = book]
        BY <2>5 DEF EmbedLoad
      <3> HIDE DEF book
      <3>4. books' = [embed |-> books'.embed, embed5 |-> books'.embed5,
                      lmhead |-> books'.lmhead, lmhead5 |-> books'.lmhead5]
        BY <3>3 DEF OwnEmbed
      <3>5. HeaderBooksKept'
        <4>1. h.version = 4 => ~InlineBooks(h)
          BY DEF InlineBooks
        <4> QED
          BY <3>1, <3>3, <4>1 DEF HeaderBooksKept, OwnEmbed, Of, Header
      <3>6. InlineBooks(h) => EmbedBook(books') = book
        <4> SUFFICES ASSUME InlineBooks(h) PROVE EmbedBook(books') = book
          OBVIOUS
        <4>1. EmbedBits(h) \in {1, 2, 4} /\ h.version >= 5
          BY <2>1, <3>1, ExportedPlaced DEF Placed, Widths, ReadableEmbed, InlineBooks, Header
        <4>2. CASE EmbedBits(h) = 4
          <5>1. books'.embed5 = book
            BY <3>3, <4>2 DEF OwnEmbed
          <5> QED
            BY <4>1, <4>2, <5>1 DEF EmbedBook
        <4>3. CASE EmbedBits(h) \in {1, 2}
          <5>1. books'.embed = book
            BY <3>3, <4>3 DEF OwnEmbed
          <5> QED
            BY <4>1, <4>3, <5>1 DEF EmbedBook
        <4> QED
          BY <4>1, <4>2, <4>3
      <3>7. ASSUME Whole PROVE embed'.buf = Of(h.embedOff)
                               /\ (InlineBooks(h) => book = Of(Images[model].embedBook))
        BY <3>2, <3>7, PartsRead DEF book
      <3>8. Whole' => EmbedInPlace'
        BY <3>1, <3>6, <3>7 DEF EmbedInPlace, Whole, Of, Sector, Header, EmbedBook
      <3> QED
        BY <3>2, <3>4, <3>5, <3>8 DEF OwnEmbed
    <2>6. ASSUME EmbedLoadFails PROVE OwnEmbed'
      <3>1. UNCHANGED <<disk, model, src, books>>
        BY <2>6 DEF EmbedLoadFails
      <3>2. PICK buf \in AfterFailure(embed.buf, src, h.embedOff, EmbedSize(h)) :
                embed' = [loaded |-> embed.loaded, buf |-> buf, norm |-> embed.norm]
        BY <2>6 DEF EmbedLoadFails, OwnEmbed
      <3>3. ASSUME embed.loaded, Whole PROVE buf = embed.buf
        <4>1. embed.buf = Read(src, h.embedOff, EmbedSize(h))
          BY <3>3, PartsRead DEF OwnEmbed, EmbedInPlace
        <4> QED
          BY <4>1 DEF AfterFailure
      <3>4. embed'.loaded /\ Whole' => EmbedInPlace'
        BY <3>1, <3>2, <3>3 DEF OwnEmbed, EmbedInPlace, Whole, Of, Sector, Header, EmbedBook
      <3> QED
        BY <3>1, <3>2, <3>4 DEF OwnEmbed, HeaderBooksKept, Of, Header
    <2>7. ASSUME RamLoad PROVE OwnEmbed'
      <3>1. UNCHANGED <<disk, model, src, embed>> /\ books' = HeadBooks(h)
        BY <2>7 DEF RamLoad
      <3>2. /\ books'.embed = books.embed /\ books'.embed5 = books.embed5
            /\ books' = [embed |-> books'.embed, embed5 |-> books'.embed5,
                         lmhead |-> books'.lmhead, lmhead5 |-> books'.lmhead5]
            /\ ~InlineBooks(h) => books' = books
        BY <3>1 DEF HeadBooks, OwnEmbed
      <3>3. HeaderBooksKept'
        <4>1. h.version = 4 => ~InlineBooks(h)
          BY DEF InlineBooks
        <4> QED
          BY <3>1, <3>2, <4>1 DEF HeaderBooksKept, OwnEmbed, Of, Header
      <3>4. EmbedBook(books') = EmbedBook(books)
        BY <3>2 DEF EmbedBook
      <3>5. embed'.loaded /\ Whole' => EmbedInPlace'
        BY <3>1, <3>4 DEF OwnEmbed, EmbedInPlace, Whole, Of, Sector, Header, EmbedBook
      <3> QED
        BY <3>1, <3>2, <3>3, <3>5 DEF OwnEmbed
    <2>8. ASSUME NEW l \in 0 .. 31, LayerLoad(l)
          PROVE  UNCHANGED <<disk, model, src, embed, books>>
      BY <2>8 DEF LayerLoad
    <2>9. ASSUME RamLoadFails \/ BeginPass \/ RunLayer \/ EndPass \/ UNCHANGED vars
          PROVE  UNCHANGED <<disk, model, src, embed, books>>
      <3>1. RamLoadFails => UNCHANGED <<disk, model, src, embed, books>>
        BY Zenon DEF RamLoadFails
      <3>2. BeginPass \/ RunLayer \/ EndPass => UNCHANGED <<disk, model, src, embed, books>>
        BY DEF BeginPass, RunLayer, EndPass
      <3>3. UNCHANGED vars => UNCHANGED <<disk, model, src, embed, books>>
        BY DEF vars, kernelVars
      <3> QED
        BY <2>9, <3>1, <3>2, <3>3
    <2> QED
      BY <2>2, <2>3, <2>4, <2>5, <2>6, <2>7, <2>8, <2>9 DEF Next
  <1> QED
    BY <1>1, <1>2, NamesInvariant, PTL DEF Spec

(* EmbedServed of every exported model whose codebook the kernel can read: *)
(* whatever was loaded before and however often a load failed, a lookup    *)
(* reads the embedding and the codebook of the loaded model.               *)
THEOREM EmbedAlwaysServed ==
    ASSUME \A img \in DOMAIN Images : Exported(Images[img]),
           \A img \in DOMAIN Images : ReadableEmbed(Images[img].header),
           NoImage \notin [img : DOMAIN Images, part : Nat]
    PROVE  Spec => []EmbedServed
  <1>1. ASSUME Names, OwnEmbed PROVE EmbedServed
    <2> SUFFICES ASSUME embed.loaded, Whole
                 PROVE  /\ embed.buf = Of(Header(model).embedOff)
                        /\ ~IsGroupwise(Header(model))
                              => EmbedBook(books) = Of(Images[model].embedBook)
      BY DEF EmbedServed
    <2>1. EmbedInPlace /\ HeaderBooksKept /\ model # NoImage /\ model \in DOMAIN Images
      BY <1>1 DEF OwnEmbed, Whole, Names
    <2>2. \/ Header(model).version >= 5
          \/ Header(model).version = 4 /\ Images[model].embedBook = 76
      BY <2>1, ExportedPlaced DEF Placed, Header
    <2> QED
      BY <2>1, <2>2 DEF EmbedInPlace, HeaderBooksKept, InlineBooks, EmbedBook
  <1> QED
    BY <1>1, NamesInvariant, OwnEmbedInvariant, PTL

(* RamServed of every exported model whose codebooks the kernel can read:  *)
(* a ram-load that succeeds leaves the layers, the LM head and its         *)
(* codebook of the loaded model in place, tied to the embedding or not.    *)
THEOREM RamAlwaysServed ==
    ASSUME \A img \in DOMAIN Images : Exported(Images[img]),
           \A img \in DOMAIN Images : ReadableEmbed(Images[img].header),
           \A img \in DOMAIN Images : ReadableHead(Images[img].header),
           NoImage \notin [img : DOMAIN Images, part : Nat]
    PROVE  Spec => RamServed
  <1> DEFINE h == Header(model)
             Served == /\ ram'.layers = Of(h.layer0Off)
                       /\ ram'.lmhead = Of(h.lmheadOff)
                       /\ ~IsGroupwise(h)
                             => LmheadBook(books') = Of(Images[model].lmheadBook)
  <1>1. ASSUME Names, OwnEmbed, RamLoad, Whole PROVE Served
    <2> USE <1>1
    <2>1. model \in DOMAIN Images /\ model # NoImage /\ embed.loaded
      BY DEF Names, Whole, RamLoad
    <2>2. EmbedInPlace /\ HeaderBooksKept
      BY <2>1 DEF OwnEmbed
    <2>3. Placed(Images[model]) /\ h = Images[model].header
          /\ ReadableEmbed(h) /\ ReadableHead(h)
      BY <2>1, ExportedPlaced DEF Header
    <2>4. /\ ram'.layers = Read(src, h.layer0Off, RamBytes(h))
          /\ ram'.lmhead = IF Tied(h) THEN embed.buf
                           ELSE Read(src, h.lmheadOff, HeadBytes(h))
          /\ books' = HeadBooks(h)
      BY DEF RamLoad
    <2>5. ram'.layers = Of(h.layer0Off)
      BY <2>4, PartsRead
    <2>6. ram'.lmhead = Of(h.lmheadOff)
      BY <2>2, <2>4, PartsRead DEF Tied, EmbedInPlace
    <2>7. CASE InlineBooks(h)
      <3> DEFINE book == Read(src, LmheadBookOff(h), SerializeCodebook(LmheadBits(h)))
      <3>1. book = Of(Images[model].lmheadBook)
        BY <2>7, PartsRead
      <3>2. h.version >= 5 /\ LmheadBits(h) \in {1, 2, 4} /\ EmbedBits(h) \in {1, 2, 4}
        BY <2>3, <2>7 DEF InlineBooks, Placed, Widths, ReadableEmbed, ReadableHead
      <3> HIDE DEF book
      <3>3. ASSUME Tied(h) PROVE LmheadBook(books') = Of(Images[model].lmheadBook)
        <4>1. EmbedBits(h) = 4 /\ LmheadBits(h) = 4
              /\ Images[model].lmheadBook = Images[model].embedBook
          BY <2>3, <2>7, <3>3 DEF Placed, ReadableHead
        <4>2. books' = [books EXCEPT !.lmhead5 = books.embed5]
          BY <2>4, <2>7, <3>3, <4>1 DEF HeadBooks
        <4>3. books'.lmhead5 = books.embed5
          BY <4>2 DEF OwnEmbed
        <4>4. books.embed5 = Of(Images[model].embedBook)
          BY <2>2, <2>7, <3>2, <4>1 DEF EmbedInPlace, EmbedBook
        <4> QED
          BY <3>2, <4>1, <4>3, <4>4 DEF LmheadBook
      <3>4. ASSUME ~Tied(h), LmheadBits(h) = 4
            PROVE  LmheadBook(books') = Of(Images[model].lmheadBook)
        <4>1. books'.lmhead5 = book
          BY <2>4, <2>7, <3>4 DEF HeadBooks, OwnEmbed, book
        <4> QED
          BY <3>1, <3>2, <3>4, <4>1 DEF LmheadBook
      <3>5. ASSUME ~Tied(h), LmheadBits(h) \in {1, 2}
            PROVE  LmheadBook(books') = Of(Images[model].lmheadBook)
        <4>1. books'.lmhead = book
          BY <2>4, <2>7, <3>5 DEF HeadBooks, OwnEmbed, book
        <4> QED
          BY <3>1, <3>2, <3>5, <4>1 DEF LmheadBook
      <3>6. LmheadBook(books') = Of(Images[model].lmheadBook)
        BY <3>2, <3>3, <3>4, <3>5
      <3> QED
        BY <2>5, <2>6, <3>6
    <2>8. CASE ~InlineBooks(h) /\ ~IsGroupwise(h)
      <3>1. h.version = 4 /\ Images[model].lmheadBook = 108
        BY <2>3, <2>8 DEF Placed, InlineBooks
      <3>2. books'.lmhead = Of(108)
        BY <2>1, <2>2, <2>4, <2>8, <3>1 DEF HeadBooks, HeaderBooksKept
      <3> QED
        BY <2>5, <2>6, <3>1, <3>2 DEF LmheadBook
    <2> QED
      BY <2>5, <2>6, <2>7, <2>8
  <1>2. Names /\ OwnEmbed => [RamLoad /\ Whole => Served]_vars
    BY <1>1
  <1>3. Spec => []OwnEmbed
    BY OwnEmbedInvariant
  <1> QED
    BY <1>2, <1>3, NamesInvariant, PTL DEF RamServed, Spec
----------------------------------------------------------------------------
(* Types                                                                   *)

(* What is read from the disk is a part of some image, or torn.            *)
LEMMA ReadTyped ==
    ASSUME disk \in [0 .. DiskSectors - 1 -> [img : DOMAIN Images, part : Nat] \cup {NoImage}],
           NEW lba, NEW at \in Nat, NEW size
    PROVE  Read(lba, at, size) \in Contents
  <1> DEFINE first == Sector(lba + at \div 512)
  <1>1. first = NoImage \/ first.img \in DOMAIN Images
    BY DEF Sector
  <1> HIDE DEF first
  <1>2. Read(lba, at, size) \in {[img |-> first.img, at |-> at], Torn}
        /\ (first = NoImage => Read(lba, at, size) = Torn)
    BY DEF Read, first
  <1> QED
    BY <1>1, <1>2 DEF Contents

(* So is what a failed read leaves in a buffer.                            *)
LEMMA AfterFailureTyped ==
    ASSUME NEW old \in Contents, NEW lba, NEW at, NEW size,
           NEW buf \in AfterFailure(old, lba, at, size)
    PROVE  buf \in Contents
  BY DEF AfterFailure, Contents

(* The places the loader reads are at natural numbers.                     *)
LEMMA PlacesTyped ==
    ASSUME NEW f, Sound(f), Placed(f), NEW h, h = f.header
    PROVE  /\ h.total \in Nat /\ h.embedOff \in Nat /\ h.layer0Off \in Nat
           /\ h.finalNormOff \in Nat /\ h.lmheadOff \in Nat
           /\ InlineBooks(h) => EmbedBookOff(h) \in Nat /\ LmheadBookOff(h) \in Nat
           /\ \A l \in Nat : LayerOff(h, l) \in Nat
  <1>1. /\ h.total \in Nat /\ h.embedOff \in Nat /\ h.layer0Off \in Nat
        /\ h.finalNormOff \in Nat /\ LayerBlockSize(h) \in Nat
    BY DEF Sound, Placed
  <1>2. h.lmheadOff \in Nat
    BY <1>1 DEF Placed, Tied
  <1>3. InlineBooks(h) => EmbedBookOff(h) \in Nat /\ LmheadBookOff(h) \in Nat
    BY DEF Sound, Placed
  <1>4. ASSUME NEW l \in Nat PROVE LayerOff(h, l) \in Nat
    <2>1. l * LayerBlockSize(h) \in Nat
      BY <1>1
    <2> QED
      BY <1>1, <2>1 DEF LayerOff, LayerHeader
  <1> QED
    BY <1>1, <1>2, <1>3, <1>4

(* The inductive form of TypeOK: a loaded model's header was accepted, and *)
(* a pass runs over the layers of a loaded model.                          *)
Typed ==
    /\ TypeOK
    /\ model # NoImage => HeaderAccepted(Header(model))
    /\ pass # None => model # NoImage /\ pass <= Header(model).layers

(* A layer that is loaded, or fails to load, leaves a typed buffer.        *)
LEMMA LayerTyped ==
    ASSUME \A img \in DOMAIN Images : Exported(Images[img]),
           TypeOK, model # NoImage, NEW l \in 0 .. 31, LayerLoaded(l) \/ LayerNotLoaded(l)
    PROVE  layer' \in [number : {None} \cup 0 .. 31, buf : Contents]
  <1>1. LayerSpan(l) \in Nat
    <2>1. model \in DOMAIN Images
      BY DEF TypeOK
    <2>2. Sound(Images[model]) /\ Placed(Images[model])
      BY <2>1, ExportedSound, ExportedPlaced
    <2> QED
      BY <2>2, PlacesTyped DEF LayerSpan, Header
  <1>2. Read(src, LayerSpan(l), LayerBytes) \in Contents
    BY <1>1, ReadTyped DEF TypeOK
  <1>3. layer.number \in {None} \cup 0 .. 31 /\ layer.buf \in Contents
    BY DEF TypeOK
  <1>4. CASE LayerLoaded(l)
    BY <1>2, <1>4 DEF LayerLoaded
  <1>5. CASE LayerNotLoaded(l)
    <2>1. PICK buf \in AfterFailure(layer.buf, src, LayerSpan(l), LayerBytes)
                       \cup {Read(src, LayerSpan(l), LayerBytes)} :
              layer' = [layer EXCEPT !.buf = buf]
      BY <1>5 DEF LayerNotLoaded
    <2>2. buf \in Contents
      BY <1>2, <1>3, <2>1, AfterFailureTyped
    <2>3. layer \in [number : {None} \cup 0 .. 31, buf : Contents]
      BY DEF TypeOK
    <2> QED
      BY <2>1, <2>2, <2>3
  <1> QED
    BY <1>4, <1>5

(* TypeOK of every exported model, of any size: with the bound on the      *)
(* layers of a header that is accepted, no layer or pass goes past it, and *)
(* a buffer never claims to hold bytes of what is no image.                *)
THEOREM LoaderTyping ==
    ASSUME \A img \in DOMAIN Images : Exported(Images[img]),
           MaxWrites \in Nat
    PROVE  Spec => []TypeOK
  <1>1. Init => Typed
    BY DEF Init, Typed, TypeOK, Contents, NoEmbed, NoBooks, NoLayer, NoRam, None
  <1>2. ASSUME Typed, [Next]_vars PROVE Typed'
    <2> USE <1>2
    <2> DEFINE h == Header(model)
    <2>1. TypeOK
      BY DEF Typed
    <2>2. ASSUME NEW lba, NEW at \in Nat, NEW size PROVE Read(lba, at, size) \in Contents
      BY <2>1, <2>2, ReadTyped DEF TypeOK
    <2>3. ASSUME model # NoImage
          PROVE  /\ h.embedOff \in Nat /\ h.layer0Off \in Nat
                 /\ h.finalNormOff \in Nat /\ h.lmheadOff \in Nat
                 /\ InlineBooks(h) => EmbedBookOff(h) \in Nat /\ LmheadBookOff(h) \in Nat
      <3>1. model \in DOMAIN Images
        BY <2>1, <2>3 DEF TypeOK
      <3>2. Sound(Images[model]) /\ Placed(Images[model])
        BY <3>1, ExportedSound, ExportedPlaced
      <3> QED
        BY <3>2, PlacesTyped DEF Header
    <2>4. CASE UNCHANGED <<disk, writes, model, src, pass>>
               /\ embed' \in [loaded : BOOLEAN, buf : Contents, norm : Contents]
               /\ books' \in [embed : Contents, embed5 : Contents,
                              lmhead : Contents, lmhead5 : Contents]
               /\ layer' \in [number : {None} \cup 0 .. 31, buf : Contents]
               /\ ram' \in [active : BOOLEAN, layers : Contents, lmhead : Contents,
                            tied : BOOLEAN]
      BY <2>4, Zenon DEF Typed, TypeOK, Contents, Header
    <2>5. ASSUME NEW img \in DOMAIN Images, NEW lba \in Lbas, WriteToDisk(img, lba)
          PROVE  Typed'
      <3>1. disk' \in [0 .. DiskSectors - 1 ->
                          [img : DOMAIN Images, part : Nat] \cup {NoImage}]
        <4> DEFINE parts == 0 .. CeilDiv(Images[img].header.total, 512) - 1
        <4>1. Images[img].header.total \in Nat
          BY ExportedSound DEF Sound
        <4>2. parts \subseteq Nat
          BY <4>1 DEF CeilDiv
        <4> HIDE DEF parts
        <4>3. DOMAIN disk = 0 .. DiskSectors - 1
              /\ \A s \in DOMAIN disk :
                    disk[s] \in [img : DOMAIN Images, part : Nat] \cup {NoImage}
          BY <2>1 DEF TypeOK
        <4>4. disk' = [s \in DOMAIN disk |-> IF s - lba \in parts
                          THEN [img |-> img, part |-> s - lba] ELSE disk[s]]
          BY <2>5 DEF WriteToDisk, parts
        <4> QED
          BY <4>2, <4>3, <4>4
      <3>2. writes' \in 0 .. MaxWrites
        BY <2>1, <2>5 DEF WriteToDisk, TypeOK
      <3>3. /\ model' = NoImage /\ src' = 0 /\ embed' = NoEmbed /\ books' = NoBooks
            /\ layer' = NoLayer /\ ram' = NoRam /\ pass' = None
        BY <2>5 DEF WriteToDisk
      <3> QED
        BY <3>1, <3>2, <3>3 DEF Typed, TypeOK, Contents, NoEmbed, NoBooks, NoLayer, NoRam
    <2>6. ASSUME NEW lba \in Lbas, ModelLoad(lba) PROVE Typed'
      <3> DEFINE img == Sector(lba).img
      <3>1. img \in DOMAIN Images
        BY <2>1, <2>6 DEF ModelLoad, HasHeader, Sector, TypeOK
      <3>2. HeaderBooks(img) \in [embed : Contents, embed5 : Contents,
                                  lmhead : Contents, lmhead5 : Contents]
        <4>1. [img |-> img, at |-> 76] \in Contents /\ [img |-> img, at |-> 108] \in Contents
          BY <3>1 DEF Contents
        <4>2. books \in [embed : Contents, embed5 : Contents,
                         lmhead : Contents, lmhead5 : Contents]
          BY <2>1 DEF TypeOK
        <4> HIDE DEF img
        <4> QED
          BY <4>1, <4>2 DEF HeaderBooks
      <3>3. /\ model' = img /\ src' = lba /\ books' = HeaderBooks(img)
            /\ embed' = [embed EXCEPT !.loaded = FALSE]
            /\ layer' = [layer EXCEPT !.number = None]
            /\ UNCHANGED <<disk, writes, ram, pass>> /\ pass = None
            /\ HeaderAccepted(Header(img))
        BY <2>6 DEF ModelLoad
      <3> HIDE DEF img
      <3>4. /\ embed' \in [loaded : BOOLEAN, buf : Contents, norm : Contents]
            /\ layer' \in [number : {None} \cup 0 .. 31, buf : Contents]
        BY <2>1, <3>3 DEF TypeOK
      <3>5. TypeOK'
        BY <2>1, <3>1, <3>2, <3>3, <3>4 DEF TypeOK, Contents
      <3> QED
        BY <3>3, <3>5 DEF Typed, Header
    <2>7. ASSUME EmbedLoad PROVE Typed'
      <3> DEFINE book == Read(src, EmbedBookOff(h), SerializeCodebook(EmbedBits(h)))
                 last == Read(src, h.finalNormOff, h.d * 8)
      <3>1. model # NoImage /\ UNCHANGED <<disk, writes, model, src, layer, ram, pass>>
        BY <2>7 DEF EmbedLoad
      <3>2. embed.buf \in Contents /\ embed.norm \in Contents
        BY <2>1 DEF TypeOK
      <3>3. PICK norm \in (IF h.finalNormOff = 0 THEN {embed.norm}
                           ELSE {last} \cup AfterFailure(embed.norm, src, h.finalNormOff,
                                                         h.d * 8)) :
                embed' = [loaded |-> TRUE, norm |-> norm,
                          buf |-> Read(src, h.embedOff, EmbedSize(h))]
        BY <2>7 DEF EmbedLoad
      <3>4. norm \in Contents
        <4>1. last \in Contents
          BY <2>2, <2>3, <3>1
        <4>2. norm \in {embed.norm, last}
              \/ norm \in AfterFailure(embed.norm, src, h.finalNormOff, h.d * 8)
          BY <3>3
        <4> QED
          BY <3>2, <4>1, <4>2, AfterFailureTyped
      <3>5. Read(src, h.embedOff, EmbedSize(h)) \in Contents
        BY <2>2, <2>3, <3>1
      <3>6. InlineBooks(h) => book \in Contents
        BY <2>2, <2>3, <3>1
      <3>7. books' = IF ~InlineBooks(h) THEN books
                     ELSE IF EmbedBits(h) <= 2 THEN [books EXCEPT !.embed = book]
                     ELSE [books EXCEPT !.embed5 = book]
        BY <2>7 DEF EmbedLoad
      <3> HIDE DEF book
      <3>8. books' \in [embed : Contents, embed5 : Contents,
                        lmhead : Contents, lmhead5 : Contents]
        BY <2>1, <3>6, <3>7 DEF TypeOK
      <3>9. embed' \in [loaded : BOOLEAN, buf : Contents, norm : Contents]
        BY <3>3, <3>4, <3>5
      <3> QED
        BY <2>1, <2>4, <3>1, <3>8, <3>9 DEF TypeOK
    <2>8. ASSUME EmbedLoadFails PROVE Typed'
      <3>1. PICK buf \in AfterFailure(embed.buf, src, h.embedOff, EmbedSize(h)) :
                embed' = [embed EXCEPT !.buf = buf]
        BY <2>8 DEF EmbedLoadFails
      <3>2. embed \in [loaded : BOOLEAN, buf : Contents, norm : Contents]
        BY <2>1 DEF TypeOK
      <3>3. buf \in Contents
        BY <3>1, <3>2, AfterFailureTyped
      <3>4. embed' \in [loaded : BOOLEAN, buf : Contents, norm : Contents]
        BY <3>1, <3>2, <3>3
      <3> QED
        BY <2>1, <2>4, <2>8, <3>4 DEF EmbedLoadFails, TypeOK
    <2>9. ASSUME NEW l \in 0 .. 31, LayerLoad(l) PROVE Typed'
      <3>1. layer' \in [number : {None} \cup 0 .. 31, buf : Contents]
        BY <2>1, <2>9, LayerTyped DEF LayerLoad
      <3> QED
        BY <2>1, <2>4, <2>9, <3>1 DEF LayerLoad, TypeOK
    <2>10. ASSUME RamLoad PROVE Typed'
      <3>1. model # NoImage /\ UNCHANGED <<disk, writes, model, src, embed, layer, pass>>
        BY <2>10 DEF RamLoad
      <3>2. HeadBooks(h) \in [embed : Contents, embed5 : Contents,
                              lmhead : Contents, lmhead5 : Contents]
        <4> DEFINE book == Read(src, LmheadBookOff(h), SerializeCodebook(LmheadBits(h)))
        <4>1. InlineBooks(h) => book \in Contents
          BY <2>2, <2>3, <3>1
        <4>2. books \in [embed : Contents, embed5 : Contents,
                         lmhead : Contents, lmhead5 : Contents]
          BY <2>1 DEF TypeOK
        <4>3. \/ HeadBooks(h) \in {books, [books EXCEPT !.lmhead5 = books.embed5],
                                   [books EXCEPT !.lmhead = books.embed5]}
              \/ /\ InlineBooks(h)
                 /\ HeadBooks(h) \in {[books EXCEPT !.lmhead5 = book],
                                      [books EXCEPT !.lmhead = book]}
          BY DEF HeadBooks
        <4> HIDE DEF book
        <4> QED
          BY <4>1, <4>2, <4>3
      <3>3. /\ Read(src, h.layer0Off, RamBytes(h)) \in Contents
            /\ Read(src, h.lmheadOff, HeadBytes(h)) \in Contents
            /\ embed.buf \in Contents /\ Tied(h) \in BOOLEAN
        BY <2>1, <2>2, <2>3, <3>1 DEF TypeOK, Tied
      <3>4. /\ ram' = [active |-> TRUE, tied |-> Tied(h),
                       layers |-> Read(src, h.layer0Off, RamBytes(h)),
                       lmhead |-> IF Tied(h) THEN embed.buf
                                  ELSE Read(src, h.lmheadOff, HeadBytes(h))]
            /\ books' = HeadBooks(h)
        BY <2>10 DEF RamLoad
      <3>5. ram' \in [active : BOOLEAN, layers : Contents, lmhead : Contents,
                      tied : BOOLEAN]
        BY <3>3, <3>4
      <3> QED
        BY <2>1, <2>4, <3>1, <3>2, <3>4, <3>5 DEF TypeOK
    <2>11. ASSUME RamLoadFails PROVE Typed'
      <3> DEFINE layers == Read(src, h.layer0Off, RamBytes(h))
                 failed == AfterFailure(ram.layers, src, h.layer0Off, RamBytes(h))
      <3>1. model # NoImage /\ UNCHANGED <<disk, writes, model, src, embed, books, layer, pass>>
        BY <2>11, Zenon DEF RamLoadFails
      <3>2. ram \in [active : BOOLEAN, layers : Contents, lmhead : Contents, tied : BOOLEAN]
        BY <2>1 DEF TypeOK
      <3>3. layers \in Contents /\ Torn \in Contents /\ failed \subseteq Contents
        <4>1. layers \in Contents
          BY <2>2, <2>3, <3>1
        <4>2. ram.layers \in Contents
          BY <3>2
        <4>3. failed \subseteq Contents
          BY <4>2, AfterFailureTyped
        <4> QED
          BY <4>1, <4>3 DEF Contents
      <3>4. \/ ram' = ram
            \/ \E buf \in failed \cup {layers}, head \in {ram.lmhead, Torn} :
                  ram' = [ram EXCEPT !.layers = buf, !.lmhead = head]
        BY <2>11 DEF RamLoadFails
      <3> HIDE DEF layers, failed
      <3>5. ASSUME NEW buf \in Contents, NEW head \in Contents,
                   ram' = [ram EXCEPT !.layers = buf, !.lmhead = head]
            PROVE  ram' \in [active : BOOLEAN, layers : Contents, lmhead : Contents,
                             tied : BOOLEAN]
        BY <3>2, <3>5
      <3>6. ram' \in [active : BOOLEAN, layers : Contents, lmhead : Contents,
                      tied : BOOLEAN]
        BY <3>2, <3>3, <3>4, <3>5
      <3> QED
        BY <2>1, <2>4, <3>1, <3>6 DEF TypeOK
    <2>12. model # NoImage => h.layers \in 1 .. 32
      BY DEF Typed, HeaderAccepted, MaxLayers
    <2>13. ASSUME model # NoImage, pass' = None \/ (pass' \in 0 .. h.layers),
                  layer' \in [number : {None} \cup 0 .. 31, buf : Contents],
                  UNCHANGED <<disk, writes, model, src, embed, books, ram>>
           PROVE  Typed'
      <3>1. pass' \in {None} \cup 0 .. 32
        <4> HIDE DEF h
        <4> QED
          BY <2>12, <2>13
      <3>2. TypeOK'
        BY <2>1, <2>13, <3>1 DEF TypeOK, Contents
      <3> QED
        BY <2>12, <2>13, <3>2, SMT DEF Typed, Header, None
    <2>14. layer \in [number : {None} \cup 0 .. 31, buf : Contents]
      BY <2>1 DEF TypeOK
    <2>15. ASSUME BeginPass PROVE Typed'
      <3>1. /\ model # NoImage /\ pass' \in {0, None}
            /\ UNCHANGED layer \/ LayerLoaded(0) \/ LayerNotLoaded(0)
            /\ UNCHANGED <<disk, writes, model, src, embed, books, ram>>
        BY <2>15 DEF BeginPass
      <3> QED
        BY <2>1, <2>12, <2>13, <2>14, <3>1, LayerTyped
    <2>16. ASSUME RunLayer PROVE Typed'
      <3>1. /\ pass # None /\ pass < h.layers /\ pass' = pass + 1
            /\ UNCHANGED layer \/ LayerLoaded(pass) \/ LayerNotLoaded(pass)
            /\ UNCHANGED <<disk, writes, model, src, embed, books, ram>>
        BY <2>16 DEF RunLayer
      <3>2. model # NoImage /\ pass \in 0 .. 31 /\ pass' \in 0 .. h.layers
        <4>1. model # NoImage /\ pass \in 0 .. 32
          BY <2>1, <3>1 DEF Typed, TypeOK
        <4> HIDE DEF h
        <4> QED
          BY <2>12, <3>1, <4>1
      <3>3. layer' \in [number : {None} \cup 0 .. 31, buf : Contents]
        BY <2>1, <2>14, <3>1, <3>2, LayerTyped
      <3> HIDE DEF h
      <3> QED
        BY <2>13, <3>1, <3>2, <3>3
    <2>17. ASSUME EndPass PROVE Typed'
      <3>1. /\ model # NoImage /\ pass' = None
            /\ UNCHANGED <<disk, writes, model, src, embed, books, layer, ram>>
        BY <2>17 DEF EndPass, Typed
      <3> QED
        BY <2>13, <2>14, <3>1
    <2>18. CASE UNCHANGED vars
      <3>1. UNCHANGED <<disk, writes, model, src, pass, embed, books, layer, ram>>
        BY <2>18 DEF vars, kernelVars
      <3> QED
        BY <2>1, <2>4, <3>1 DEF TypeOK
    <2> QED
      BY <2>5, <2>6, <2>7, <2>8, <2>9, <2>10, <2>11, <2>15, <2>16, <2>17, <2>18, Zenon
         DEF Next
  <1>3. Typed => TypeOK
    BY DEF Typed
  <1> QED
    BY <1>1, <1>2, <1>3, PTL DEF Spec
============================================================================
